----------------------------- MODULE KMutexProofs ----------------------------
(***************************************************************************)
(* Theorems about k_mutex_lock and k_mutex_unlock for any tasks,           *)
(* priorities and time-outs.                                               *)
(*                                                                         *)
(* Mutual exclusion does not depend on the run queues: its proof uses only *)
(* that a step of a call is a step of the running task.                    *)
(*                                                                         *)
(* The rest is about the links, which the run queues and the wait list     *)
(* share.  Until a priority is raised they are circular lists, one for     *)
(* each level, and one open list, without a common task; each step does to *)
(* these lists what Scheduler says, so that the inductive invariant of     *)
(* SchedulerProofs carries over.                                           *)
(*                                                                         *)
(* After a raise they are no such lists.  What is proved then rests on the *)
(* double links and on which tasks a level's head can be reached from.     *)
(***************************************************************************)
EXTENDS KMutex, FiniteSetTheorems, SequenceTheorems, WellFoundedInduction, TLAPS

-----------------------------------------------------------------------------
(* Mutual exclusion.                                                       *)

\* The inductive invariant: mutual exclusion says enough of the flag and the
\* owner; only the type of pc is added.
MutexInv == pc \in [Tasks -> Locations] /\ MutualExclusion

\* Initially the mutex is free.
LEMMA MutexInit == Init => MutexInv
BY KMutexAssumption DEF Init, MutexInv, MutualExclusion, Locations, AllTasks

\* The scheduler's own steps and those before the mutex is taken.
LEMMA MutexUntouched ==
  ASSUME MutexInv, UNCHANGED <<locked, owner>>,
         NEW t \in Tasks, NEW l \in Locations \ {"own", "inside"},
         pc[t] \notin {"own", "inside"}, pc' = [pc EXCEPT ![t] = l]
  PROVE  MutexInv'
<1>1. \A u \in Tasks : pc'[u] = IF u = t THEN l ELSE pc[u]
  BY DEF MutexInv
<1>2. pc' \in [Tasks -> Locations]
  BY DEF MutexInv
<1> QED
  BY <1>1, <1>2 DEF MutexInv, MutualExclusion

\* No step of any task lets a second one in.
LEMMA MutexStep == MutexInv /\ [Next]_vars => MutexInv'
<1> SUFFICES ASSUME MutexInv, [Next]_vars PROVE MutexInv'
  OBVIOUS
<1> USE DEF mutexVars, callVars
<1>1. ASSUME UNCHANGED <<locked, owner, pc>> PROVE MutexInv'
  BY <1>1 DEF MutexInv, MutualExclusion
<1>2. CASE UNCHANGED vars
  BY <1>1, <1>2 DEF vars
<1>3. CASE \E t \in Tasks, p \in BasePriorities : TaskCreate(t, p)
  BY <1>1, <1>3 DEF TaskCreate
<1>4. CASE TaskYield
  <2>1. /\ me \in Tasks /\ UNCHANGED <<locked, owner>>
        /\ pc' = [pc EXCEPT ![me] = IF @ = "unlocked" THEN "outside" ELSE @]
    BY <1>4 DEF TaskYield, AppCode, me
  <2>2. CASE pc[me] = "unlocked"
    BY <2>1, <2>2, MutexUntouched DEF Locations
  <2>3. CASE pc[me] # "unlocked"
    <3>1. pc' = pc
      BY <2>1, <2>3 DEF MutexInv
    <3> QED
      BY <1>1, <2>1, <3>1
  <2> QED
    BY <2>2, <2>3
<1>5. CASE YieldAfter \/ TickEnter \/ TickReturn \/ TickPreempt \/ TickResume
  BY <1>1, <1>5 DEF YieldAfter, TickEnter, TickReturn, TickPreempt, TickResume
<1>6. CASE \E ms \in LockTimeouts : LockCall(ms)
  BY <1>6, MutexUntouched
  DEF LockCall, Executes, AppCode, GoTo, me, Locations
<1>7. CASE Cas
  <2>1. me \in Tasks /\ pc[me] = "cas" /\ UNCHANGED owner
    BY <1>7 DEF Cas, Executes, AppCode, me
  <2>2. CASE locked = 0
    <3>1. locked' = 1 /\ pc' = [pc EXCEPT ![me] = "own"]
      BY <1>7, <2>2 DEF Cas, IsFree, GoTo
    <3>2. \A u \in Tasks : pc'[u] = IF u = me THEN "own" ELSE pc[u]
      BY <3>1, <2>1 DEF MutexInv
    <3>3. pc' \in [Tasks -> Locations]
      BY <3>1, <2>1 DEF MutexInv, Locations
    <3> QED
      BY <2>1, <2>2, <3>1, <3>2, <3>3 DEF MutexInv, MutualExclusion
  <2>3. CASE locked # 0
    <3>1. UNCHANGED locked /\ pc' = [pc EXCEPT ![me] = "boost"]
      BY <1>7, <2>3 DEF Cas, IsFree, GoTo
    <3> QED
      BY <2>1, <3>1, MutexUntouched DEF Locations
  <2> QED
    BY <2>2, <2>3
<1>8. CASE Own
  <2>1. /\ me \in Tasks /\ pc[me] = "own"
        /\ owner' = me /\ UNCHANGED locked
        /\ pc' = [pc EXCEPT ![me] = "inside"]
    BY <1>8 DEF Own, Executes, AppCode, GoTo, me
  <2>2. \A u \in Tasks : pc'[u] = IF u = me THEN "inside" ELSE pc[u]
    BY <2>1 DEF MutexInv
  <2>3. pc' \in [Tasks -> Locations]
    BY <2>1 DEF MutexInv, Locations
  <2> QED
    BY <2>1, <2>2, <2>3 DEF MutexInv, MutualExclusion
<1>9. CASE BoostTest \/ Compare \/ Raise \/ GiveUp \/ GoOn \/ Block
  <2>1. /\ me \in Tasks /\ pc[me] \in {"boost", "compare", "raise", "check", "block"}
        /\ UNCHANGED <<locked, owner>>
    BY <1>9 DEF BoostTest, Compare, Raise, GiveUp, GoOn, Block, Executes, AppCode, me
  <2>2. \E l \in Locations \ {"own", "inside"} : pc' = [pc EXCEPT ![me] = l]
    BY <1>9 DEF BoostTest, Compare, Raise, GiveUp, GoOn, Block, GoTo, Locations
  <2> QED
    BY <2>1, <2>2, MutexUntouched
<1>10. CASE Unlock
  <2>1. me \in Tasks /\ owner = me /\ owner' = NULL /\ locked' = 0
    BY <1>10 DEF Unlock, AppCode, IsOwner, me
  <2>2. \A u \in Tasks : u # me => pc[u] \notin {"own", "inside"}
    BY <2>1 DEF MutexInv, MutualExclusion
  <2>3. /\ pc' \in [Tasks -> Locations]
        /\ \A u \in Tasks : pc'[u] \in {pc[u], "cas", "outside", "unlocked"}
        /\ pc'[me] \in {"outside", "unlocked"}
    BY <1>10, <2>1 DEF Unlock, GoTo, MutexInv, Locations
  <2>4. \A u \in Tasks : pc'[u] \notin {"own", "inside"}
    BY <2>2, <2>3
  <2> QED
    BY <2>1, <2>3, <2>4, KMutexAssumption DEF MutexInv, MutualExclusion
<1> QED
  BY <1>2, <1>3, <1>4, <1>5, <1>6, <1>7, <1>8, <1>9, <1>10 DEF Next

\* One task at a time is inside the mutex, it is the owner, and the flag tells
\* whether there is one.
THEOREM MutexExcludes == Spec => []MutualExclusion
<1>1. MutexInv => MutualExclusion
  BY DEF MutexInv
<1> QED
  BY MutexInit, MutexStep, <1>1, PTL DEF Spec

-----------------------------------------------------------------------------
(* Walks along next.                                                       *)

\* A set of natural numbers has a least one.
LEMMA Least ==
  ASSUME NEW T \in SUBSET Nat, T # {} PROVE \E x \in T : \A y \in T : x <= y
<1> DEFINE R == StrictSubsetOrdering(Nat)
           F == FiniteSubsetsOf(Nat)
           below(x) == {y \in T : y < x}
           B == {below(x) : x \in T}
<1>1. IsWellFoundedOn(R, F)
  BY FS_StrictSubsetOrderingWellFounded
<1>2. B \subseteq F /\ B # {}
  <2>1. ASSUME NEW x \in T PROVE IsFiniteSet(below(x))
    <3>1. \A s \in below(x) : s <= x
      OBVIOUS
    <3>2. below(x) \in SUBSET Nat /\ x \in Nat
      OBVIOUS
    <3> HIDE DEF below
    <3> QED BY <3>1, <3>2, FS_BoundedSetOfNaturals
  <2>2. \A x \in T : below(x) \in F
    BY <2>1 DEF FiniteSubsetsOf
  <2> QED BY <2>2
<1> HIDE DEF R, F
<1>3. PICK b \in B : \A c \in B : ~ (<<c, b>> \in R)
  <2> HIDE DEF B
  <2> QED BY <1>1, <1>2, WFMin
<1>4. PICK x \in T : b = below(x)
  OBVIOUS
<1>5. ASSUME NEW y \in T, y < x PROVE FALSE
  <2>a. x \in Nat /\ y \in Nat /\ \A z \in T : z \in Nat
    OBVIOUS
  <2>1. below(y) \subseteq below(x) /\ y \in below(x) /\ y \notin below(y)
    <3>1. \A z \in T : z < y => z < x
      BY <1>5, <2>a
    <3>2. ~ (y < y)
      BY <2>a
    <3> QED BY <1>5, <3>1, <3>2
  <2>2. below(y) # below(x) /\ below(y) \in SUBSET Nat /\ below(x) \in SUBSET Nat
    BY <2>1
  <2>3. <<below(y), below(x)>> \in R
    BY <2>1, <2>2 DEF R, StrictSubsetOrdering
  <2> QED BY <1>3, <1>4, <2>3
<1> QED BY <1>5

\* What holds of 0 and passes on to the next number holds up to n.
LEMMA UpTo ==
  ASSUME NEW n \in Nat, NEW Good \in SUBSET Nat, 0 \in Good,
         \A i \in 1 .. n : i - 1 \in Good => i \in Good
  PROVE  \A i \in 0 .. n : i \in Good
<1> DEFINE bad == {i \in 0 .. n : i \notin Good}
<1> SUFFICES ASSUME bad # {} PROVE FALSE
  OBVIOUS
<1>1. PICK m \in bad : \A i \in bad : m <= i
  <2>1. bad \in SUBSET Nat
    OBVIOUS
  <2> HIDE DEF bad
  <2> QED BY <2>1, Least
<1>2. m \in 1 .. n /\ m - 1 \in 0 .. n /\ m - 1 < m
  <2>1. m \in 0 .. n /\ m # 0
    OBVIOUS
  <2> QED BY <2>1
<1>3. m - 1 \notin bad
  <2>1. m \in Nat /\ m - 1 \in Nat /\ ~ (m <= m - 1)
    BY <1>2
  <2> QED BY <1>1, <2>1
<1>4. m - 1 \in Good
  BY <1>2, <1>3
<1> QED BY <1>2, <1>4

\* The walk seen from h, one link further: the body of the recursion in LinkedQueues.
Longer(L, h, done) ==
  LET t == IF done = <<>> THEN h ELSE L.next[done[Len(done)]]
  IN  IF t = NULL \/ (done # <<>> /\ t = h) THEN done ELSE Append(done, t)

\* f[i] is the walk from h along the first i links.
WalkOf(L, h, n, f) ==
  f = [i \in 0 .. n |-> IF i = 0 THEN <<>> ELSE Longer(L, h, f[i - 1])]

\* The number of TCBs, which bounds a walk.
Nodes == Cardinality(AllTasks)

\* There are finitely many, and at least one.
LEMMA NodesNat == Nodes \in Nat \ {0} /\ IsFiniteSet(AllTasks)
<1>1. IsFiniteSet(AllTasks)
  BY KMutexAssumption, FS_AddElement DEF AllTasks
<1>2. AllTasks # {}
  BY DEF AllTasks
<1> QED BY <1>1, <1>2, FS_CardinalityType, FS_EmptySet DEF Nodes

\* LinkedQueues counts the same nodes.
LEMMA NodesIs == Q!Cardinality(AllTasks) = Nodes
BY DEF Q!Cardinality, Cardinality, Nodes

\* Any such function gives the result.
LEMMA WalkIs ==
  ASSUME NEW L, NEW h, NEW f, WalkOf(L, h, Nodes, f)
  PROVE  \E g : WalkOf(L, h, Nodes, g) /\ Q!Walk(L, h) = g[Nodes]
<1> DEFINE m == Q!Cardinality(AllTasks)
           body(w) == [i \in 0 .. m |->
              IF i = 0 THEN <<>>
              ELSE CHOOSE s \in {Longer(L, h, x) : x \in {w[i - 1]}} : TRUE]
           g == CHOOSE w : w = body(w)
<1>1. \A w : body(w) = [i \in 0 .. m |-> IF i = 0 THEN <<>> ELSE Longer(L, h, w[i - 1])]
  OBVIOUS
<1>2. \A w : WalkOf(L, h, Nodes, w) <=> w = body(w)
  BY <1>1, NodesIs DEF WalkOf
<1>3. g = body(g)
  BY <1>2
<1>4. Q!Walk(L, h) = g[m]
  BY DEF Q!Walk, Longer
<1> QED BY <1>2, <1>3, <1>4, NodesIs

-----------------------------------------------------------------------------
(* What the walk along the links yields.                                   *)

\* The first elements of a list.
LEMMA FirstPart ==
  ASSUME NEW S, NEW s \in Seq(S), NEW i \in 0 .. Len(s)
  PROVE  /\ SubSeq(s, 1, i) \in Seq(S) /\ Len(SubSeq(s, 1, i)) = i
         /\ i = 0 => SubSeq(s, 1, i) = <<>>
         /\ i > 0 => /\ SubSeq(s, 1, i) # <<>> /\ SubSeq(s, 1, i)[i] = s[i]
                     /\ Append(SubSeq(s, 1, i - 1), s[i]) = SubSeq(s, 1, i)
         /\ SubSeq(s, 1, Len(s)) = s
<1>1. Len(s) \in Nat /\ i \in Int /\ 1 \in Int /\ \A k \in 1 .. i : s[k] \in S
  BY ElementOfSeq, LenProperties
<1>2. /\ SubSeq(s, 1, i) \in Seq(S)
      /\ Len(SubSeq(s, 1, i)) = IF 1 <= i THEN i - 1 + 1 ELSE 0
      /\ \A k \in 1 .. i - 1 + 1 : SubSeq(s, 1, i)[k] = s[1 + k - 1]
  BY <1>1, SubSeqProperties
<1>3. Len(SubSeq(s, 1, i)) = i
  BY <1>1, <1>2
<1>4. i = 0 => SubSeq(s, 1, i) = <<>>
  BY <1>2, <1>3, EmptySeq
<1>5. ASSUME i > 0
      PROVE  /\ SubSeq(s, 1, i) # <<>> /\ SubSeq(s, 1, i)[i] = s[i]
             /\ Append(SubSeq(s, 1, i - 1), s[i]) = SubSeq(s, 1, i)
  <2>1. i - 1 \in Int /\ s[i] \in S /\ \A k \in 1 .. i - 1 : s[k] \in S
    BY <1>1, <1>5
  <2>2. /\ SubSeq(s, 1, i - 1) \in Seq(S)
        /\ Len(SubSeq(s, 1, i - 1)) = IF 1 <= i - 1 THEN i - 1 - 1 + 1 ELSE 0
        /\ \A k \in 1 .. i - 1 - 1 + 1 : SubSeq(s, 1, i - 1)[k] = s[1 + k - 1]
    BY <2>1, SubSeqProperties
  <2> DEFINE a == Append(SubSeq(s, 1, i - 1), s[i])
  <2>3. /\ a \in Seq(S) /\ Len(a) = Len(SubSeq(s, 1, i - 1)) + 1
        /\ \A k \in 1 .. Len(SubSeq(s, 1, i - 1)) : a[k] = SubSeq(s, 1, i - 1)[k]
        /\ a[Len(SubSeq(s, 1, i - 1)) + 1] = s[i]
    BY <2>1, <2>2, AppendProperties
  <2>4. Len(SubSeq(s, 1, i - 1)) = i - 1
    BY <1>1, <1>5, <2>2
  <2>5. Len(a) = i /\ \A k \in 1 .. i : a[k] = s[k]
    <3>1. Len(a) = i /\ a[i] = s[i]
      BY <1>1, <2>3, <2>4
    <3>2. ASSUME NEW k \in 1 .. i - 1 PROVE a[k] = s[k]
      <4>1. a[k] = SubSeq(s, 1, i - 1)[k]
        BY <2>3, <2>4
      <4>2. SubSeq(s, 1, i - 1)[k] = s[1 + k - 1] /\ 1 + k - 1 = k
        BY <1>1, <2>2
      <4> QED BY <4>1, <4>2
    <3> QED BY <1>1, <3>1, <3>2
  <2>6. \A k \in 1 .. i : SubSeq(s, 1, i)[k] = s[k]
    BY <1>1, <1>2
  <2>7. a = SubSeq(s, 1, i)
    <3> HIDE DEF a
    <3> QED BY <1>2, <1>3, <2>3, <2>5, <2>6, SeqEqual
  <2>8. SubSeq(s, 1, i)[i] = s[i] /\ SubSeq(s, 1, i) # <<>>
    BY <1>1, <1>3, <1>5, <2>6
  <2> QED BY <2>7, <2>8
<1> QED BY <1>2, <1>3, <1>4, <1>5, SubSeqFull

\* No element is repeated.
Distinct(s) == \A i, j \in 1 .. Len(s) : s[i] = s[j] => i = j

\* A list without repetition is no longer than the kernel has tasks.
LEMMA ListFits ==
  ASSUME NEW s \in Seq(AllTasks), Distinct(s) PROVE Len(s) \in 0 .. Nodes
<1>1. Len(s) \in Nat /\ s \in [1 .. Len(s) -> AllTasks]
  BY LenProperties
<1>2. s \in Injection(1 .. Len(s), AllTasks)
  BY <1>1 DEF Distinct, Injection, IsInjective
<1>3. Cardinality(1 .. Len(s)) <= Nodes
  BY <1>2, NodesNat, FS_Injection DEF Nodes
<1>4. Cardinality(1 .. Len(s)) = Len(s)
  <2>1. Cardinality(1 .. Len(s)) = IF 1 > Len(s) THEN 0 ELSE Len(s) - 1 + 1
    BY <1>1, FS_Interval
  <2> QED BY <1>1, <2>1
<1> QED BY <1>1, <1>3, <1>4, NodesNat

\* What a head pointer of the list s holds.
HeadOf(s) == IF s = <<>> THEN NULL ELSE s[1]

\* The walk along links that connect a list without repetition up to its last node,
\* which leads back to the first or nowhere, yields the list.
LEMMA WalkIsList ==
  ASSUME NEW L, NEW s \in Seq(AllTasks), Distinct(s),
         \A i \in 1 .. Len(s) : i < Len(s) => L.next[s[i]] = s[i + 1],
         s # <<>> => L.next[s[Len(s)]] \in {NULL, s[1]}
  PROVE  Q!Walk(L, HeadOf(s)) = s
<1> DEFINE h == HeadOf(s)
           n == Nodes
           m == Len(s)
           upto(i) == IF i <= m THEN SubSeq(s, 1, i) ELSE s
           f == [i \in 0 .. n |-> upto(i)]
<1>1. m \in Nat /\ n \in Nat /\ m <= n
  BY ListFits, NodesNat
<1>2. ASSUME NEW i \in 1 .. n PROVE Longer(L, h, upto(i - 1)) = upto(i)
  <2>1. CASE i <= m
    <3>0. i \in 0 .. m /\ i - 1 \in 0 .. m /\ i - 1 <= m /\ i > 0
      BY <1>1, <2>1
    <3> DEFINE done == SubSeq(s, 1, i - 1)
    <3>1. /\ upto(i - 1) = done /\ upto(i) = SubSeq(s, 1, i) /\ Len(done) = i - 1
          /\ Append(done, s[i]) = SubSeq(s, 1, i)
          /\ i - 1 = 0 => done = <<>>
          /\ i - 1 > 0 => done # <<>> /\ done[i - 1] = s[i - 1]
      <4>1. /\ Append(done, s[i]) = SubSeq(s, 1, i)
            /\ upto(i - 1) = done /\ upto(i) = SubSeq(s, 1, i)
        BY <2>1, <3>0, FirstPart
      <4>2. /\ Len(done) = i - 1
            /\ i - 1 = 0 => done = <<>>
            /\ i - 1 > 0 => done # <<>> /\ done[i - 1] = s[i - 1]
        BY <3>0, FirstPart
      <4> QED BY <4>1, <4>2
    <3>2. s[i] \in AllTasks /\ s[i] # NULL
      BY <3>0, KMutexAssumption DEF AllTasks
    <3> HIDE DEF done, upto
    <3>3. CASE i = 1
      <4>1. done = <<>> /\ h = s[i] /\ s # <<>>
        BY <1>1, <2>1, <3>1, <3>3 DEF HeadOf
      <4> QED BY <3>1, <3>2, <4>1 DEF Longer
    <3>4. CASE i > 1
      <4>1. done # <<>> /\ done[Len(done)] = s[i - 1]
        BY <3>1, <3>4
      <4>2. L.next[s[i - 1]] = s[i]
        <5>1. i - 1 \in 1 .. m /\ i - 1 < m /\ i - 1 + 1 = i
          BY <1>1, <2>1, <3>4
        <5> QED BY <5>1
      <4>3. h = s[1] /\ s[i] # s[1]
        <5>1. i \in 1 .. m /\ 1 \in 1 .. m /\ s # <<>>
          BY <1>1, <2>1, <3>4
        <5> QED BY <3>4, <5>1 DEF HeadOf, Distinct
      <4> QED BY <3>1, <3>2, <4>1, <4>2, <4>3 DEF Longer
    <3> QED BY <3>3, <3>4
  <2>2. CASE i > m
    <3>1. upto(i) = s /\ upto(i - 1) = s
      <4>1. i - 1 <= m => i - 1 = m
        BY <1>1, <2>2
      <4>2. ~ (i <= m) /\ SubSeq(s, 1, m) = s
        BY <1>1, <2>2, SubSeqFull
      <4> QED BY <4>1, <4>2
    <3>2. Longer(L, h, s) = s
      BY DEF Longer, HeadOf
    <3> QED BY <3>1, <3>2
  <2> QED BY <1>1, <2>1, <2>2
<1>3. upto(0) = <<>> /\ upto(n) = s
  <2>1. SubSeq(s, 1, 0) = <<>> /\ SubSeq(s, 1, m) = s /\ 0 <= m
    BY <1>1, SubSeqEmpty, SubSeqFull
  <2>2. n <= m => n = m
    BY <1>1
  <2> QED BY <2>1, <2>2
<1> HIDE DEF upto
<1>4. WalkOf(L, h, n, f)
  <2>1. \A i \in 0 .. n : f[i] = IF i = 0 THEN <<>> ELSE Longer(L, h, f[i - 1])
    <3> SUFFICES ASSUME NEW i \in 0 .. n
                 PROVE  f[i] = IF i = 0 THEN <<>> ELSE Longer(L, h, f[i - 1])
      OBVIOUS
    <3>1. CASE i = 0
      BY <1>1, <1>3, <3>1
    <3>2. CASE i # 0
      <4>1. i \in 1 .. n /\ i - 1 \in 0 .. n
        BY <1>1, <3>2
      <4> QED BY <1>2, <3>2, <4>1
    <3> QED BY <3>1, <3>2
  <2> QED BY <2>1 DEF WalkOf
<1>5. PICK g : WalkOf(L, h, n, g) /\ Q!Walk(L, h) = g[n]
  BY <1>4, WalkIs
<1>6. g[n] = upto(n)
  <2> DEFINE Good == {i \in Nat : i <= n => g[i] = upto(i)}
  <2>1. \A i \in 0 .. n : g[i] = IF i = 0 THEN <<>> ELSE Longer(L, h, g[i - 1])
    BY <1>5 DEF WalkOf
  <2>2. 0 \in Good
    BY <1>1, <1>3, <2>1
  <2>3. ASSUME NEW i \in 1 .. n, i - 1 \in Good PROVE i \in Good
    <3>1. i \in 0 .. n /\ i # 0 /\ i - 1 <= n /\ i \in Nat
      BY <1>1
    <3>2. g[i - 1] = upto(i - 1) /\ g[i] = Longer(L, h, g[i - 1])
      BY <2>1, <2>3, <3>1
    <3> QED BY <1>2, <3>1, <3>2
  <2>4. n \in Good
    <3> HIDE DEF Good
    <3>1. Good \in SUBSET Nat
      BY DEF Good
    <3>2. \A i \in 0 .. n : i \in Good
      BY <1>1, <2>2, <2>3, <3>1, UpTo
    <3> QED BY <1>1, <3>2
  <2> QED BY <1>1, <2>4
<1> QED BY <1>3, <1>5, <1>6

\* There is a function of walks for any links.
LEMMA WalkExists ==
  ASSUME NEW L, NEW h, NEW n \in Nat PROVE \E f : WalkOf(L, h, n, f)
<1> DEFINE Good == {i \in Nat : \E f : WalkOf(L, h, i, f)}
<1>1. 0 \in Good
  <2>1. WalkOf(L, h, 0, [i \in 0 .. 0 |-> <<>>])
    BY DEF WalkOf
  <2> QED BY <2>1
<1>2. ASSUME NEW m \in 1 .. n, m - 1 \in Good PROVE m \in Good
  <2>0. m \in Nat /\ m - 1 \in 0 .. m - 1 /\ m \notin 0 .. m - 1
    OBVIOUS
  <2>1. PICK f : WalkOf(L, h, m - 1, f)
    BY <1>2
  <2> DEFINE g == [i \in 0 .. m |-> IF i = m THEN Longer(L, h, f[m - 1]) ELSE f[i]]
  <2>2. \A i \in 0 .. m - 1 : f[i] = IF i = 0 THEN <<>> ELSE Longer(L, h, f[i - 1])
    BY <2>1 DEF WalkOf
  <2>3. \A i \in 0 .. m : g[i] = IF i = 0 THEN <<>> ELSE Longer(L, h, g[i - 1])
    <3> SUFFICES ASSUME NEW i \in 0 .. m
                 PROVE  g[i] = IF i = 0 THEN <<>> ELSE Longer(L, h, g[i - 1])
      OBVIOUS
    <3>1. CASE i = m
      <4>1. i # 0 /\ i - 1 \in 0 .. m /\ i - 1 # m /\ i - 1 = m - 1
        BY <2>0, <3>1
      <4> QED BY <3>1, <4>1
    <3>2. CASE i # m
      <4>1. i \in 0 .. m - 1
        BY <2>0, <3>2
      <4>2. i # 0 => i - 1 \in 0 .. m /\ i - 1 # m
        BY <2>0, <3>2
      <4> QED BY <2>2, <3>2, <4>1, <4>2
    <3> QED BY <3>1, <3>2
  <2>4. WalkOf(L, h, m, g)
    BY <2>3 DEF WalkOf
  <2> QED BY <2>0, <2>4
<1>3. \A i \in 0 .. n : i \in Good
  <2>1. Good \in SUBSET Nat
    OBVIOUS
  <2> HIDE DEF Good
  <2> QED BY <1>1, <1>2, <2>1, UpTo
<1> QED BY <1>3

\* A walk stays among the nodes the links do not leave.
LEMMA WalkStays ==
  ASSUME NEW S, NEW L, NEW h \in S \cup {NULL},
         \A t \in S : L.next[t] \in S \cup {NULL}
  PROVE  Q!Walk(L, h) \in Seq(S)
<1> DEFINE n == Nodes
<1>0. n \in Nat
  BY NodesNat
<1>1. PICK g : WalkOf(L, h, n, g) /\ Q!Walk(L, h) = g[n]
  BY <1>0, WalkExists, WalkIs
<1> DEFINE Good == {i \in Nat : i <= n => g[i] \in Seq(S)}
<1>2. \A i \in 0 .. n : g[i] = IF i = 0 THEN <<>> ELSE Longer(L, h, g[i - 1])
  BY <1>1 DEF WalkOf
<1>3. 0 \in Good
  <2>1. g[0] = <<>>
    BY <1>0, <1>2
  <2> QED BY <2>1, EmptySeq
<1>4. ASSUME NEW i \in 1 .. n, i - 1 \in Good PROVE i \in Good
  <2>1. i \in 0 .. n /\ i # 0 /\ i - 1 <= n /\ i \in Nat
    BY <1>0
  <2>2. g[i - 1] \in Seq(S) /\ g[i] = Longer(L, h, g[i - 1])
    BY <1>2, <1>4, <2>1
  <2>3. g[i] \in Seq(S)
    <3> DEFINE w == g[i - 1]
               t == IF w = <<>> THEN h ELSE L.next[w[Len(w)]]
    <3>1. t \in S \cup {NULL}
      <4>1. w # <<>> => w[Len(w)] \in S
        BY <2>2
      <4> QED BY <4>1
    <3>2. Longer(L, h, w) \in {w, Append(w, t)}
      BY DEF Longer
    <3>3. t # NULL => Append(w, t) \in Seq(S)
      BY <2>2, <3>1
    <3>4. t = NULL => Longer(L, h, w) = w
      BY DEF Longer
    <3> HIDE DEF t
    <3> QED BY <2>2, <3>2, <3>3, <3>4
  <2> QED BY <2>1, <2>3
<1>5. n \in Good
  <2>1. Good \in SUBSET Nat
    OBVIOUS
  <2> HIDE DEF Good
  <2>2. \A i \in 0 .. n : i \in Good
    BY <1>0, <1>3, <1>4, <2>1, UpTo
  <2> QED BY <1>0, <2>2
<1> QED BY <1>0, <1>1, <1>5

-----------------------------------------------------------------------------
(* Types.  The walk along the wait list meets tasks only because the idle  *)
(* task is linked to nothing but itself, and only in level 0.              *)

\* The links, as TypeOK has them.
LinkRecords ==
  [next : [AllTasks -> Pointers], prev : [AllTasks -> Pointers],
   run_queue : [Priorities -> Pointers], bitmap : SUBSET Priorities, fault : BOOLEAN]

\* The links of the tasks S and of the idle task.
IdleApart(L, S) ==
  /\ L \in LinkRecords
  /\ {L.next[Idle], L.prev[Idle], L.run_queue[0]} \subseteq {Idle, NULL}
  /\ \A t \in Tasks : {L.next[t], L.prev[t]} \subseteq S \cup {NULL}
  /\ \A p \in 1 .. MaxPriority : L.run_queue[p] \in S \cup {NULL}

\* t can be linked in level p.
Belongs(t, p, S) == IF t = Idle THEN p = 0 ELSE t \in S /\ p \in 1 .. MaxPriority

\* The tasks that were created, in the states st.
Started(st) == {t \in Tasks : st[t] # "NEW"}

\* The inductive invariant for the types: only tasks that were created are linked.
Types ==
  /\ TypeOK
  /\ IdleApart(links, Started(state))
  /\ {wait_head, owner} \subseteq Started(state) \cup {NULL}
  /\ current_task \in Started(state) \cup {Idle}
  /\ priority[Idle] = 0
  /\ \A t \in Started(state) : {priority[t], base_priority[t]} \subseteq 1 .. MaxPriority

\* Tasks, the idle task and NULL are different; level 0 is a level of its own.
LEMMA Domains ==
  /\ Idle \in AllTasks /\ Tasks \subseteq AllTasks /\ Idle \notin Tasks
  /\ NULL \notin AllTasks /\ NULL \in Pointers /\ AllTasks \subseteq Pointers
  /\ 0 \in Priorities /\ 1 .. MaxPriority \subseteq Priorities /\ 0 \notin 1 .. MaxPriority
  /\ \A p \in Priorities : p # 0 => p \in 1 .. MaxPriority
BY KMutexAssumption DEF AllTasks, Pointers, Priorities

\* rq_enqueue, field by field: the level is empty, or the task becomes the last.
LEMMA EnqueuedAlone ==
  ASSUME NEW L \in LinkRecords, NEW t \in AllTasks, NEW p \in Priorities,
         L.run_queue[p] = NULL
  PROVE  LET M == Q!RqEnqueue(L, t, p)
         IN  /\ M.next = [L.next EXCEPT ![t] = t] /\ M.prev = [L.prev EXCEPT ![t] = t]
             /\ M.run_queue = [L.run_queue EXCEPT ![p] = t]
             /\ M.bitmap = L.bitmap \cup {p} /\ M.fault = L.fault
             /\ M \in LinkRecords
<1> DEFINE M == Q!RqEnqueue(L, t, p)
           A == [L EXCEPT !.next[t] = t, !.prev[t] = t, !.run_queue[p] = t]
<1>1. M = [A EXCEPT !.bitmap = @ \cup {p}]
  BY DEF Q!RqEnqueue, Q!LinkAlone
<1>2. /\ A \in LinkRecords
      /\ A.next = [L.next EXCEPT ![t] = t] /\ A.prev = [L.prev EXCEPT ![t] = t]
      /\ A.run_queue = [L.run_queue EXCEPT ![p] = t]
      /\ A.bitmap = L.bitmap /\ A.fault = L.fault
  BY Domains DEF LinkRecords
<1> HIDE DEF A
<1>3. /\ [A EXCEPT !.bitmap = @ \cup {p}] \in LinkRecords
      /\ [A EXCEPT !.bitmap = @ \cup {p}].next = A.next
      /\ [A EXCEPT !.bitmap = @ \cup {p}].prev = A.prev
      /\ [A EXCEPT !.bitmap = @ \cup {p}].run_queue = A.run_queue
      /\ [A EXCEPT !.bitmap = @ \cup {p}].bitmap = A.bitmap \cup {p}
      /\ [A EXCEPT !.bitmap = @ \cup {p}].fault = A.fault
  BY <1>2 DEF LinkRecords
<1> QED BY <1>1, <1>2, <1>3

\* As above, the level holds a task.
LEMMA EnqueuedLast ==
  ASSUME NEW L \in LinkRecords, NEW t \in AllTasks, NEW p \in Priorities,
         L.run_queue[p] \in AllTasks, L.prev[L.run_queue[p]] \in AllTasks
  PROVE  LET M == Q!RqEnqueue(L, t, p)
             h == L.run_queue[p]
             tail == L.prev[h]
         IN  /\ M.next = [L.next EXCEPT ![tail] = t, ![t] = h]
             /\ M.prev = [L.prev EXCEPT ![t] = tail, ![h] = t]
             /\ M.run_queue = L.run_queue
             /\ M.bitmap = L.bitmap \cup {p} /\ M.fault = L.fault
             /\ M \in LinkRecords
<1> DEFINE M == Q!RqEnqueue(L, t, p)
           h == L.run_queue[p]
           tail == L.prev[h]
           A == [L EXCEPT !.next = [@ EXCEPT ![tail] = t, ![t] = h],
                          !.prev = [@ EXCEPT ![t] = tail, ![h] = t]]
<1>1. M = [A EXCEPT !.bitmap = @ \cup {p}]
  BY Domains DEF Q!RqEnqueue, Q!LinkAtTail
<1>2. /\ A \in LinkRecords
      /\ A.next = [L.next EXCEPT ![tail] = t, ![t] = h]
      /\ A.prev = [L.prev EXCEPT ![t] = tail, ![h] = t]
      /\ A.run_queue = L.run_queue
      /\ A.bitmap = L.bitmap /\ A.fault = L.fault
  BY Domains DEF LinkRecords
<1> HIDE DEF A
<1>3. /\ [A EXCEPT !.bitmap = @ \cup {p}] \in LinkRecords
      /\ [A EXCEPT !.bitmap = @ \cup {p}].next = A.next
      /\ [A EXCEPT !.bitmap = @ \cup {p}].prev = A.prev
      /\ [A EXCEPT !.bitmap = @ \cup {p}].run_queue = A.run_queue
      /\ [A EXCEPT !.bitmap = @ \cup {p}].bitmap = A.bitmap \cup {p}
      /\ [A EXCEPT !.bitmap = @ \cup {p}].fault = A.fault
  BY <1>2 DEF LinkRecords
<1> QED BY <1>1, <1>2, <1>3

\* rq_remove, field by field: the only task of a level, or one of several.
LEMMA RemovedAlone ==
  ASSUME NEW L \in LinkRecords, NEW t \in AllTasks, NEW p \in Priorities, L.next[t] = t
  PROVE  LET M == Q!RqRemove(L, t, p)
         IN  /\ M.next = [L.next EXCEPT ![t] = NULL]
             /\ M.prev = [L.prev EXCEPT ![t] = NULL]
             /\ M.run_queue = [L.run_queue EXCEPT ![p] = NULL]
             /\ M.bitmap = L.bitmap \ {p} /\ M.fault = L.fault
             /\ M \in LinkRecords
<1> DEFINE M == Q!RqRemove(L, t, p)
           A == [L EXCEPT !.run_queue[p] = NULL, !.bitmap = @ \ {p},
                          !.next[t] = NULL, !.prev[t] = NULL]
<1>1. M = A
  BY DEF Q!RqRemove
<1>2. /\ A \in LinkRecords
      /\ A.next = [L.next EXCEPT ![t] = NULL] /\ A.prev = [L.prev EXCEPT ![t] = NULL]
      /\ A.run_queue = [L.run_queue EXCEPT ![p] = NULL]
      /\ A.bitmap = L.bitmap \ {p} /\ A.fault = L.fault
  BY Domains DEF LinkRecords
<1> QED BY <1>1, <1>2

\* As above, there are others.
LEMMA RemovedLinked ==
  ASSUME NEW L \in LinkRecords, NEW t \in AllTasks, NEW p \in Priorities,
         L.next[t] # t, L.next[t] \in AllTasks, L.prev[t] \in AllTasks
  PROVE  LET M == Q!RqRemove(L, t, p)
             nx == L.next[t]
             pv == L.prev[t]
         IN  /\ M.next = [L.next EXCEPT ![pv] = nx, ![t] = NULL]
             /\ M.prev = [L.prev EXCEPT ![nx] = pv, ![t] = NULL]
             /\ M.run_queue = [L.run_queue EXCEPT ![p] = IF @ = t THEN nx ELSE @]
             /\ M.bitmap = L.bitmap /\ M.fault = L.fault
             /\ M \in LinkRecords
<1> DEFINE M == Q!RqRemove(L, t, p)
           nx == L.next[t]
           pv == L.prev[t]
           A == [L EXCEPT !.next = [@ EXCEPT ![pv] = nx, ![t] = NULL],
                          !.prev = [@ EXCEPT ![nx] = pv, ![t] = NULL],
                          !.run_queue[p] = IF @ = t THEN nx ELSE @]
<1>1. M = A
  BY Domains DEF Q!RqRemove
<1>2. /\ A \in LinkRecords
      /\ A.next = [L.next EXCEPT ![pv] = nx, ![t] = NULL]
      /\ A.prev = [L.prev EXCEPT ![nx] = pv, ![t] = NULL]
      /\ A.run_queue = [L.run_queue EXCEPT ![p] = IF @ = t THEN nx ELSE @]
      /\ A.bitmap = L.bitmap /\ A.fault = L.fault
  BY Domains DEF LinkRecords
<1> QED BY <1>1, <1>2

\* rq_enqueue keeps the idle task apart.
LEMMA EnqueueApart ==
  ASSUME NEW S \in SUBSET Tasks, NEW L, IdleApart(L, S), NEW t, NEW p, Belongs(t, p, S)
  PROVE  IdleApart(Q!RqEnqueue(L, t, p), S)
<1> DEFINE M == Q!RqEnqueue(L, t, p)
           h == L.run_queue[p]
           tail == L.prev[h]
<1> SUFFICES IdleApart(M, S)
  OBVIOUS
<1>1. p \in Priorities /\ t \in AllTasks /\ t \in Pointers /\ t # NULL
  BY Domains DEF Belongs
<1>2. L \in LinkRecords
  BY DEF IdleApart
<1>3. CASE h = NULL
  <2>1. /\ M.next = [L.next EXCEPT ![t] = t] /\ M.prev = [L.prev EXCEPT ![t] = t]
        /\ M.run_queue = [L.run_queue EXCEPT ![p] = t]
        /\ M \in LinkRecords
    BY SMTT(30), <1>1, <1>2, <1>3, EnqueuedAlone
  <2>2. /\ \A u \in AllTasks : M.next[u] = IF u = t THEN t ELSE L.next[u]
        /\ \A u \in AllTasks : M.prev[u] = IF u = t THEN t ELSE L.prev[u]
        /\ \A q \in Priorities : M.run_queue[q] = IF q = p THEN t ELSE L.run_queue[q]
    <3> HIDE DEF M
    <3> QED BY <1>1, <1>2, <2>1 DEF LinkRecords
  <2> HIDE DEF M
  <2> QED BY <2>1, <2>2, Domains DEF IdleApart, Belongs
<1>4. CASE h # NULL /\ tail = NULL
  <2>1. M = [L EXCEPT !.fault = TRUE, !.bitmap = @ \cup {p}]
    BY <1>2, <1>4 DEF Q!RqEnqueue, Q!LinkAtTail, LinkRecords
  <2>2. /\ M \in LinkRecords
        /\ M.next = L.next /\ M.prev = L.prev /\ M.run_queue = L.run_queue
    BY <1>1, <1>2, <2>1 DEF LinkRecords
  <2> HIDE DEF M
  <2> QED BY <2>2 DEF IdleApart
<1>5. CASE h # NULL /\ tail # NULL
  <2>1. h \in AllTasks /\ Belongs(h, p, S) /\ tail \in AllTasks /\ Belongs(tail, p, S)
    BY <1>5, Domains DEF IdleApart, Belongs
  <2>3. /\ M \in LinkRecords /\ M.run_queue = L.run_queue
        /\ \A u \in AllTasks : M.next[u] \in {L.next[u], h, t}
        /\ \A u \in AllTasks : M.prev[u] \in {L.prev[u], tail, t}
        /\ \A u \in AllTasks : u \notin {t, tail} => M.next[u] = L.next[u]
        /\ \A u \in AllTasks : u \notin {t, h} => M.prev[u] = L.prev[u]
    <3>1. tail \in Pointers /\ h \in Pointers
      BY <2>1, Domains
    <3>2. /\ M \in LinkRecords /\ M.run_queue = L.run_queue
          /\ M.next = [L.next EXCEPT ![tail] = t, ![t] = h]
          /\ M.prev = [L.prev EXCEPT ![t] = tail, ![h] = t]
      BY <1>1, <1>2, <1>5, <2>1, EnqueuedLast
    <3>3. L.next \in [AllTasks -> Pointers] /\ L.prev \in [AllTasks -> Pointers]
      BY <1>2 DEF LinkRecords
    <3> HIDE DEF M, h, tail
    <3> QED BY <1>1, <2>1, <3>2, <3>3
  <2>4. CASE t = Idle
    <3>1. h = Idle /\ tail = Idle
      BY <2>1, <2>4, Domains DEF Belongs
    <3> HIDE DEF M, h, tail
    <3> QED BY <2>3, <2>4, <3>1, Domains DEF IdleApart
  <2>5. CASE t # Idle
    <3>1. t \in S /\ h \in S /\ tail \in S /\ h # Idle /\ tail # Idle
      BY <2>1, <2>5, Domains DEF Belongs
    <3> HIDE DEF M, h, tail
    <3> QED BY <2>3, <2>5, <3>1, Domains DEF IdleApart
  <2> QED BY <2>4, <2>5
<1> QED BY <1>3, <1>4, <1>5

\* rq_remove keeps the idle task apart.
LEMMA RemoveApart ==
  ASSUME NEW S \in SUBSET Tasks, NEW L, IdleApart(L, S), NEW t, NEW p, Belongs(t, p, S)
  PROVE  IdleApart(Q!RqRemove(L, t, p), S)
<1> DEFINE M == Q!RqRemove(L, t, p)
           nx == L.next[t]
           pv == L.prev[t]
<1> SUFFICES IdleApart(M, S)
  OBVIOUS
<1>1. p \in Priorities /\ t \in AllTasks /\ t # NULL /\ NULL \in Pointers
  BY Domains DEF Belongs
<1>2. L \in LinkRecords
  BY DEF IdleApart
<1>3. CASE nx = t
  <2>1. /\ M.next = [L.next EXCEPT ![t] = NULL] /\ M.prev = [L.prev EXCEPT ![t] = NULL]
        /\ M.run_queue = [L.run_queue EXCEPT ![p] = NULL]
        /\ M \in LinkRecords
    BY <1>1, <1>2, <1>3, RemovedAlone
  <2>2. /\ \A u \in AllTasks : M.next[u] \in {L.next[u], NULL}
        /\ \A u \in AllTasks : M.prev[u] \in {L.prev[u], NULL}
        /\ \A q \in Priorities : M.run_queue[q] \in {L.run_queue[q], NULL}
    <3> HIDE DEF M
    <3> QED BY <1>1, <1>2, <2>1 DEF LinkRecords
  <2> HIDE DEF M
  <2> QED BY <2>1, <2>2, Domains DEF IdleApart
<1>4. CASE nx # t /\ (nx = NULL \/ pv = NULL)
  <2>1. M = [L EXCEPT !.fault = TRUE]
    BY <1>4 DEF Q!RqRemove
  <2>2. /\ M \in LinkRecords
        /\ M.next = L.next /\ M.prev = L.prev /\ M.run_queue = L.run_queue
    BY <1>1, <1>2, <2>1 DEF LinkRecords
  <2> HIDE DEF M
  <2> QED BY <2>2 DEF IdleApart
<1>5. CASE nx # t /\ nx # NULL /\ pv # NULL
  <2>1. t # Idle
    BY <1>5 DEF IdleApart
  <2>2. t \in S /\ nx \in S /\ pv \in S /\ p \in 1 .. MaxPriority
    BY <1>5, <2>1 DEF IdleApart, Belongs
  <2>4. nx \in AllTasks /\ pv \in AllTasks /\ nx \in Pointers /\ pv \in Pointers
    BY <2>2, Domains
  <2>5. /\ M \in LinkRecords
        /\ M.next = [L.next EXCEPT ![pv] = nx, ![t] = NULL]
        /\ M.prev = [L.prev EXCEPT ![nx] = pv, ![t] = NULL]
        /\ M.run_queue = [L.run_queue EXCEPT ![p] = IF @ = t THEN nx ELSE @]
    BY <1>1, <1>2, <1>5, <2>4, RemovedLinked
  <2>6. /\ L.next \in [AllTasks -> Pointers] /\ L.prev \in [AllTasks -> Pointers]
        /\ L.run_queue \in [Priorities -> Pointers]
    BY <1>2 DEF LinkRecords
  <2> HIDE DEF M, nx, pv
  <2>7. /\ \A u \in Tasks : M.next[u] \in {L.next[u], nx, NULL}
        /\ \A u \in Tasks : M.prev[u] \in {L.prev[u], pv, NULL}
        /\ M.next[Idle] = L.next[Idle] /\ M.prev[Idle] = L.prev[Idle]
        /\ \A q \in Priorities : M.run_queue[q] \in {L.run_queue[q], nx}
        /\ M.run_queue[0] = L.run_queue[0]
    BY <2>2, <2>4, <2>5, <2>6, Domains
  <2> QED BY <2>2, <2>5, <2>7, Domains DEF IdleApart
<1> QED BY <1>3, <1>4, <1>5

\* More started tasks.
LEMMA MoreStarted ==
  ASSUME NEW S, NEW T \in SUBSET Tasks, S \subseteq T, NEW L, IdleApart(L, S)
  PROVE  IdleApart(L, T)
BY DEF IdleApart

\* sched_yield_from_isr keeps the types.
LEMMA YieldTypes ==
  ASSUME Types, SchedYield(links, state)
  PROVE  /\ IdleApart(links', Started(state)) /\ Started(state') = Started(state)
         /\ state' \in [AllTasks -> {"NEW", "READY", "RUNNING", "BLOCKED"}]
         /\ current_task' \in Started(state) \cup {Idle}
         /\ slice_ticks' \in 0 .. TIME_SLICE_TICKS
<1> DEFINE old == current_task
           queued == state[old] = "RUNNING"
           st2 == IF queued THEN [state EXCEPT ![old] = "READY"] ELSE state
           L2 == IF queued THEN Q!RqEnqueue(links, old, priority[old]) ELSE links
           S == Started(state)
<1>1. PICK hp \in Priorities :
        IF L2.fault \/ L2.run_queue[hp] = NULL
        THEN /\ links' = [L2 EXCEPT !.fault = TRUE]
             /\ state' = st2
             /\ UNCHANGED <<current_task, slice_ticks>>
        ELSE /\ links' = Q!RqRemove(L2, L2.run_queue[hp], priority[L2.run_queue[hp]])
             /\ state' = [st2 EXCEPT ![L2.run_queue[hp]] = "RUNNING"]
             /\ current_task' = L2.run_queue[hp]
             /\ slice_ticks' = TIME_SLICE_TICKS
  BY DEF SchedYield
<1>2. S \in SUBSET Tasks /\ \A t \in S \cup {Idle} : t \in AllTasks /\ Belongs(t, priority[t], S)
  BY Domains DEF Started, Types, Belongs
<1>3. old \in S \cup {Idle} /\ IdleApart(links, S)
  BY DEF Types
<1>4. IdleApart(L2, S)
  <2>1. IdleApart(Q!RqEnqueue(links, old, priority[old]), S)
    BY <1>2, <1>3, EnqueueApart
  <2> QED BY <1>3, <2>1
<1>5. state \in [AllTasks -> {"NEW", "READY", "RUNNING", "BLOCKED"}]
  BY DEF Types, TypeOK
<1>6. /\ st2 \in [AllTasks -> {"NEW", "READY", "RUNNING", "BLOCKED"}]
      /\ Started(st2) = S
  BY <1>2, <1>3, <1>5, Domains DEF Started
<1>7. slice_ticks \in 0 .. TIME_SLICE_TICKS /\ TIME_SLICE_TICKS \in 0 .. TIME_SLICE_TICKS
  BY KMutexAssumption DEF Types, TypeOK
<1> HIDE DEF S, L2, st2
<1>8. CASE L2.fault \/ L2.run_queue[hp] = NULL
  <2>1. IdleApart([L2 EXCEPT !.fault = TRUE], S)
    BY <1>4 DEF IdleApart, LinkRecords
  <2> QED BY <1>1, <1>3, <1>6, <1>7, <1>8, <2>1 DEF S
<1>9. CASE ~ (L2.fault \/ L2.run_queue[hp] = NULL)
  <2> DEFINE new == L2.run_queue[hp]
  <2>1. new \in S \cup {Idle}
    BY <1>4, <1>9, Domains DEF IdleApart
  <2>2. IdleApart(Q!RqRemove(L2, new, priority[new]), S)
    BY <1>2, <1>4, <2>1, RemoveApart
  <2>3. /\ [st2 EXCEPT ![new] = "RUNNING"] \in [AllTasks -> {"NEW", "READY", "RUNNING", "BLOCKED"}]
        /\ Started([st2 EXCEPT ![new] = "RUNNING"]) = S
    <3> HIDE DEF new
    <3> QED BY <1>2, <1>6, <2>1, Domains DEF Started
  <2> QED BY <1>1, <1>7, <1>9, <2>1, <2>2, <2>3 DEF S
<1> QED BY <1>8, <1>9 DEF S

\* The initial state has the types.
LEMMA TypesInit == Init => Types
<1> SUFFICES ASSUME Init PROVE Types
  OBVIOUS
<1> DEFINE E == Q!EmptyLinks
<1>1. /\ E \in LinkRecords /\ E.run_queue = [p \in Priorities |-> NULL]
      /\ E.next = [t \in AllTasks |-> NULL] /\ E.prev = [t \in AllTasks |-> NULL]
  BY Domains DEF Q!EmptyLinks, LinkRecords
<1>2. IdleApart(E, {})
  <2> HIDE DEF E
  <2> QED BY <1>1, Domains DEF IdleApart
<1>3. IdleApart(links, {})
  BY <1>2, EnqueueApart DEF Init, Belongs
<1>4. Started(state) = {}
  BY Domains DEF Init, Started
<1>5. TypeOK
  <2>1. links \in LinkRecords
    BY <1>3 DEF IdleApart
  <2>2. /\ state \in [AllTasks -> {"NEW", "READY", "RUNNING", "BLOCKED"}]
        /\ priority \in [AllTasks -> Priorities] /\ base_priority \in [AllTasks -> Priorities]
    BY Domains DEF Init
  <2>3. /\ slice_ticks \in 0 .. TIME_SLICE_TICKS /\ 0 \in 0 .. K_FOREVER
        /\ current_task \in AllTasks
    BY Domains, KMutexAssumption DEF Init
  <2>4. /\ pc \in [Tasks -> Locations] /\ tms \in [Tasks -> 0 .. K_FOREVER]
        /\ left \in [Tasks -> 0 .. K_FOREVER]
    BY <2>3 DEF Init, K_NO_WAIT, Locations
  <2>6. seen \in [Tasks -> Tasks \cup {NULL}]
    BY DEF Init
  <2>5. /\ about_to_yield \subseteq Tasks /\ isr \in {"none", "wake"}
        /\ rearm_pending \subseteq AllTasks
        /\ locked \in {0, 1} /\ owner \in Tasks \cup {NULL}
        /\ wait_head \in Tasks \cup {NULL} /\ raised \in BOOLEAN
    BY DEF Init
  <2> QED BY <2>1, <2>2, <2>3, <2>4, <2>5, <2>6 DEF TypeOK, LinkRecords
<1>6. /\ {wait_head, owner} \subseteq {NULL} /\ current_task = Idle /\ priority[Idle] = 0
  BY Domains DEF Init
<1> QED BY <1>3, <1>4, <1>5, <1>6 DEF Types

\* A step that changes neither the links nor what they hold.
LEMMA TypesSame ==
  ASSUME Types, TypeOK', UNCHANGED <<links, state, priority, base_priority, current_task>>,
         {wait_head', owner'} \subseteq Started(state) \cup {NULL}
  PROVE  Types'
BY DEF Types

\* Each action keeps the types.
LEMMA TypesStep == Types /\ [Next]_vars => Types'
<1> SUFFICES ASSUME Types, [Next]_vars PROVE Types'
  OBVIOUS
<1> USE DEF schedVars, mutexVars, callVars
<1>0. /\ TypeOK /\ me \in AllTasks
      /\ {wait_head, owner} \subseteq Started(state) \cup {NULL}
      /\ Started(state) \in SUBSET Tasks
  BY DEF Types, TypeOK, me, Started
<1>1. CASE UNCHANGED vars
  <2>1. UNCHANGED <<links, state, priority, base_priority, current_task, slice_ticks,
            about_to_yield, isr, rearm_pending, locked, owner, wait_head, raised, pc, seen, tms, left>>
    BY <1>1 DEF vars
  <2>2. TypeOK'
    BY <1>0, <2>1 DEF TypeOK
  <2> QED BY <1>0, <2>1, <2>2, TypesSame
<1>2. ASSUME NEW t \in Tasks, NEW p \in BasePriorities, TaskCreate(t, p) PROVE Types'
  <2>1. /\ state' = [state EXCEPT ![t] = "READY"] /\ state[t] = "NEW"
        /\ priority' = [priority EXCEPT ![t] = p]
        /\ base_priority' = [base_priority EXCEPT ![t] = p]
        /\ links' = Q!RqEnqueue(links, t, p)
        /\ UNCHANGED <<current_task, slice_ticks, about_to_yield, isr, rearm_pending,
                       locked, owner, wait_head, raised, pc, seen, tms, left>>
    BY <1>2 DEF TaskCreate
  <2>2. p \in 1 .. MaxPriority /\ p \in Priorities /\ t \in AllTasks /\ t # Idle
    BY KMutexAssumption, Domains
  <2>3. Started(state') = Started(state) \cup {t}
    BY <1>0, <2>1, <2>2, Domains DEF Started, TypeOK
  <2>4. IdleApart(links', Started(state'))
    <3>1. IdleApart(links, Started(state'))
      BY <1>0, <2>3, MoreStarted DEF Types
    <3>2. Started(state') \in SUBSET Tasks /\ Belongs(t, p, Started(state'))
      BY <1>0, <2>2, <2>3 DEF Belongs
    <3> QED BY <2>1, <3>1, <3>2, EnqueueApart
  <2>5. TypeOK'
    <3>1. links' \in LinkRecords
      BY <2>4 DEF IdleApart
    <3> QED BY <1>0, <2>1, <2>2, <3>1 DEF TypeOK, LinkRecords
  <2>6. /\ priority'[Idle] = priority[Idle] /\ priority'[t] = p /\ base_priority'[t] = p
        /\ \A u \in Tasks : u # t => /\ priority'[u] = priority[u]
                                     /\ base_priority'[u] = base_priority[u]
    BY <1>0, <2>1, <2>2, Domains DEF TypeOK
  <2>7. \A u \in Started(state') :
          {priority'[u], base_priority'[u]} \subseteq 1 .. MaxPriority
    <3>1. t \in Tasks /\ \A u \in Started(state) : u \in Tasks
      BY <1>0
    <3> QED BY <2>2, <2>3, <2>6, <3>1 DEF Types
  <2>8. /\ {wait_head', owner'} \subseteq Started(state') \cup {NULL}
        /\ current_task' \in Started(state') \cup {Idle}
    BY <2>1, <2>3 DEF Types
  <2> QED BY <2>4, <2>5, <2>6, <2>7, <2>8 DEF Types
<1>3. ASSUME SchedYield(links, state), TypeOK => TypeOK',
             UNCHANGED <<priority, base_priority, wait_head, owner>>
      PROVE  Types'
  BY <1>0, <1>3, YieldTypes DEF Types
<1>4. ASSUME SchedYield(links, state),
             UNCHANGED <<priority, base_priority, locked, owner, wait_head, raised, seen, tms,
                         left>>,
             about_to_yield' \subseteq Tasks, isr' \in {"none", "wake"},
             rearm_pending' \subseteq AllTasks, pc' \in [Tasks -> Locations]
      PROVE  Types'
  <2>1. /\ IdleApart(links', Started(state))
        /\ state' \in [AllTasks -> {"NEW", "READY", "RUNNING", "BLOCKED"}]
        /\ current_task' \in Started(state) \cup {Idle}
        /\ slice_ticks' \in 0 .. TIME_SLICE_TICKS
    BY <1>4, YieldTypes
  <2>2. links' \in LinkRecords /\ current_task' \in AllTasks
    BY <1>0, <2>1, Domains DEF IdleApart
  <2>3. TypeOK'
    BY <1>0, <1>4, <2>1, <2>2 DEF TypeOK, LinkRecords
  <2> QED BY <1>3, <1>4, <2>3
<1>5. CASE TaskYield
  <2>1. pc' \in [Tasks -> Locations]
    BY <1>0, <1>5, Domains DEF TaskYield, AppCode, TypeOK, Locations
  <2> QED BY <1>0, <1>4, <1>5, <2>1 DEF TaskYield, TypeOK
<1>6. CASE YieldAfter
  BY <1>0, <1>4, <1>6 DEF YieldAfter, TypeOK
<1>7. CASE TickPreempt
  <2>1. rearm_pending' \subseteq AllTasks
    BY <1>0, <1>7 DEF TickPreempt, TypeOK
  <2> QED BY <1>0, <1>4, <1>7, <2>1 DEF TickPreempt, TypeOK
<1>8. CASE TickEnter
  <2>1. left' \in [Tasks -> 0 .. K_FOREVER]
    <3>1. \A n \in 0 .. K_FOREVER : Remaining(n) \in 0 .. K_FOREVER
      BY KMutexAssumption DEF Remaining
    <3>2. left \in [Tasks -> 0 .. K_FOREVER] /\ left' = [t \in Tasks |-> Remaining(left[t])]
      BY <1>0, <1>8 DEF TypeOK, TickEnter
    <3> QED BY <3>1, <3>2
  <2>2. /\ isr' = "wake"
        /\ UNCHANGED <<links, state, priority, base_priority, current_task, slice_ticks,
                       about_to_yield, rearm_pending, locked, owner, wait_head, raised,
                       pc, seen, tms>>
    BY <1>8 DEF TickEnter
  <2>3. TypeOK'
    BY <1>0, <2>1, <2>2 DEF TypeOK
  <2> QED BY <1>0, <2>2, <2>3, TypesSame
<1>9. CASE TickReturn \/ TickResume
  <2>1. SliceLeft \in 0 .. TIME_SLICE_TICKS
    BY <1>0, KMutexAssumption DEF SliceLeft, TypeOK
  <2>2. /\ slice_ticks' \in 0 .. TIME_SLICE_TICKS /\ isr' \in {"none", "wake"}
        /\ rearm_pending' \subseteq AllTasks
        /\ UNCHANGED <<links, state, priority, base_priority, current_task,
                       about_to_yield, locked, owner, wait_head, raised, pc, seen, tms, left>>
    BY <1>0, <1>9, <2>1 DEF TickReturn, TickResume, TypeOK
  <2>3. TypeOK'
    BY <1>0, <2>2 DEF TypeOK
  <2> QED BY <1>0, <2>2, <2>3, TypesSame
<1>a. \A l \in Locations : GoTo(l) => pc' \in [Tasks -> Locations]
  <2>1. pc \in [Tasks -> Locations]
    BY <1>0 DEF TypeOK
  <2>2. \A l \in Locations : [pc EXCEPT ![me] = l] \in [Tasks -> Locations]
    BY <2>1
  <2> QED BY <2>2 DEF GoTo
<1>10. CASE \E ms \in LockTimeouts : LockCall(ms)
  <2>1. PICK ms \in LockTimeouts : LockCall(ms)
    BY <1>10
  <2>2. ms \in 0 .. K_FOREVER /\ 0 \in 0 .. K_FOREVER /\ "cas" \in Locations
    BY KMutexAssumption DEF Locations
  <2>3. /\ UNCHANGED <<links, state, priority, base_priority, current_task, slice_ticks,
               about_to_yield, isr, rearm_pending, locked, owner, wait_head, raised, seen>>
        /\ pc' \in [Tasks -> Locations] /\ tms' \in [Tasks -> 0 .. K_FOREVER]
        /\ left' \in [Tasks -> 0 .. K_FOREVER]
    BY <1>0, <1>a, <2>1, <2>2 DEF LockCall, TypeOK
  <2>4. TypeOK'
    BY <1>0, <2>3 DEF TypeOK
  <2> QED BY <1>0, <2>3, <2>4, TypesSame
<1>11. CASE Cas \/ Own
  <2>1. /\ UNCHANGED <<links, state, priority, base_priority, current_task, slice_ticks,
               about_to_yield, isr, rearm_pending, wait_head, raised, seen>>
        /\ locked' \in {0, 1} /\ owner' \in {owner, me} /\ me \in Tasks
    BY <1>0, <1>11 DEF Cas, Own, TypeOK, Executes, AppCode, me
  <2>2. pc' \in [Tasks -> Locations]
    <3>1. {"own", "boost", "inside"} \subseteq Locations
      BY DEF Locations
    <3> QED BY <1>11, <1>a, <3>1 DEF Cas, Own
  <2>3. tms' \in [Tasks -> 0 .. K_FOREVER] /\ left' \in [Tasks -> 0 .. K_FOREVER]
    <3>1. 0 \in 0 .. K_FOREVER
      BY KMutexAssumption
    <3> QED BY <1>0, <1>11, <3>1 DEF Cas, Own, TypeOK, K_NO_WAIT
  <2>4. me \in Started(state)
    BY <2>1, Domains DEF Types, me
  <2>5. TypeOK'
    BY <1>0, <2>1, <2>2, <2>3 DEF TypeOK
  <2> QED BY <1>0, <2>1, <2>4, <2>5, TypesSame
<1>12. CASE BoostTest \/ GiveUp \/ GoOn
  <2>1. UNCHANGED <<links, state, priority, base_priority, current_task, slice_ticks,
               about_to_yield, isr, rearm_pending, locked, owner, wait_head, raised, left>>
    BY <1>12 DEF BoostTest, GiveUp, GoOn
  <2>2. pc' \in [Tasks -> Locations]
    <3>1. {"compare", "check", "outside", "block"} \subseteq Locations
      BY DEF Locations
    <3> QED BY <1>12, <1>a, <3>1 DEF BoostTest, GiveUp, GoOn
  <2>3. tms' \in [Tasks -> 0 .. K_FOREVER]
    <3>1. 0 \in 0 .. K_FOREVER
      BY KMutexAssumption
    <3> QED BY <1>0, <1>12, <3>1 DEF BoostTest, GiveUp, GoOn, TypeOK, K_NO_WAIT
  <2>4. seen' \in [Tasks -> Tasks \cup {NULL}]
    BY <1>0, <1>12 DEF BoostTest, GiveUp, GoOn, TypeOK
  <2>5. TypeOK'
    BY <1>0, <2>1, <2>2, <2>3, <2>4 DEF TypeOK
  <2> QED BY <1>0, <2>1, <2>5, TypesSame
<1>b. ASSUME NEW o \in Reread, Executes("compare") \/ Executes("raise")
      PROVE  me \in Tasks /\ o \in Tasks \cup {NULL}
  <2>1. me \in Tasks
    BY <1>b DEF Executes, AppCode, me
  <2> QED BY <1>0, <1>b, <2>1 DEF Reread, TypeOK
<1>16. CASE Compare
  <2>1. UNCHANGED <<state, priority, base_priority, current_task, slice_ticks, about_to_yield,
               isr, rearm_pending, locked, owner, wait_head, raised, tms, left>>
    BY <1>16 DEF Compare
  <2>2. PICK o \in Reread :
          IF o = NULL
          THEN /\ GoTo("crashed")
               /\ links' = [links EXCEPT !.fault = TRUE]
               /\ UNCHANGED seen
          ELSE /\ GoTo(IF IsLower(o) THEN "raise" ELSE "check")
               /\ seen' = [seen EXCEPT ![me] = IF IsLower(o) THEN o ELSE NULL]
               /\ UNCHANGED links
    BY <1>16 DEF Compare
  <2>3. o \in Tasks \cup {NULL}
    BY <1>16, <1>b DEF Compare
  <2>4. pc' \in [Tasks -> Locations]
    <3>1. {"crashed", "raise", "check"} \subseteq Locations
      BY DEF Locations
    <3> QED BY <1>a, <2>2, <3>1
  <2>5. seen' \in [Tasks -> Tasks \cup {NULL}]
    BY <1>0, <2>2, <2>3 DEF TypeOK
  <2>6. CASE o = NULL
    <3>1. links' = [links EXCEPT !.fault = TRUE]
      BY <2>2, <2>6
    <3>2. IdleApart(links', Started(state))
      BY <3>1 DEF Types, IdleApart, LinkRecords
    <3>3. TypeOK'
      <4>1. links' \in LinkRecords
        BY <3>2 DEF IdleApart
      <4> QED BY <1>0, <2>1, <2>4, <2>5, <4>1 DEF TypeOK, LinkRecords
    <3> QED BY <2>1, <3>2, <3>3 DEF Types
  <2>7. CASE o # NULL
    <3>1. UNCHANGED links
      BY <2>2, <2>7
    <3>2. TypeOK'
      BY <1>0, <2>1, <2>4, <2>5, <3>1 DEF TypeOK
    <3> QED BY <1>0, <2>1, <3>1, <3>2, TypesSame
  <2> QED BY <2>6, <2>7
<1>13. CASE Raise
  <2>1. /\ UNCHANGED <<state, base_priority, current_task, slice_ticks, about_to_yield,
               isr, rearm_pending, locked, owner, wait_head, tms, left>>
        /\ raised' = TRUE /\ pc' \in [Tasks -> Locations]
        /\ me \in Tasks /\ me \in Started(state)
        /\ seen' \in [Tasks -> Tasks \cup {NULL}]
    <3>1. "check" \in Locations
      BY DEF Locations
    <3>2. me \in Tasks
      BY <1>13 DEF Raise, Executes, AppCode, me
    <3>3. seen' \in [Tasks -> Tasks \cup {NULL}]
      BY <1>0, <1>13 DEF Raise, TypeOK
    <3> QED BY <1>13, <1>a, <3>1, <3>2, <3>3, Domains DEF Raise, Types, me
  <2>a. PICK o \in Reread :
          IF o = NULL
          THEN links' = [links EXCEPT !.fault = TRUE] /\ UNCHANGED priority
          ELSE priority' = [priority EXCEPT ![o] = priority[me]] /\ UNCHANGED links
    BY <1>13 DEF Raise, Inherited
  <2>b. o \in Tasks \cup {NULL}
    BY <1>13, <1>b DEF Raise
  <2>2. CASE o = NULL
    <3>1. links' = [links EXCEPT !.fault = TRUE] /\ UNCHANGED priority
      BY <2>a, <2>2
    <3>2. IdleApart(links', Started(state))
      BY <3>1 DEF Types, IdleApart, LinkRecords
    <3>3. TypeOK'
      <4>1. links' \in LinkRecords
        BY <3>2 DEF IdleApart
      <4> QED BY <1>0, <2>1, <3>1, <4>1 DEF TypeOK, LinkRecords
    <3> QED BY <2>1, <3>1, <3>2, <3>3 DEF Types
  <2>3. CASE o # NULL
    <3>1. priority' = [priority EXCEPT ![o] = priority[me]] /\ UNCHANGED links
      BY <2>a, <2>3
    <3>2. /\ o \in Tasks /\ o \in AllTasks /\ o # Idle
          /\ priority[me] \in 1 .. MaxPriority /\ priority[me] \in Priorities
      BY <1>0, <2>b, <2>1, <2>3, Domains DEF Types
    <3>3. TypeOK'
      BY <1>0, <2>1, <3>1, <3>2 DEF TypeOK
    <3>4. /\ priority'[Idle] = priority[Idle]
          /\ \A u \in Tasks : priority'[u] = IF u = o THEN priority[me] ELSE priority[u]
      BY <1>0, <3>1, <3>2, Domains DEF TypeOK
    <3> QED BY <1>0, <2>1, <3>1, <3>2, <3>3, <3>4 DEF Types
  <2> QED BY <2>2, <2>3
<1>14. CASE Block
  <2>1. /\ UNCHANGED <<priority, base_priority, current_task, slice_ticks, isr,
                       rearm_pending, locked, owner, raised, seen, tms, left>>
        /\ about_to_yield' = about_to_yield \cup {me}
        /\ state' = [state EXCEPT ![me] = "BLOCKED"]
        /\ me \in Tasks /\ me \in Started(state) /\ pc' \in [Tasks -> Locations]
    <3>1. "waiting" \in Locations
      BY DEF Locations
    <3>2. me \in Tasks
      BY <1>14 DEF Block, Executes, AppCode, me
    <3> QED BY <1>14, <1>a, <3>1, <3>2, Domains DEF Block, Types, me
  <2>2. Waiters \in Seq(Started(state))
    <3>1. \A t \in Started(state) : links.next[t] \in Started(state) \cup {NULL}
      BY <1>0 DEF Types, IdleApart
    <3> QED BY <1>0, <3>1, WalkStays DEF Waiters
  <2>3. PICK n \in 0 .. Len(Waiters) : InsertWaiter(n)
    BY <1>14 DEF Block
  <2> DEFINE following == IF n < Len(Waiters) THEN Waiters[n + 1] ELSE NULL
  <2>4. /\ following \in Started(state) \cup {NULL}
        /\ n # 0 => Waiters[n] \in Started(state)
    <3>1. n < Len(Waiters) => n + 1 \in 1 .. Len(Waiters)
      BY <2>2
    <3>2. n # 0 => n \in 1 .. Len(Waiters)
      BY <2>2
    <3> QED BY <2>2, <3>1, <3>2, ElementOfSeq
  <2>5. /\ wait_head' \in {wait_head, me}
        /\ \E f : /\ links' = [links EXCEPT !.next = f]
                  /\ f \in [AllTasks -> Pointers]
                  /\ f[Idle] = links.next[Idle]
                  /\ \A u \in Tasks : f[u] \in Started(state) \cup {NULL}
    <3> DEFINE f == IF n = 0 THEN [links.next EXCEPT ![me] = following]
                    ELSE [links.next EXCEPT ![me] = following, ![Waiters[n]] = me]
    <3>1. /\ wait_head' = IF n = 0 THEN me ELSE wait_head
          /\ links' = [links EXCEPT !.next = f]
      BY <2>3 DEF InsertWaiter
    <3>2. links.next \in [AllTasks -> Pointers]
      BY <1>0 DEF TypeOK
    <3>3. /\ links.next[Idle] \in {Idle, NULL}
          /\ \A u \in Tasks : links.next[u] \in Started(state) \cup {NULL}
      BY DEF Types, IdleApart
    <3> HIDE DEF following
    <3>4. following \in Pointers /\ me \in Pointers /\ me # Idle
      BY <1>0, <2>1, <2>4, Domains
    <3>5. /\ f \in [AllTasks -> Pointers]
          /\ f[Idle] = links.next[Idle]
          /\ \A u \in Tasks : f[u] \in Started(state) \cup {NULL}
      <4>1. CASE n = 0
        <5>1. f = [links.next EXCEPT ![me] = following]
          BY <4>1
        <5> HIDE DEF f
        <5> QED BY <1>0, <2>4, <3>2, <3>3, <3>4, <5>1, Domains
      <4>2. CASE n # 0
        <5>1. f = [links.next EXCEPT ![me] = following, ![Waiters[n]] = me]
          BY <4>2
        <5>2. Waiters[n] \in Tasks /\ Waiters[n] # Idle /\ Waiters[n] \in AllTasks
          BY <1>0, <2>4, <4>2, Domains
        <5> HIDE DEF f
        <5> QED BY <1>0, <2>1, <2>4, <3>2, <3>3, <3>4, <5>1, <5>2, Domains
      <4> QED BY <4>1, <4>2
    <3> HIDE DEF f
    <3> QED BY <3>1, <3>5
  <2>6. Started(state') = Started(state)
    BY <1>0, <2>1, Domains DEF Started, TypeOK
  <2>7. IdleApart(links', Started(state))
    <3>1. PICK f : /\ links' = [links EXCEPT !.next = f]
                   /\ f \in [AllTasks -> Pointers]
                   /\ f[Idle] = links.next[Idle]
                   /\ \A u \in Tasks : f[u] \in Started(state) \cup {NULL}
      BY <2>5
    <3>2. links \in LinkRecords
      BY DEF Types, IdleApart
    <3>3. /\ links' \in LinkRecords /\ links'.next = f /\ links'.prev = links.prev
          /\ links'.run_queue = links.run_queue
      BY <3>1, <3>2 DEF LinkRecords
    <3> QED BY <3>1, <3>3 DEF Types, IdleApart
  <2>8. TypeOK'
    <3>1. links' \in LinkRecords
      BY <2>7 DEF IdleApart
    <3> QED BY <1>0, <2>1, <2>5, <3>1 DEF TypeOK, LinkRecords
  <2> QED BY <1>0, <2>1, <2>5, <2>6, <2>7, <2>8 DEF Types
<1>15. CASE Unlock
  <2>1. /\ UNCHANGED <<base_priority, current_task, slice_ticks, isr, rearm_pending,
                       raised, seen, tms, left>>
        /\ priority' = PrioritiesRestored /\ owner' = NULL /\ locked' = 0
        /\ owner = me /\ me \in Tasks /\ me \in Started(state)
    <3>1. me \in Tasks
      BY <1>15 DEF Unlock, AppCode, me
    <3> QED BY <1>15, <3>1, Domains DEF Unlock, IsOwner, Types, me
  <2>2. /\ priority' \in [AllTasks -> Priorities] /\ priority'[Idle] = 0
        /\ \A t \in Started(state) : priority'[t] \in 1 .. MaxPriority
    <3>1. \A t \in AllTasks : priority'[t] = IF t = me THEN base_priority[t] ELSE priority[t]
      BY <2>1 DEF PrioritiesRestored
    <3>2. priority' = [t \in AllTasks |-> IF t = me THEN base_priority[t] ELSE priority[t]]
      BY <2>1 DEF PrioritiesRestored
    <3>3. me # Idle
      BY <2>1, Domains
    <3> QED BY <1>0, <3>1, <3>2, <3>3, Domains DEF Types, TypeOK
  <2>3. CASE wait_head = NULL
    <3>1. /\ UNCHANGED <<links, state, about_to_yield, wait_head>>
          /\ pc' \in [Tasks -> Locations]
      <4>1. "unlocked" \in Locations
        BY DEF Locations
      <4> QED BY <1>15, <1>a, <2>3, <4>1 DEF Unlock
    <3>2. TypeOK'
      BY <1>0, <2>1, <2>2, <3>1, Domains DEF TypeOK
    <3> QED BY <1>0, <2>1, <2>2, <3>1, <3>2 DEF Types
  <2>4. CASE wait_head # NULL
    <3>1. /\ wait_head' = Rest(wait_head)
          /\ state' = [state EXCEPT ![wait_head] = "READY"]
          /\ links' = Q!RqEnqueue(links, wait_head, priority[wait_head])
          /\ about_to_yield' = about_to_yield \cup {me}
          /\ pc' = [pc EXCEPT ![wait_head] = "cas", ![me] = "outside"]
      BY <1>15, <2>4 DEF Unlock
    <3>2. wait_head \in Started(state) /\ wait_head \in Tasks /\ wait_head # Idle
      BY <1>0, <2>4, Domains
    <3>3. Started(state') = Started(state)
      BY <1>0, <3>1, <3>2, Domains DEF Started, TypeOK
    <3>4. IdleApart(links', Started(state))
      <4>1. Belongs(wait_head, priority[wait_head], Started(state))
        BY <3>2 DEF Belongs, Types
      <4> QED BY <1>0, <3>1, <4>1, EnqueueApart DEF Types
    <3>5. wait_head' \in Started(state) \cup {NULL}
      BY <3>1, <3>2 DEF Rest, Types, IdleApart
    <3>6. pc' \in [Tasks -> Locations]
      BY <1>0, <3>1, <3>2 DEF TypeOK, Locations
    <3>7. TypeOK'
      <4>1. links' \in LinkRecords
        BY <3>4 DEF IdleApart
      <4>2. wait_head' \in Tasks \cup {NULL} /\ state' \in [AllTasks -> {"NEW", "READY", "RUNNING", "BLOCKED"}]
        BY <1>0, <3>1, <3>2, <3>5, Domains DEF TypeOK
      <4> QED BY <1>0, <2>1, <2>2, <3>1, <3>6, <4>1, <4>2, Domains DEF TypeOK, LinkRecords
    <3> QED BY <1>0, <2>1, <2>2, <3>3, <3>4, <3>5, <3>7 DEF Types
  <2> QED BY <2>3, <2>4
<1> QED
  BY <1>1, <1>2, <1>5, <1>6, <1>7, <1>8, <1>9, <1>10, <1>11, <1>12, <1>13, <1>14, <1>15, <1>16
  DEF Next

\* Every variable keeps its type, also after a priority was raised.
THEOREM MutexTypes == Spec => []TypeOK
<1>1. Types => TypeOK
  BY DEF Types
<1> QED BY TypesInit, TypesStep, <1>1, PTL DEF Spec

-----------------------------------------------------------------------------
(* The links as lists: what rq_enqueue, rq_remove and the wait list do to  *)
(* the fields, seen as sequences.                                          *)

\* The list s holds the task t.
Holds(s, t) == \E i \in 1 .. Len(s) : s[i] = t

\* The links of level p connect the tasks of q in a circle.
Ring(L, q, p) ==
  /\ q \in Seq(AllTasks) /\ Distinct(q)
  /\ L.run_queue[p] = HeadOf(q)
  /\ \A i \in 1 .. Len(q) : /\ L.next[q[i]] = IF i < Len(q) THEN q[i + 1] ELSE q[1]
                            /\ L.prev[q[i]] = IF i > 1 THEN q[i - 1] ELSE q[Len(q)]

\* The links from h connect the tasks of w, the last to nothing.
Chain(L, h, w) ==
  /\ w \in Seq(Tasks) /\ Distinct(w)
  /\ h = HeadOf(w)
  /\ \A i \in 1 .. Len(w) : L.next[w[i]] = IF i < Len(w) THEN w[i + 1] ELSE NULL

\* The links are the run queues rq and the wait list w, and no task is in two of them.
Represents(L, rq, h, w) ==
  /\ L \in LinkRecords /\ ~L.fault
  /\ rq \in [Priorities -> Seq(AllTasks)]
  /\ \A p \in Priorities : Ring(L, rq[p], p)
  /\ Chain(L, h, w)
  /\ L.bitmap = {p \in Priorities : rq[p] # <<>>}
  /\ \A t \in AllTasks : \A p \in Priorities : Holds(rq[p], t) =>
       /\ \A r \in Priorities : Holds(rq[r], t) => r = p
       /\ ~Holds(w, t)

\* The walks read the lists also from links M that differ only in what no walk looks at.
LEMMA WalksKept ==
  ASSUME NEW L, NEW rq, NEW h, NEW w, Represents(L, rq, h, w),
         NEW M, M.next = L.next, M.run_queue = L.run_queue
  PROVE  /\ Q!Walk(M, h) = w
         /\ \A p \in Priorities : Q!Walk(M, M.run_queue[p]) = rq[p]
<1>1. Q!Walk(M, h) = w
  <2>1. /\ w \in Seq(AllTasks) /\ Distinct(w) /\ h = HeadOf(w)
        /\ \A i \in 1 .. Len(w) : i < Len(w) => M.next[w[i]] = w[i + 1]
    BY Domains, SeqMonotonic DEF Represents, Chain
  <2>2. w # <<>> => M.next[w[Len(w)]] \in {NULL, w[1]}
    <3>1. w # <<>> => Len(w) \in 1 .. Len(w) /\ ~ (Len(w) < Len(w))
      BY <2>1
    <3> QED BY <3>1 DEF Represents, Chain
  <2> QED BY <2>1, <2>2, WalkIsList
<1>2. ASSUME NEW p \in Priorities PROVE Q!Walk(M, M.run_queue[p]) = rq[p]
  <2> DEFINE q == rq[p]
  <2>1. /\ q \in Seq(AllTasks) /\ Distinct(q) /\ M.run_queue[p] = HeadOf(q)
        /\ \A i \in 1 .. Len(q) : i < Len(q) => M.next[q[i]] = q[i + 1]
    BY DEF Represents, Ring
  <2>2. q # <<>> => M.next[q[Len(q)]] \in {NULL, q[1]}
    <3>1. q # <<>> => Len(q) \in 1 .. Len(q) /\ ~ (Len(q) < Len(q))
      BY <2>1
    <3> QED BY <3>1 DEF Represents, Ring
  <2> HIDE DEF q
  <2>3. Q!Walk(M, M.run_queue[p]) = q
    BY <2>1, <2>2, WalkIsList
  <2> QED BY <2>3 DEF q
<1> QED BY <1>1, <1>2

\* The walks read the lists.
LEMMA WalksRead ==
  ASSUME NEW L, NEW rq, NEW h, NEW w, Represents(L, rq, h, w)
  PROVE  /\ Q!Walk(L, h) = w
         /\ \A p \in Priorities : Q!Walk(L, L.run_queue[p]) = rq[p]
BY WalksKept

\* A list whose links did not change.
LEMMA RingKept ==
  ASSUME NEW L, NEW M, NEW q, NEW p, Ring(L, q, p),
         M.run_queue[p] = L.run_queue[p],
         \A u \in AllTasks : Holds(q, u) => M.next[u] = L.next[u] /\ M.prev[u] = L.prev[u]
  PROVE  Ring(M, q, p)
<1>1. \A i \in 1 .. Len(q) : q[i] \in AllTasks /\ Holds(q, q[i])
  BY DEF Ring, Holds
<1> QED BY <1>1 DEF Ring

\* A wait list whose links did not change.
LEMMA ChainKept ==
  ASSUME NEW L, NEW M, NEW h, NEW w, Chain(L, h, w),
         \A u \in AllTasks : Holds(w, u) => M.next[u] = L.next[u]
  PROVE  Chain(M, h, w)
<1>1. \A i \in 1 .. Len(w) : w[i] \in AllTasks /\ Holds(w, w[i])
  BY Domains DEF Chain, Holds
<1> QED BY <1>1 DEF Chain

\* Appending to a list without repetition.
LEMMA AppendIs ==
  ASSUME NEW S, NEW q \in Seq(S), NEW t \in S, Distinct(q), ~Holds(q, t)
  PROVE  /\ Append(q, t) \in Seq(S) /\ Len(Append(q, t)) = Len(q) + 1
         /\ \A i \in 1 .. Len(q) : Append(q, t)[i] = q[i]
         /\ Append(q, t)[Len(q) + 1] = t
         /\ Distinct(Append(q, t))
         /\ \A u : Holds(Append(q, t), u) <=> Holds(q, u) \/ u = t
         /\ Append(q, t) # <<>> /\ Append(q, t)[1] = IF q = <<>> THEN t ELSE q[1]
<1> DEFINE a == Append(q, t)
           n == Len(q)
<1>1. /\ a \in Seq(S) /\ Len(a) = n + 1 /\ n \in Nat
      /\ \A i \in 1 .. n : a[i] = q[i]
      /\ a[n + 1] = t
  BY AppendProperties, LenProperties
<1> HIDE DEF a
<1>2. ASSUME NEW i \in 1 .. Len(a), NEW j \in 1 .. Len(a), a[i] = a[j] PROVE i = j
  <2>1. \A k \in 1 .. n : a[k] # a[n + 1]
    BY <1>1 DEF Holds
  <2>2. i \in 1 .. n \/ i = n + 1
    BY <1>1
  <2>3. j \in 1 .. n \/ j = n + 1
    BY <1>1
  <2>4. CASE i \in 1 .. n /\ j \in 1 .. n
    BY <1>1, <1>2, <2>4 DEF Distinct
  <2> QED BY <1>2, <2>1, <2>2, <2>3, <2>4
<1>3. \A u : Holds(a, u) <=> Holds(q, u) \/ u = t
  <2>1. \A i \in 1 .. n : i \in 1 .. n + 1
    BY <1>1
  <2>2. n + 1 \in 1 .. n + 1 /\ \A i \in 1 .. n + 1 : i \in 1 .. n \/ i = n + 1
    BY <1>1
  <2> QED BY <1>1, <2>1, <2>2 DEF Holds
<1>4. a # <<>> /\ a[1] = IF q = <<>> THEN t ELSE q[1]
  <2>1. q = <<>> => n = 0
    OBVIOUS
  <2>2. q # <<>> => 1 \in 1 .. n
    BY EmptySeq
  <2>3. a # <<>>
    BY <1>1
  <2> QED BY <1>1, <2>1, <2>2, <2>3
<1> QED BY <1>1, <1>2, <1>3, <1>4 DEF a, Distinct

\* A list without its first element.
LEMMA TailIs ==
  ASSUME NEW S, NEW q \in Seq(S), Distinct(q), q # <<>>
  PROVE  /\ Tail(q) \in Seq(S) /\ Len(Tail(q)) = Len(q) - 1 /\ Len(q) \in Nat \ {0}
         /\ \A i \in 1 .. Len(q) - 1 : Tail(q)[i] = q[i + 1]
         /\ Distinct(Tail(q))
         /\ \A u : Holds(Tail(q), u) <=> Holds(q, u) /\ u # q[1]
         /\ Tail(q) = <<>> <=> Len(q) = 1
         /\ Head(q) = q[1] /\ q[1] \in S /\ Holds(q, q[1])
<1> DEFINE a == Tail(q)
           n == Len(q)
<1>1. /\ a \in Seq(S) /\ Len(a) = n - 1 /\ n \in Nat \ {0}
      /\ \A i \in 1 .. n - 1 : a[i] = q[i + 1]
  BY HeadTailProperties, EmptySeq
<1>2. Head(q) = q[1] /\ q[1] \in S /\ 1 \in 1 .. n /\ Holds(q, q[1])
  BY <1>1 DEF Holds
<1> HIDE DEF a
<1>3. Distinct(a)
  <2>1. \A i \in 1 .. n - 1 : i + 1 \in 1 .. n
    BY <1>1
  <2> QED BY <1>1, <2>1 DEF Distinct
<1>4. ASSUME NEW u PROVE Holds(a, u) <=> Holds(q, u) /\ u # q[1]
  <2>1. ASSUME NEW i \in 1 .. n - 1, a[i] = u PROVE Holds(q, u) /\ u # q[1]
    <3>1. i + 1 \in 1 .. n /\ i + 1 # 1 /\ q[i + 1] = u
      BY <1>1, <2>1
    <3> QED BY <1>2, <3>1 DEF Holds, Distinct
  <2>2. ASSUME NEW i \in 1 .. n, q[i] = u, u # q[1] PROVE Holds(a, u)
    <3>1. i - 1 \in 1 .. n - 1 /\ (i - 1) + 1 = i
      BY <1>1, <2>2
    <3>2. a[i - 1] = u
      BY <1>1, <2>2, <3>1
    <3> QED BY <1>1, <3>1, <3>2 DEF Holds
  <2> QED BY <1>1, <2>1, <2>2 DEF Holds
<1>5. a = <<>> <=> n = 1
  <2>1. a = <<>> <=> Len(a) = 0
    BY <1>1, EmptySeq
  <2> QED BY <1>1, <2>1
<1> QED BY <1>1, <1>2, <1>3, <1>4, <1>5 DEF a

\* rq_enqueue of a task that is not in the level makes it the last.
LEMMA RingGrows ==
  ASSUME NEW L \in LinkRecords, NEW p \in Priorities, NEW q, Ring(L, q, p),
         NEW t \in AllTasks, ~Holds(q, t)
  PROVE  LET M == Q!RqEnqueue(L, t, p)
         IN  /\ Ring(M, Append(q, t), p)
             /\ M \in LinkRecords /\ M.fault = L.fault /\ M.bitmap = L.bitmap \cup {p}
             /\ \A r \in Priorities : r # p => M.run_queue[r] = L.run_queue[r]
             /\ \A u \in AllTasks : u # t /\ ~Holds(q, u) =>
                  M.next[u] = L.next[u] /\ M.prev[u] = L.prev[u]
<1> DEFINE M == Q!RqEnqueue(L, t, p)
           a == Append(q, t)
           n == Len(q)
<1>1. /\ q \in Seq(AllTasks) /\ Distinct(q) /\ n \in Nat
      /\ L.run_queue[p] = HeadOf(q) /\ t # NULL
      /\ L.next \in [AllTasks -> Pointers] /\ L.prev \in [AllTasks -> Pointers]
      /\ L.run_queue \in [Priorities -> Pointers]
  BY Domains DEF Ring, LinkRecords
<1>2. /\ a \in Seq(AllTasks) /\ Len(a) = n + 1 /\ Distinct(a)
      /\ \A i \in 1 .. n : a[i] = q[i]
      /\ a[n + 1] = t /\ HeadOf(a) = IF q = <<>> THEN t ELSE q[1]
  BY <1>1, AppendIs DEF HeadOf
<1> HIDE DEF a
<1>3. CASE q = <<>>
  <2>1. n = 0 /\ L.run_queue[p] = NULL
    BY <1>1, <1>3 DEF HeadOf
  <2>2. /\ M.next = [L.next EXCEPT ![t] = t] /\ M.prev = [L.prev EXCEPT ![t] = t]
        /\ M.run_queue = [L.run_queue EXCEPT ![p] = t]
        /\ M.bitmap = L.bitmap \cup {p} /\ M.fault = L.fault
        /\ M \in LinkRecords
    BY <2>1, EnqueuedAlone
  <2> HIDE DEF M
  <2>3. M.run_queue[p] = t /\ M.next[t] = t /\ M.prev[t] = t
    BY <1>1, <2>2
  <2>4. Ring(M, a, p)
    <3>1. Len(a) = 1 /\ a[1] = t /\ HeadOf(a) = t
      BY <1>2, <1>3, <2>1
    <3> QED BY <1>2, <2>3, <3>1 DEF Ring
  <2> QED BY <1>1, <2>2, <2>4 DEF a, M
<1>4. CASE q # <<>>
  <2> DEFINE h == q[1]
             tail == q[n]
  <2>1. /\ n \in 1 .. n /\ 1 \in 1 .. n /\ n >= 1
        /\ h \in AllTasks /\ tail \in AllTasks
        /\ L.run_queue[p] = h /\ L.prev[h] = tail
        /\ h # t /\ tail # t
    <3>1. n \in 1 .. n /\ 1 \in 1 .. n /\ n >= 1
      BY <1>1, <1>4, EmptySeq
    <3>2. L.run_queue[p] = h /\ L.prev[h] = tail
      BY <1>1, <1>4, <3>1 DEF Ring, HeadOf
    <3> QED BY <1>1, <3>1, <3>2 DEF Holds
  <2>2. /\ M.next = [L.next EXCEPT ![tail] = t, ![t] = h]
        /\ M.prev = [L.prev EXCEPT ![t] = tail, ![h] = t]
        /\ M.run_queue = L.run_queue
        /\ M.bitmap = L.bitmap \cup {p} /\ M.fault = L.fault
        /\ M \in LinkRecords
    BY <2>1, EnqueuedLast
  <2> HIDE DEF M
  <2>a. \A i, j \in 1 .. n : q[i] = q[j] => i = j
    BY <1>1 DEF Distinct
  <2>b. Holds(q, h) /\ Holds(q, tail) /\ \A i \in 1 .. n : q[i] \in AllTasks /\ q[i] # t
    BY <1>1, <2>1 DEF Holds
  <2>3. /\ \A u \in AllTasks : M.next[u] = IF u = t THEN h ELSE IF u = tail THEN t ELSE L.next[u]
        /\ \A u \in AllTasks : M.prev[u] = IF u = h THEN t ELSE IF u = t THEN tail ELSE L.prev[u]
    <3> HIDE DEF h, tail
    <3> QED BY <1>1, <2>1, <2>2
  <2>4. ASSUME NEW i \in 1 .. n + 1
        PROVE  /\ M.next[a[i]] = IF i < n + 1 THEN a[i + 1] ELSE a[1]
               /\ M.prev[a[i]] = IF i > 1 THEN a[i - 1] ELSE a[n + 1]
    <3>1. a[1] = h
      BY <1>2, <2>1
    <3>2. CASE i = n + 1
      <4>1. a[i] = t /\ a[i - 1] = tail /\ i > 1 /\ ~ (i < n + 1)
        <5>1. i - 1 = n
          BY <1>1, <3>2
        <5> QED BY <1>1, <1>2, <2>1, <3>2, <5>1
      <4> QED BY <2>1, <2>3, <3>1, <4>1
    <3>3. CASE i # n + 1
      <4>1. i \in 1 .. n /\ i < n + 1
        BY <1>1, <3>3
      <4>2. a[i] = q[i] /\ a[i] \in AllTasks /\ a[i] # t
        BY <1>2, <2>b, <4>1
      <4>3. M.next[a[i]] = a[i + 1]
        <5>1. CASE i = n
          BY <1>2, <2>3, <4>2, <5>1
        <5>2. CASE i # n
          <6>1. i < n /\ i + 1 \in 1 .. n
            BY <1>1, <4>1, <5>2
          <6>2. L.next[q[i]] = q[i + 1] /\ q[i] # tail
            BY <2>1, <2>a, <4>1, <5>2, <6>1 DEF Ring
          <6> QED BY <1>2, <2>3, <4>2, <6>1, <6>2
        <5> QED BY <5>1, <5>2
      <4>4. CASE i = 1
        <5>1. M.prev[a[i]] = t
          BY <2>3, <3>1, <4>2, <4>4
        <5> QED BY <1>2, <4>1, <4>3, <4>4, <5>1
      <4>5. CASE i # 1
        <5>1. i > 1 /\ i - 1 \in 1 .. n
          BY <1>1, <4>1, <4>5
        <5>2. L.prev[q[i]] = q[i - 1] /\ q[i] # h
          BY <2>1, <2>a, <4>1, <4>5, <5>1 DEF Ring
        <5> QED BY <1>2, <2>3, <4>1, <4>2, <4>3, <5>1, <5>2
      <4> QED BY <4>4, <4>5
    <3> QED BY <3>2, <3>3
  <2>5. Ring(M, a, p)
    <3>1. M.run_queue[p] = HeadOf(a) /\ Len(a) = n + 1
      BY <1>2, <1>4, <2>1, <2>2
    <3> HIDE DEF n, h, tail
    <3> QED BY <1>2, <2>4, <3>1 DEF Ring
  <2>6. ASSUME NEW u \in AllTasks, u # t, ~Holds(q, u)
        PROVE  M.next[u] = L.next[u] /\ M.prev[u] = L.prev[u]
    <3>1. u # h /\ u # tail
      BY <2>6, <2>b
    <3> QED BY <2>3, <2>6, <3>1
  <2> QED BY <2>2, <2>5, <2>6 DEF a, M
<1> QED BY <1>3, <1>4

\* rq_enqueue of the only task of a level changes nothing.
LEMMA RingAgain ==
  ASSUME NEW L \in LinkRecords, NEW p \in Priorities, NEW t \in AllTasks,
         Ring(L, <<t>>, p)
  PROVE  LET M == Q!RqEnqueue(L, t, p)
         IN  /\ M \in LinkRecords /\ M.fault = L.fault /\ M.bitmap = L.bitmap \cup {p}
             /\ M.run_queue = L.run_queue /\ M.next = L.next /\ M.prev = L.prev
<1> DEFINE M == Q!RqEnqueue(L, t, p)
           q == <<t>>
<1>1. /\ Len(q) = 1 /\ q[1] = t /\ q # <<>> /\ 1 \in 1 .. 1
      /\ L.next \in [AllTasks -> Pointers] /\ L.prev \in [AllTasks -> Pointers]
  BY DEF LinkRecords
<1>2. L.run_queue[p] = t /\ L.next[t] = t /\ L.prev[t] = t
  BY <1>1 DEF Ring, HeadOf
<1>3. /\ M.next = [L.next EXCEPT ![t] = t, ![t] = t]
      /\ M.prev = [L.prev EXCEPT ![t] = t, ![t] = t]
      /\ M.run_queue = L.run_queue
      /\ M.bitmap = L.bitmap \cup {p} /\ M.fault = L.fault
      /\ M \in LinkRecords
  BY <1>2, EnqueuedLast
<1> HIDE DEF M
<1>4. M.next = L.next /\ M.prev = L.prev
  BY <1>1, <1>2, <1>3
<1> QED BY <1>3, <1>4 DEF M

\* M is L without the first task of level p.
WithoutFirst(L, M, q, p) ==
  /\ Ring(M, Tail(q), p)
  /\ M \in LinkRecords /\ M.fault = L.fault
  /\ M.bitmap = IF Len(q) = 1 THEN L.bitmap \ {p} ELSE L.bitmap
  /\ \A r \in Priorities : r # p => M.run_queue[r] = L.run_queue[r]
  /\ \A u \in AllTasks : ~Holds(q, u) => M.next[u] = L.next[u] /\ M.prev[u] = L.prev[u]

\* rq_remove of the first task of a level.
LEMMA RingShrinks ==
  ASSUME NEW L \in LinkRecords, NEW p \in Priorities, NEW q, Ring(L, q, p), q # <<>>
  PROVE  WithoutFirst(L, Q!RqRemove(L, q[1], p), q, p)
<1> DEFINE t == q[1]
           M == Q!RqRemove(L, t, p)
           a == Tail(q)
           n == Len(q)
<1>1. /\ q \in Seq(AllTasks) /\ Distinct(q) /\ n \in Nat \ {0}
      /\ L.run_queue[p] = t
      /\ L.next \in [AllTasks -> Pointers] /\ L.prev \in [AllTasks -> Pointers]
      /\ L.run_queue \in [Priorities -> Pointers]
  BY EmptySeq DEF Ring, LinkRecords, HeadOf
<1>2. /\ a \in Seq(AllTasks) /\ Len(a) = n - 1 /\ Distinct(a)
      /\ \A i \in 1 .. n - 1 : a[i] = q[i + 1]
      /\ a = <<>> <=> n = 1
      /\ t \in AllTasks /\ Holds(q, t) /\ t # NULL
  BY <1>1, TailIs, Domains
<1>a. \A i \in 1 .. n : q[i] \in AllTasks /\ Holds(q, q[i])
  BY <1>1 DEF Holds
<1>b. \A i, j \in 1 .. n : q[i] = q[j] => i = j
  BY <1>1 DEF Distinct
<1> HIDE DEF a
<1>3. CASE n = 1
  <2>1. L.next[t] = t
    BY <1>1, <1>3 DEF Ring
  <2>2. /\ M.next = [L.next EXCEPT ![t] = NULL]
        /\ M.prev = [L.prev EXCEPT ![t] = NULL]
        /\ M.run_queue = [L.run_queue EXCEPT ![p] = NULL]
        /\ M.bitmap = L.bitmap \ {p} /\ M.fault = L.fault
        /\ M \in LinkRecords
    BY <1>2, <2>1, RemovedAlone
  <2> HIDE DEF M
  <2>3. Ring(M, a, p)
    <3>1. a = <<>> /\ Len(a) = 0 /\ M.run_queue[p] = NULL
      BY <1>1, <1>2, <1>3, <2>2
    <3>2. \A i \in 1 .. Len(a) : FALSE
      BY <3>1
    <3>3. M.run_queue[p] = HeadOf(a)
      BY <3>1 DEF HeadOf
    <3> QED BY <1>2, <3>2, <3>3 DEF Ring
  <2>4. \A u \in AllTasks : ~Holds(q, u) => M.next[u] = L.next[u] /\ M.prev[u] = L.prev[u]
    <3> HIDE DEF t
    <3> QED BY <1>1, <1>2, <2>2
  <2>5. \A r \in Priorities : r # p => M.run_queue[r] = L.run_queue[r]
    BY <1>1, <2>2
  <2> QED BY <1>3, <2>2, <2>3, <2>4, <2>5 DEF a, M, WithoutFirst
<1>4. CASE n # 1
  <2> DEFINE nx == q[2]
             pv == q[n]
  <2>1. /\ 1 \in 1 .. n /\ 2 \in 1 .. n /\ n \in 1 .. n /\ 1 < n
        /\ L.next[t] = nx /\ L.prev[t] = pv /\ nx # t /\ pv # t
        /\ nx \in AllTasks /\ pv \in AllTasks
    <3>1. 1 \in 1 .. n /\ 2 \in 1 .. n /\ n \in 1 .. n /\ 1 < n
      <4>1. n \in Nat \ {0} /\ n # 1
        BY <1>1, <1>4
      <4> HIDE DEF n
      <4> QED BY <4>1
    <3>2. L.next[t] = nx /\ L.prev[t] = pv
      BY <3>1 DEF Ring
    <3> QED BY <1>4, <1>a, <1>b, <3>1, <3>2
  <2>2. /\ M.next = [L.next EXCEPT ![pv] = nx, ![t] = NULL]
        /\ M.prev = [L.prev EXCEPT ![nx] = pv, ![t] = NULL]
        /\ M.run_queue = [L.run_queue EXCEPT ![p] = IF @ = t THEN nx ELSE @]
        /\ M.bitmap = L.bitmap /\ M.fault = L.fault
        /\ M \in LinkRecords
    <3>1. t \in AllTasks /\ L.next[t] # t /\ L.next[t] \in AllTasks /\ L.prev[t] \in AllTasks
      BY <1>2, <2>1
    <3>2. /\ M.next = [L.next EXCEPT ![L.prev[t]] = L.next[t], ![t] = NULL]
          /\ M.prev = [L.prev EXCEPT ![L.next[t]] = L.prev[t], ![t] = NULL]
          /\ M.run_queue = [L.run_queue EXCEPT ![p] = IF @ = t THEN L.next[t] ELSE @]
          /\ M.bitmap = L.bitmap /\ M.fault = L.fault
          /\ M \in LinkRecords
      <4> HIDE DEF t
      <4> QED BY <3>1, RemovedLinked
    <3> HIDE DEF M, nx, pv, t
    <3> QED BY <2>1, <3>2
  <2> HIDE DEF M
  <2>3. /\ \A u \in AllTasks : u # t => M.next[u] = IF u = pv THEN nx ELSE L.next[u]
        /\ \A u \in AllTasks : u # t => M.prev[u] = IF u = nx THEN pv ELSE L.prev[u]
        /\ M.run_queue[p] = nx
        /\ \A r \in Priorities : r # p => M.run_queue[r] = L.run_queue[r]
    <3> HIDE DEF nx, pv, t
    <3> QED BY <1>1, <1>2, <2>1, <2>2
  <2>4. ASSUME NEW i \in 1 .. n - 1
        PROVE  /\ M.next[a[i]] = IF i < n - 1 THEN a[i + 1] ELSE a[1]
               /\ M.prev[a[i]] = IF i > 1 THEN a[i - 1] ELSE a[n - 1]
    <3>1. /\ i + 1 \in 1 .. n /\ i + 1 # 1 /\ i + 1 > 1 /\ (i + 1) - 1 = i
          /\ 1 \in 1 .. n - 1 /\ n - 1 \in 1 .. n - 1 /\ (n - 1) + 1 = n /\ 1 + 1 = 2
      BY <1>1, <2>1
    <3>2. a[i] = q[i + 1] /\ a[i] # t /\ a[i] \in AllTasks /\ a[1] = nx /\ a[n - 1] = pv
      <4>1. a[1] = q[1 + 1] /\ a[n - 1] = q[(n - 1) + 1] /\ a[i] = q[i + 1]
        BY <1>2, <3>1
      <4>2. q[i + 1] # q[1]
        BY <1>b, <2>1, <3>1
      <4> QED BY <1>a, <3>1, <4>1, <4>2
    <3>3. M.next[a[i]] = IF i < n - 1 THEN a[i + 1] ELSE a[1]
      <4>1. CASE i = n - 1
        <5>1. a[i] = pv /\ ~ (i < n - 1)
          BY <3>1, <3>2, <4>1
        <5> QED BY <2>3, <3>2, <5>1
      <4>2. CASE i # n - 1
        <5>1. i < n - 1 /\ i + 1 \in 1 .. n - 1 /\ i + 1 < n /\ i + 1 # n
          BY <1>1, <4>2
        <5>2. L.next[q[i + 1]] = q[(i + 1) + 1] /\ q[i + 1] # pv
          BY <1>b, <2>1, <3>1, <5>1 DEF Ring
        <5>3. a[i + 1] = q[(i + 1) + 1]
          BY <1>2, <5>1
        <5> QED BY <2>3, <3>2, <5>1, <5>2, <5>3
      <4> QED BY <4>1, <4>2
    <3>4. M.prev[a[i]] = IF i > 1 THEN a[i - 1] ELSE a[n - 1]
      <4>1. CASE i = 1
        <5>1. a[i] = nx
          BY <3>2, <4>1
        <5> QED BY <2>3, <3>2, <4>1, <5>1
      <4>2. CASE i # 1
        <5>1. i > 1 /\ i - 1 \in 1 .. n - 1 /\ i + 1 # 2 /\ (i - 1) + 1 = i
          BY <1>1, <4>2
        <5>2. L.prev[q[i + 1]] = q[(i + 1) - 1]
          BY <3>1 DEF Ring
        <5>3. a[i - 1] = q[(i - 1) + 1] /\ q[i + 1] # nx
          BY <1>2, <1>b, <2>1, <3>1, <5>1
        <5> QED BY <2>3, <3>1, <3>2, <5>1, <5>2, <5>3
      <4> QED BY <4>1, <4>2
    <3> QED BY <3>3, <3>4
  <2>5. Ring(M, a, p)
    <3>1. HeadOf(a) = nx
      <4>1. a[1] = q[1 + 1] /\ 1 + 1 = 2
        <5>1. 1 \in 1 .. n - 1
          BY <1>1, <2>1
        <5> QED BY <1>2, <5>1
      <4> QED BY <1>2, <1>4, <4>1 DEF HeadOf
    <3>2. Len(a) = n - 1
      BY <1>2
    <3> HIDE DEF nx, pv, n, t
    <3> QED BY <1>2, <2>3, <2>4, <3>1, <3>2 DEF Ring
  <2>6. ASSUME NEW u \in AllTasks, ~Holds(q, u)
        PROVE  M.next[u] = L.next[u] /\ M.prev[u] = L.prev[u]
    <3>1. u # t /\ u # nx /\ u # pv
      BY <1>a, <2>1, <2>6
    <3> QED BY <2>3, <3>1
  <2> QED BY <1>4, <2>2, <2>3, <2>5, <2>6 DEF a, M, WithoutFirst
<1> QED BY <1>3, <1>4

-----------------------------------------------------------------------------
(* The run queues and the wait list as a whole.                            *)

\* The scheduler's proofs, about the lists the links represent.
SP == INSTANCE SchedulerProofs WITH
  run_queue <- RunQueues,
  prio_bitmap <- links.bitmap,
  sleep_queue <- <<>>,
  wake_in <- [t \in AllTasks |-> 0],
  alarm_armed <- TRUE,
  MaxSleep <- 1,
  OneShotAlarm <- FALSE

\* The tasks and levels are those of the scheduler.
LEMMA SameDomains == SP!AllTasks = AllTasks /\ SP!Priorities = Priorities
BY DEF SP!AllTasks, AllTasks, SP!Priorities, Priorities

\* The assumptions of the scheduler hold.
LEMMA SchedulerAssumed == SP!SchedulerAssumption
BY KMutexAssumption DEF SP!SchedulerAssumption

\* rq_enqueue appends to the level's queue, as the scheduler's specification says.
LEMMA EnqueueRepresents ==
  ASSUME NEW L, NEW rq, NEW h, NEW w, Represents(L, rq, h, w),
         NEW t \in AllTasks, NEW p \in Priorities, ~Holds(w, t),
         rq[p] = <<t>> \/ \A r \in Priorities : ~Holds(rq[r], t)
  PROVE  LET M == Q!RqEnqueue(L, t, p)
             rq2 == SP!RqEnqueue(rq, t, p)
         IN  /\ Represents(M, rq2, h, w)
             /\ M.bitmap = SP!BitmapSet(L.bitmap, p)
             /\ \A r \in Priorities : \A u \in AllTasks :
                  Holds(rq2[r], u) => Holds(rq[r], u) \/ (u = t /\ r = p)
<1> DEFINE M == Q!RqEnqueue(L, t, p)
           rq2 == SP!RqEnqueue(rq, t, p)
<1>1. /\ L \in LinkRecords /\ ~L.fault /\ rq \in [Priorities -> Seq(AllTasks)]
      /\ \A r \in Priorities : Ring(L, rq[r], r)
      /\ Chain(L, h, w)
      /\ L.bitmap = {r \in Priorities : rq[r] # <<>>}
      /\ \A u \in AllTasks : \A r \in Priorities : Holds(rq[r], u) =>
           /\ \A l \in Priorities : Holds(rq[l], u) => l = r
           /\ ~Holds(w, u)
  BY DEF Represents
<1>2. CASE rq[p] = <<t>>
  <2>1. rq2 = rq
    BY <1>2 DEF SP!RqEnqueue
  <2>2. /\ M \in LinkRecords /\ M.fault = L.fault /\ M.bitmap = L.bitmap \cup {p}
        /\ M.run_queue = L.run_queue /\ M.next = L.next /\ M.prev = L.prev
    <3>1. Ring(L, <<t>>, p)
      BY <1>1, <1>2
    <3> QED BY <1>1, <3>1, RingAgain
  <2> HIDE DEF M
  <2>3. \A r \in Priorities : Ring(M, rq[r], r)
    BY <1>1, <2>2, RingKept
  <2>4. Chain(M, h, w)
    BY <1>1, <2>2, ChainKept
  <2>5. M.bitmap = L.bitmap
    <3>1. rq[p] # <<>>
      BY <1>2
    <3> QED BY <1>1, <2>2, <3>1
  <2>6. Represents(M, rq, h, w)
    BY <1>1, <2>2, <2>3, <2>4, <2>5 DEF Represents
  <2> HIDE DEF rq2
  <2> QED BY <2>1, <2>2, <2>6 DEF SP!BitmapSet, M, rq2
<1>3. CASE rq[p] # <<t>>
  <2>0. \A r \in Priorities : ~Holds(rq[r], t)
    BY <1>3
  <2>1. rq2 = [rq EXCEPT ![p] = Append(@, t)]
    BY <1>3 DEF SP!RqEnqueue
  <2>2. /\ Ring(M, Append(rq[p], t), p)
        /\ M \in LinkRecords /\ M.fault = L.fault /\ M.bitmap = L.bitmap \cup {p}
        /\ \A r \in Priorities : r # p => M.run_queue[r] = L.run_queue[r]
        /\ \A u \in AllTasks : u # t /\ ~Holds(rq[p], u) =>
             M.next[u] = L.next[u] /\ M.prev[u] = L.prev[u]
    BY <1>1, <2>0, RingGrows
  <2>3. /\ rq[p] \in Seq(AllTasks) /\ Append(rq[p], t) \in Seq(AllTasks)
        /\ Append(rq[p], t) # <<>>
        /\ \A u : Holds(Append(rq[p], t), u) <=> Holds(rq[p], u) \/ u = t
    <3>1. rq[p] \in Seq(AllTasks) /\ Distinct(rq[p])
      BY <1>1 DEF Ring
    <3> QED BY <2>0, <3>1, AppendIs
  <2>4. /\ rq2 \in [Priorities -> Seq(AllTasks)]
        /\ rq2[p] = Append(rq[p], t)
        /\ \A r \in Priorities : r # p => rq2[r] = rq[r]
    <3> HIDE DEF rq2
    <3> QED BY <1>1, <2>1, <2>3
  <2> HIDE DEF M, rq2
  <2>5. ASSUME NEW r \in Priorities PROVE Ring(M, rq2[r], r)
    <3>1. CASE r = p
      BY <2>2, <2>4, <3>1
    <3>2. CASE r # p
      <4>1. \A u \in AllTasks : Holds(rq[r], u) =>
              M.next[u] = L.next[u] /\ M.prev[u] = L.prev[u]
        BY <1>1, <2>0, <2>2, <3>2
      <4>2. Ring(M, rq[r], r)
        BY <1>1, <2>2, <3>2, <4>1, RingKept
      <4> QED BY <2>4, <3>2, <4>2
    <3> QED BY <3>1, <3>2
  <2>6. Chain(M, h, w)
    <3>1. \A u \in AllTasks : Holds(w, u) => M.next[u] = L.next[u]
      BY <1>1, <2>2
    <3> QED BY <1>1, <3>1, ChainKept
  <2>7. M.bitmap = {r \in Priorities : rq2[r] # <<>>}
    BY <1>1, <2>2, <2>3, <2>4
  <2>8. \A r \in Priorities : \A u \in AllTasks :
          Holds(rq2[r], u) <=> Holds(rq[r], u) \/ (u = t /\ r = p)
    BY <2>0, <2>3, <2>4
  <2>9. ASSUME NEW u \in AllTasks, NEW r \in Priorities, Holds(rq2[r], u)
        PROVE  /\ \A l \in Priorities : Holds(rq2[l], u) => l = r
               /\ ~Holds(w, u)
    BY <1>1, <2>0, <2>8, <2>9
  <2>10. Represents(M, rq2, h, w)
    BY <1>1, <2>2, <2>4, <2>5, <2>6, <2>7, <2>9 DEF Represents
  <2> QED BY <2>2, <2>8, <2>10 DEF SP!BitmapSet, M, rq2
<1> QED BY <1>2, <1>3

\* rq_remove of the head of a level, likewise.
LEMMA DequeueRepresents ==
  ASSUME NEW L, NEW rq, NEW h, NEW w, Represents(L, rq, h, w), NEW p \in L.bitmap
  PROVE  LET new == L.run_queue[p]
             M == Q!RqRemove(L, new, p)
             rq2 == SP!RqRemoveHead(rq, p)
         IN  /\ p \in Priorities /\ new \in AllTasks /\ new = Head(rq[p])
             /\ Holds(rq[p], new)
             /\ Represents(M, rq2, h, w)
             /\ M.bitmap = SP!BitmapRemoveHead(L.bitmap, rq, p)
<1> DEFINE new == L.run_queue[p]
           M == Q!RqRemove(L, new, p)
           rq2 == SP!RqRemoveHead(rq, p)
           q == rq[p]
<1>1. /\ L \in LinkRecords /\ ~L.fault /\ rq \in [Priorities -> Seq(AllTasks)]
      /\ \A r \in Priorities : Ring(L, rq[r], r)
      /\ Chain(L, h, w)
      /\ L.bitmap = {r \in Priorities : rq[r] # <<>>}
      /\ \A u \in AllTasks : \A r \in Priorities : Holds(rq[r], u) =>
           /\ \A l \in Priorities : Holds(rq[l], u) => l = r
           /\ ~Holds(w, u)
  BY DEF Represents
<1>2. p \in Priorities /\ q # <<>> /\ q \in Seq(AllTasks) /\ Distinct(q) /\ new = q[1]
  BY <1>1 DEF Ring, HeadOf
<1>3. /\ Tail(q) \in Seq(AllTasks)
      /\ \A u : Holds(Tail(q), u) <=> Holds(q, u) /\ u # q[1]
      /\ Tail(q) = <<>> <=> Len(q) = 1
      /\ Head(q) = q[1] /\ q[1] \in AllTasks /\ Holds(q, q[1])
  BY <1>2, TailIs
<1>4. /\ Ring(M, Tail(q), p)
      /\ M \in LinkRecords /\ M.fault = L.fault
      /\ M.bitmap = IF Len(q) = 1 THEN L.bitmap \ {p} ELSE L.bitmap
      /\ \A r \in Priorities : r # p => M.run_queue[r] = L.run_queue[r]
      /\ \A u \in AllTasks : ~Holds(q, u) =>
           M.next[u] = L.next[u] /\ M.prev[u] = L.prev[u]
  <2>1. Ring(L, q, p) /\ M = Q!RqRemove(L, q[1], p)
    BY <1>1, <1>2
  <2>2. L \in LinkRecords /\ p \in Priorities /\ q # <<>>
    BY <1>1, <1>2
  <2>3. WithoutFirst(L, M, q, p)
    <3> HIDE DEF q
    <3>1. WithoutFirst(L, Q!RqRemove(L, q[1], p), q, p)
      BY <2>1, <2>2, RingShrinks
    <3> QED BY <2>1, <3>1
  <2> HIDE DEF M, q
  <2> QED BY <2>3 DEF WithoutFirst
<1>5. /\ rq2 \in [Priorities -> Seq(AllTasks)]
      /\ rq2[p] = Tail(q)
      /\ \A r \in Priorities : r # p => rq2[r] = rq[r]
  BY <1>1, <1>2, <1>3 DEF SP!RqRemoveHead
<1> HIDE DEF M, rq2
<1>6. ASSUME NEW r \in Priorities PROVE Ring(M, rq2[r], r)
  <2>1. CASE r = p
    BY <1>4, <1>5, <2>1
  <2>2. CASE r # p
    <3>1. \A u \in AllTasks : Holds(rq[r], u) =>
            M.next[u] = L.next[u] /\ M.prev[u] = L.prev[u]
      BY <1>1, <1>2, <1>4, <2>2
    <3>2. Ring(M, rq[r], r)
      BY <1>1, <1>4, <2>2, <3>1, RingKept
    <3> QED BY <1>5, <2>2, <3>2
  <2> QED BY <2>1, <2>2
<1>7. Chain(M, h, w)
  <2>1. \A u \in AllTasks : Holds(w, u) => M.next[u] = L.next[u]
    BY <1>1, <1>2, <1>4
  <2> QED BY <1>1, <2>1, ChainKept
<1>8. M.bitmap = {r \in Priorities : rq2[r] # <<>>}
  BY <1>1, <1>2, <1>3, <1>4, <1>5
<1>9. \A r \in Priorities : \A u \in AllTasks : Holds(rq2[r], u) => Holds(rq[r], u)
  BY <1>3, <1>5
<1>10. Represents(M, rq2, h, w)
  BY <1>1, <1>4, <1>5, <1>6, <1>7, <1>8, <1>9 DEF Represents
<1> QED BY <1>2, <1>3, <1>4, <1>10 DEF M, rq2, SP!BitmapRemoveHead

\* Taking the head off the wait list.
LEMMA RestRepresents ==
  ASSUME NEW L, NEW rq, NEW h, NEW w, Represents(L, rq, h, w), h # NULL
  PROVE  /\ w # <<>> /\ h = w[1] /\ h \in Tasks /\ Holds(w, h)
         /\ Represents(L, rq, L.next[h], Tail(w))
         /\ \A u : Holds(Tail(w), u) <=> Holds(w, u) /\ u # h
         /\ Tail(w) \in Seq(Tasks) /\ Len(Tail(w)) = Len(w) - 1 /\ Len(w) \in Nat \ {0}
         /\ \A i \in 1 .. Len(w) - 1 : Tail(w)[i] = w[i + 1]
<1> DEFINE a == Tail(w)
           n == Len(w)
<1>1. Chain(L, h, w) /\ w \in Seq(Tasks) /\ Distinct(w) /\ w # <<>> /\ h = w[1]
  BY DEF Represents, Chain, HeadOf
<1>2. /\ a \in Seq(Tasks) /\ Len(a) = n - 1 /\ n \in Nat \ {0}
      /\ \A i \in 1 .. n - 1 : a[i] = w[i + 1]
      /\ Distinct(a)
      /\ \A u : Holds(a, u) <=> Holds(w, u) /\ u # w[1]
      /\ a = <<>> <=> n = 1
      /\ w[1] \in Tasks /\ Holds(w, w[1])
  BY <1>1, TailIs
<1> HIDE DEF a
<1>3. L.next[h] = HeadOf(a)
  <2>1. 1 \in 1 .. n
    BY <1>2
  <2>2. L.next[h] = IF 1 < n THEN w[1 + 1] ELSE NULL
    BY <1>1, <2>1 DEF Chain
  <2>3. CASE n = 1
    BY <1>2, <2>2, <2>3 DEF HeadOf
  <2>4. CASE n # 1
    <3>1. 1 < n /\ 1 \in 1 .. n - 1
      BY <1>2, <2>4
    <3>2. a[1] = w[1 + 1]
      BY <1>2, <3>1
    <3> QED BY <1>2, <2>2, <2>4, <3>1, <3>2 DEF HeadOf
  <2> QED BY <2>3, <2>4
<1>4. ASSUME NEW i \in 1 .. n - 1
      PROVE  L.next[a[i]] = IF i < n - 1 THEN a[i + 1] ELSE NULL
  <2>1. i + 1 \in 1 .. n /\ (i < n - 1 <=> i + 1 < n)
    BY <1>2
  <2>2. L.next[w[i + 1]] = IF i + 1 < n THEN w[(i + 1) + 1] ELSE NULL
    BY <1>1, <2>1 DEF Chain
  <2>3. i < n - 1 => a[i + 1] = w[(i + 1) + 1]
    <3>1. i < n - 1 => i + 1 \in 1 .. n - 1
      BY <1>2
    <3> QED BY <1>2, <3>1
  <2> QED BY <1>2, <2>1, <2>2, <2>3
<1>5. Chain(L, L.next[h], a)
  <2> HIDE DEF n
  <2> QED BY <1>2, <1>3, <1>4 DEF Chain
<1>6. Represents(L, rq, L.next[h], a)
  BY <1>1, <1>2, <1>5 DEF Represents
<1> QED BY <1>1, <1>2, <1>6 DEF a

\* The wait list with t linked behind its first n tasks.
Inserted(w, n, t) ==
  [i \in 1 .. Len(w) + 1 |-> IF i <= n THEN w[i] ELSE IF i = n + 1 THEN t ELSE w[i - 1]]

\* M is L with t linked into the wait list w behind its first n tasks.
Linked(L, M, w, n, t) ==
  /\ M \in LinkRecords /\ M.fault = L.fault /\ M.bitmap = L.bitmap
  /\ M.run_queue = L.run_queue /\ M.prev = L.prev
  /\ M.next[t] = IF n < Len(w) THEN w[n + 1] ELSE NULL
  /\ n # 0 => M.next[w[n]] = t
  /\ \A u \in AllTasks : u # t /\ (n = 0 \/ u # w[n]) => M.next[u] = L.next[u]

\* Linking a task that is in no list into the wait list.
LEMMA InsertRepresents ==
  ASSUME NEW L, NEW rq, NEW h, NEW w, Represents(L, rq, h, w),
         NEW n \in 0 .. Len(w), NEW t \in Tasks, ~Holds(w, t),
         \A r \in Priorities : ~Holds(rq[r], t), NEW M, Linked(L, M, w, n, t)
  PROVE  LET w2 == Inserted(w, n, t)
         IN  /\ Represents(M, rq, IF n = 0 THEN t ELSE h, w2)
             /\ \A u : Holds(w2, u) <=> Holds(w, u) \/ u = t
             /\ M.bitmap = L.bitmap
<1> DEFINE m == Len(w)
           w2 == Inserted(w, n, t)
           following == IF n < m THEN w[n + 1] ELSE NULL
           h2 == IF n = 0 THEN t ELSE h
<1>1. /\ L \in LinkRecords /\ ~L.fault /\ rq \in [Priorities -> Seq(AllTasks)]
      /\ \A r \in Priorities : Ring(L, rq[r], r)
      /\ Chain(L, h, w)
      /\ L.bitmap = {r \in Priorities : rq[r] # <<>>}
      /\ \A u \in AllTasks : \A r \in Priorities : Holds(rq[r], u) =>
           /\ \A l \in Priorities : Holds(rq[l], u) => l = r
           /\ ~Holds(w, u)
  BY DEF Represents
<1>2. /\ w \in Seq(Tasks) /\ m \in Nat /\ Distinct(w) /\ h = HeadOf(w)
      /\ \A i \in 1 .. m : L.next[w[i]] = IF i < m THEN w[i + 1] ELSE NULL
      /\ \A i \in 1 .. m : w[i] \in Tasks /\ w[i] \in AllTasks /\ w[i] # t /\ Holds(w, w[i])
  <2>1. w \in Seq(Tasks) /\ Distinct(w)
    BY <1>1 DEF Chain
  <2>2. \A i \in 1 .. m : w[i] \in Tasks /\ Holds(w, w[i])
    BY <2>1 DEF Holds
  <2>3. m \in Nat
    BY <2>1
  <2> QED BY <1>1, <2>1, <2>2, <2>3, Domains DEF Chain
<1>a. \A i, j \in 1 .. m : w[i] = w[j] => i = j
  BY <1>2 DEF Distinct
<1> HIDE DEF m
<1>b. /\ following \in Pointers /\ t \in AllTasks /\ t \in Pointers
      /\ n \in Nat /\ n <= m /\ (n # 0 => n \in 1 .. m) /\ (n < m => n + 1 \in 1 .. m)
  <2>1. n \in Nat /\ n <= m /\ (n # 0 => n \in 1 .. m) /\ (n < m => n + 1 \in 1 .. m)
    BY <1>2 DEF m
  <2> QED BY <1>2, <2>1, Domains
<1> HIDE DEF following
<1>3. /\ M \in LinkRecords /\ M.fault = L.fault /\ M.bitmap = L.bitmap
      /\ M.run_queue = L.run_queue /\ M.prev = L.prev
      /\ M.next[t] = following
      /\ n # 0 => M.next[w[n]] = t
      /\ \A u \in AllTasks : u # t /\ (n = 0 \/ u # w[n]) => M.next[u] = L.next[u]
  BY DEF Linked, following, m
<1>4. \A i \in 1 .. m + 1 :
        w2[i] = IF i <= n THEN w[i] ELSE IF i = n + 1 THEN t ELSE w[i - 1]
  BY DEF Inserted, m
<1>5. \A i \in 1 .. m + 1 :
        \/ i <= n /\ i \in 1 .. m /\ w2[i] = w[i]
        \/ i = n + 1 /\ w2[i] = t
        \/ i > n + 1 /\ i - 1 \in 1 .. m /\ w2[i] = w[i - 1]
  <2>1. ASSUME NEW i \in 1 .. m + 1
        PROVE  \/ i <= n /\ i \in 1 .. m
               \/ i = n + 1 /\ ~ (i <= n)
               \/ i > n + 1 /\ i - 1 \in 1 .. m /\ ~ (i <= n) /\ i # n + 1
    BY <1>2, <1>b
  <2> QED BY <1>4, <2>1
<1>6. w2 \in Seq(Tasks) /\ Len(w2) = m + 1 /\ m + 1 \in Nat
  <2>1. \A i \in 1 .. m + 1 : w2[i] \in Tasks
    BY <1>2, <1>5
  <2>2. w2 = [i \in 1 .. m + 1 |-> w2[i]]
    BY DEF Inserted, m
  <2>3. w2 \in [1 .. m + 1 -> Tasks] /\ m + 1 \in Nat
    <3> HIDE DEF w2
    <3> QED BY <1>2, <2>1, <2>2
  <2> HIDE DEF w2
  <2> QED BY <2>3
<1> HIDE DEF w2
<1>7. Distinct(w2)
  <2> SUFFICES ASSUME NEW i \in 1 .. m + 1, NEW j \in 1 .. m + 1, w2[i] = w2[j]
               PROVE  i = j
    BY <1>6 DEF Distinct
  <2>1. /\ i \in Nat /\ j \in Nat /\ (i - 1 = j - 1 => i = j)
    BY <1>2
  <2>2. (i <= n => i \in 1 .. m /\ w2[i] = w[i]) /\ (i = n + 1 => w2[i] = t)
        /\ (i > n + 1 => i - 1 \in 1 .. m /\ w2[i] = w[i - 1])
        /\ (i <= n \/ i = n + 1 \/ i > n + 1)
    BY <1>2, <1>5, <1>b
  <2>3. (j <= n => j \in 1 .. m /\ w2[j] = w[j]) /\ (j = n + 1 => w2[j] = t)
        /\ (j > n + 1 => j - 1 \in 1 .. m /\ w2[j] = w[j - 1])
        /\ (j <= n \/ j = n + 1 \/ j > n + 1)
    BY <1>2, <1>5, <1>b
  <2>4. CASE i = n + 1 \/ j = n + 1
    BY <1>2, <2>2, <2>3, <2>4
  <2>5. CASE i <= n /\ j <= n
    BY <1>a, <2>2, <2>3, <2>5
  <2>6. CASE i > n + 1 /\ j > n + 1
    BY <1>a, <2>1, <2>2, <2>3, <2>6
  <2>7. CASE i <= n /\ j > n + 1
    <3>1. i = j - 1
      BY <1>a, <2>2, <2>3, <2>7
    <3> QED BY <1>b, <2>1, <2>7, <3>1
  <2>8. CASE i > n + 1 /\ j <= n
    <3>1. i - 1 = j
      BY <1>a, <2>2, <2>3, <2>8
    <3> QED BY <1>b, <2>1, <2>8, <3>1
  <2> QED BY <2>2, <2>3, <2>4, <2>5, <2>6, <2>7, <2>8
<1>8. ASSUME NEW u PROVE Holds(w2, u) <=> Holds(w, u) \/ u = t
  <2>1. ASSUME NEW i \in 1 .. m + 1, w2[i] = u PROVE Holds(w, u) \/ u = t
    BY <1>2, <1>5, <2>1
  <2>2. ASSUME NEW i \in 1 .. m, w[i] = u PROVE Holds(w2, u)
    <3>1. CASE i <= n
      <4>1. i \in 1 .. m + 1 /\ w2[i] = u
        BY <1>2, <1>4, <2>2, <3>1
      <4> QED BY <1>6, <4>1 DEF Holds
    <3>2. CASE i > n
      <4>1. i + 1 \in 1 .. m + 1 /\ ~ (i + 1 <= n) /\ i + 1 # n + 1 /\ (i + 1) - 1 = i
        BY <1>2, <1>b, <3>2
      <4>2. w2[i + 1] = u
        BY <1>4, <2>2, <4>1
      <4> QED BY <1>6, <4>1, <4>2 DEF Holds
    <3> QED BY <1>b, <3>1, <3>2
  <2>3. Holds(w2, t)
    <3>1. n + 1 \in 1 .. m + 1 /\ ~ (n + 1 <= n)
      BY <1>2, <1>b
    <3> QED BY <1>4, <1>6, <3>1 DEF Holds
  <2>4. Holds(w, u) => \E i \in 1 .. m : w[i] = u
    BY DEF Holds, m
  <2> QED BY <1>6, <2>1, <2>2, <2>3, <2>4 DEF Holds
<1>9. h2 = HeadOf(w2)
  <2>1. w2 # <<>> /\ 1 \in 1 .. m + 1
    BY <1>2, <1>6
  <2>2. CASE n = 0
    <3>1. ~ (1 <= n) /\ 1 = n + 1
      BY <2>2
    <3> QED BY <1>4, <2>1, <2>2, <3>1 DEF HeadOf
  <2>3. CASE n # 0
    <3>1. 1 <= n /\ w # <<>>
      BY <1>2, <1>b, <2>3 DEF m
    <3> QED BY <1>2, <1>4, <2>1, <2>3, <3>1 DEF HeadOf
  <2> QED BY <2>2, <2>3
<1>10. ASSUME NEW i \in 1 .. m + 1
       PROVE  M.next[w2[i]] = IF i < m + 1 THEN w2[i + 1] ELSE NULL
  <2>1. CASE i < n
    <3>1. /\ i \in 1 .. m /\ i + 1 \in 1 .. m + 1 /\ i <= n /\ i + 1 <= n /\ i < m
          /\ i < m + 1 /\ i # n /\ n # 0
      BY <1>2, <1>b, <2>1
    <3>2. w2[i] = w[i] /\ w2[i + 1] = w[i + 1] /\ w[i] # w[n]
      BY <1>4, <1>a, <1>b, <3>1
    <3> QED BY <1>2, <1>3, <3>1, <3>2
  <2>2. CASE i = n
    <3>1. /\ i + 1 \in 1 .. m + 1 /\ i <= n /\ ~ (i + 1 <= n) /\ i + 1 = n + 1
          /\ i < m + 1 /\ n # 0
      BY <1>2, <1>b, <2>2
    <3>2. w2[i] = w[n] /\ w2[i + 1] = t
      BY <1>4, <2>2, <3>1
    <3> QED BY <1>3, <3>1, <3>2
  <2>3. CASE i = n + 1
    <3>1. ~ (i <= n) /\ (i < m + 1 <=> n < m)
      BY <1>2, <1>b, <2>3
    <3>2. w2[i] = t
      BY <1>4, <2>3, <3>1
    <3>3. n < m => w2[i + 1] = w[n + 1]
      <4>1. n < m => /\ i + 1 \in 1 .. m + 1 /\ ~ (i + 1 <= n) /\ i + 1 # n + 1
                     /\ (i + 1) - 1 = n + 1
        BY <1>2, <1>b, <2>3
      <4> QED BY <1>4, <4>1
    <3> QED BY <1>3, <3>1, <3>2, <3>3 DEF following
  <2>4. CASE i > n + 1
    <3>1. /\ i - 1 \in 1 .. m /\ ~ (i <= n) /\ i # n + 1 /\ (i - 1 < m <=> i < m + 1)
          /\ i - 1 # n /\ (i - 1) + 1 = i
      BY <1>2, <1>b, <2>4
    <3>2. w2[i] = w[i - 1] /\ w[i - 1] # t /\ w[i - 1] \in AllTasks
      BY <1>2, <1>4, <3>1
    <3>3. n = 0 \/ w[i - 1] # w[n]
      BY <1>a, <1>b, <3>1
    <3>4. M.next[w2[i]] = IF i < m + 1 THEN w[i] ELSE NULL
      BY <1>2, <1>3, <3>1, <3>2, <3>3
    <3>5. i < m + 1 => w2[i + 1] = w[i]
      <4>1. i < m + 1 => /\ i + 1 \in 1 .. m + 1 /\ ~ (i + 1 <= n) /\ i + 1 # n + 1
                         /\ (i + 1) - 1 = i
        BY <1>2, <1>b, <2>4
      <4> QED BY <1>4, <4>1
    <3> QED BY <3>4, <3>5
  <2> QED BY <1>b, <2>1, <2>2, <2>3, <2>4
<1>11. Chain(M, h2, w2)
  <2> HIDE DEF h2
  <2> QED BY <1>6, <1>7, <1>9, <1>10 DEF Chain
<1>12. \A r \in Priorities : Ring(M, rq[r], r)
  <2>1. \A r \in Priorities : \A u \in AllTasks : Holds(rq[r], u) =>
          M.next[u] = L.next[u] /\ M.prev[u] = L.prev[u]
    BY <1>1, <1>2, <1>3, <1>b
  <2>2. ASSUME NEW r \in Priorities PROVE Ring(M, rq[r], r)
    <3>1. Ring(L, rq[r], r) /\ M.run_queue[r] = L.run_queue[r]
      BY <1>1, <1>3
    <3>2. \A u \in AllTasks : Holds(rq[r], u) =>
            M.next[u] = L.next[u] /\ M.prev[u] = L.prev[u]
      BY <2>1
    <3> DEFINE q == rq[r]
    <3> HIDE DEF q
    <3>3. Ring(M, q, r)
      BY <3>1, <3>2, RingKept DEF q
    <3> QED BY <3>3 DEF q
  <2> QED BY <2>2
<1>13. Represents(M, rq, h2, w2)
  <2> HIDE DEF h2
  <2> QED BY <1>1, <1>3, <1>8, <1>11, <1>12 DEF Represents
<1> QED BY <1>3, <1>8, <1>13 DEF w2

-----------------------------------------------------------------------------
(* As long as no priority was raised, the links are the run queues of      *)
(* Scheduler and the wait list.                                            *)

\* In w a higher priority comes before a lower one.
Ordered(w, pr) == \A i, j \in 1 .. Len(w) : i < j => pr[w[i]] >= pr[w[j]]

\* The links, seen as the run queues and the wait list, and the tasks' states agree.
Lists ==
  /\ Represents(links, RunQueues, wait_head, Waiters)
  /\ \A t \in Tasks : /\ priority[t] = base_priority[t]
                      /\ state[t] = "BLOCKED" <=> pc[t] = "waiting"
                      /\ state[t] = "BLOCKED" <=> Holds(Waiters, t)
  /\ Ordered(Waiters, priority)

\* The invariant of the states in which no priority was raised.
Agree == Lists /\ SP!IndInv

\* The state functions read the lists back, before and after a step.
LEMMA ReadBack ==
  ASSUME NEW rq, NEW w, Represents(links, rq, wait_head, w)
  PROVE  RunQueues = rq /\ Waiters = w
<1>1. /\ Q!Walk(links, wait_head) = w
      /\ \A p \in Priorities : Q!Walk(links, links.run_queue[p]) = rq[p]
  BY WalksRead
<1>2. rq = [p \in Priorities |-> rq[p]]
  BY DEF Represents
<1>3. RunQueues = [p \in Priorities |-> Q!Walk(links, links.run_queue[p])]
  BY DEF RunQueues
<1> QED BY <1>1, <1>2, <1>3 DEF Waiters

\* The same after a step.
LEMMA ReadBackNext ==
  ASSUME NEW rq, NEW w, Represents(links', rq, wait_head', w)
  PROVE  RunQueues' = rq /\ Waiters' = w
<1>1. /\ Q!Walk(links', wait_head') = w
      /\ \A p \in Priorities : Q!Walk(links', links'.run_queue[p]) = rq[p]
  BY WalksRead
<1>2. rq = [p \in Priorities |-> rq[p]]
  BY DEF Represents
<1>3. RunQueues' = [p \in Priorities |-> Q!Walk(links', links'.run_queue[p])]
  BY DEF RunQueues
<1> QED BY <1>1, <1>2, <1>3 DEF Waiters

\* Following a null pointer elsewhere leaves the lists.
LEMMA CrashKeepsLists ==
  ASSUME Lists, links' = [links EXCEPT !.fault = TRUE], UNCHANGED wait_head
  PROVE  RunQueues' = RunQueues /\ Waiters' = Waiters
<1>1. /\ Represents(links, RunQueues, wait_head, Waiters)
      /\ links'.next = links.next /\ links'.run_queue = links.run_queue
  BY DEF Lists, Represents, LinkRecords
<1>2. ASSUME NEW M, M.next = links.next, M.run_queue = links.run_queue
      PROVE  /\ Q!Walk(M, wait_head) = Waiters
             /\ \A p \in Priorities : Q!Walk(M, M.run_queue[p]) = RunQueues[p]
  BY <1>1, <1>2, WalksKept
<1>3. /\ Q!Walk(links', wait_head') = Waiters
      /\ \A p \in Priorities : Q!Walk(links', links'.run_queue[p]) = RunQueues[p]
  BY <1>1, <1>2
<1>4. RunQueues = [p \in Priorities |-> RunQueues[p]]
  BY <1>1 DEF Represents
<1>5. RunQueues' = [p \in Priorities |-> Q!Walk(links', links'.run_queue[p])]
  BY DEF RunQueues
<1> QED BY <1>3, <1>4, <1>5 DEF Waiters

\* What the scheduler's invariant says of the tasks.
LEMMA Facts ==
  ASSUME Types, Agree
  PROVE  /\ links \in LinkRecords /\ Waiters \in Seq(Tasks) /\ Distinct(Waiters)
         /\ RunQueues \in [Priorities -> Seq(AllTasks)]
         /\ \A p \in Priorities : \A t \in AllTasks : Holds(RunQueues[p], t) =>
              /\ priority[t] = p
              /\ state[t] = "READY" \/ (t = Idle /\ state[t] = "RUNNING")
         /\ Holds(RunQueues[0], Idle) => RunQueues[0] = <<Idle>>
         /\ \A t \in Tasks : Holds(Waiters, t) => state[t] = "BLOCKED"
         /\ \A t \in AllTasks : Holds(Waiters, t) => t \in Tasks
         /\ \A t \in AllTasks : state[t] = "RUNNING" => t = current_task
         /\ state[Idle] \in {"READY", "RUNNING"} /\ priority[Idle] = 0
         /\ AppCode => me \in Tasks /\ state[me] = "RUNNING" /\ pc[me] # "waiting"
<1> USE SameDomains
<1>1. links \in LinkRecords /\ Waiters \in Seq(Tasks) /\ Distinct(Waiters)
      /\ RunQueues \in [Priorities -> Seq(AllTasks)]
  BY DEF Agree, Lists, Represents, Chain
<1>2. \A p \in Priorities : \A i \in 1 .. Len(RunQueues[p]) :
        /\ priority[RunQueues[p][i]] = p
        /\ \/ state[RunQueues[p][i]] = "READY"
           \/ RunQueues[p][i] = Idle /\ state[RunQueues[p][i]] = "RUNNING"
  BY DEF Agree, SP!IndInv, SP!RunQueueConsistent, SP!QueuedAreReady
<1>3. \A p \in Priorities : \A t \in AllTasks : Holds(RunQueues[p], t) =>
        /\ priority[t] = p
        /\ state[t] = "READY" \/ (t = Idle /\ state[t] = "RUNNING")
  BY <1>2 DEF Holds
<1>4. Holds(RunQueues[0], Idle) => RunQueues[0] = <<Idle>>
  <2>1. SP!TypeOK /\ SP!RunQueueConsistent /\ SP!IdleRunnable
    BY DEF Agree, SP!IndInv
  <2> QED BY <2>1, SP!IdleLevel, SchedulerAssumed DEF Holds
<1>5. \A t \in AllTasks : Holds(Waiters, t) => t \in Tasks
  BY <1>1 DEF Holds
<1>6. /\ \A t \in AllTasks : state[t] = "RUNNING" => t = current_task
      /\ state[current_task] # "RUNNING" => current_task \in about_to_yield
      /\ state[Idle] \in {"READY", "RUNNING"} /\ priority[Idle] = 0
  BY DEF Agree, SP!IndInv, SP!OneRunner, SP!IdleRunnable
<1>7. \A t \in Tasks : /\ Holds(Waiters, t) => state[t] = "BLOCKED"
                       /\ pc[t] = "waiting" => state[t] = "BLOCKED"
  BY DEF Agree, Lists
<1> QED BY <1>1, <1>3, <1>4, <1>5, <1>6, <1>7 DEF AppCode, me

\* sched_yield_from_isr does what the scheduler's specification says.
LEMMA YieldAgrees ==
  ASSUME Types, Agree, SchedYield(links, state), UNCHANGED wait_head
  PROVE  /\ SP!SchedYield
         /\ Represents(links', RunQueues', wait_head', Waiters') /\ Waiters' = Waiters
         /\ \A t \in Tasks : state'[t] = "BLOCKED" <=> state[t] = "BLOCKED"
<1> USE SameDomains
<1> DEFINE old == current_task
           queued == state[old] = "RUNNING"
           st2 == IF queued THEN [state EXCEPT ![old] = "READY"] ELSE state
           L2 == IF queued THEN Q!RqEnqueue(links, old, priority[old]) ELSE links
           rq2 == IF queued THEN SP!RqEnqueue(RunQueues, old, priority[old]) ELSE RunQueues
           bm2 == IF queued THEN SP!BitmapSet(links.bitmap, priority[old]) ELSE links.bitmap
<1>0. /\ old \in AllTasks /\ priority[old] \in Priorities
      /\ state \in [AllTasks -> {"NEW", "READY", "RUNNING", "BLOCKED"}]
      /\ Represents(links, RunQueues, wait_head, Waiters)
  BY DEF Types, TypeOK, Agree, Lists
<1>1. PICK hp \in Priorities :
        /\ IsPrioHighest(hp, L2.bitmap)
        /\ IF L2.fault \/ L2.run_queue[hp] = NULL
           THEN /\ links' = [L2 EXCEPT !.fault = TRUE]
                /\ state' = st2
                /\ UNCHANGED <<current_task, slice_ticks>>
           ELSE /\ links' = Q!RqRemove(L2, L2.run_queue[hp], priority[L2.run_queue[hp]])
                /\ state' = [st2 EXCEPT ![L2.run_queue[hp]] = "RUNNING"]
                /\ current_task' = L2.run_queue[hp]
                /\ slice_ticks' = TIME_SLICE_TICKS
  BY DEF SchedYield
<1>2. /\ Represents(L2, rq2, wait_head, Waiters) /\ L2.bitmap = bm2
      /\ \A r \in Priorities : \A u \in AllTasks :
           Holds(rq2[r], u) => priority[u] = r /\ st2[u] # "BLOCKED"
  <2>1. \A r \in Priorities : \A u \in AllTasks :
          Holds(RunQueues[r], u) => priority[u] = r /\ state[u] # "BLOCKED"
    BY Facts
  <2>2. CASE ~queued
    BY <1>0, <2>1, <2>2
  <2>3. CASE queued
    <3>1. ~Holds(Waiters, old)
      BY <1>0, <2>3, Facts
    <3>2. RunQueues[priority[old]] = <<old>> \/ \A r \in Priorities : ~Holds(RunQueues[r], old)
      <4>1. ASSUME NEW r \in Priorities, Holds(RunQueues[r], old)
            PROVE  RunQueues[priority[old]] = <<old>>
        <5>1. old = Idle /\ priority[old] = r /\ priority[Idle] = 0
          BY <1>0, <2>3, <4>1, Facts
        <5> QED BY <4>1, <5>1, Facts
      <4> QED BY <4>1
    <3>3. /\ Represents(Q!RqEnqueue(links, old, priority[old]),
                        SP!RqEnqueue(RunQueues, old, priority[old]), wait_head, Waiters)
          /\ Q!RqEnqueue(links, old, priority[old]).bitmap
               = SP!BitmapSet(links.bitmap, priority[old])
          /\ \A r \in Priorities : \A u \in AllTasks :
               Holds(SP!RqEnqueue(RunQueues, old, priority[old])[r], u) =>
                 Holds(RunQueues[r], u) \/ (u = old /\ r = priority[old])
      BY <1>0, <3>1, <3>2, EnqueueRepresents
    <3>4. \A u \in AllTasks : st2[u] = IF u = old THEN "READY" ELSE state[u]
      BY <1>0, <2>3
    <3> QED BY <2>1, <2>3, <3>3, <3>4
  <2> QED BY <2>2, <2>3
<1>3. st2 \in [AllTasks -> {"NEW", "READY", "RUNNING", "BLOCKED"}]
      /\ \A t \in Tasks : st2[t] = "BLOCKED" <=> state[t] = "BLOCKED"
  <2>1. CASE queued
    <3>1. st2 = [state EXCEPT ![old] = "READY"]
      BY <2>1
    <3> HIDE DEF st2
    <3> QED BY <1>0, <2>1, <3>1, Domains
  <2>2. CASE ~queued
    BY <1>0, <2>2
  <2> QED BY <2>1, <2>2
<1> DEFINE new == L2.run_queue[hp]
           M == Q!RqRemove(L2, new, hp)
           rq3 == SP!RqRemoveHead(rq2, hp)
<1>4. ~L2.fault /\ hp \in L2.bitmap
  BY <1>1, <1>2 DEF Represents, IsPrioHighest
<1>5. /\ new \in AllTasks /\ new = Head(rq2[hp]) /\ Holds(rq2[hp], new)
      /\ Represents(M, rq3, wait_head, Waiters)
      /\ M.bitmap = SP!BitmapRemoveHead(L2.bitmap, rq2, hp)
  <2> HIDE DEF L2, rq2
  <2> QED BY <1>2, <1>4, DequeueRepresents
<1>6. new # NULL /\ priority[new] = hp /\ st2[new] # "BLOCKED"
  <2> HIDE DEF new, rq2, st2
  <2> QED BY <1>2, <1>5, Domains
<1>7. /\ links' = M
      /\ state' = [st2 EXCEPT ![new] = "RUNNING"]
      /\ current_task' = new
      /\ slice_ticks' = TIME_SLICE_TICKS
  <2> HIDE DEF L2, st2
  <2> QED BY <1>1, <1>4, <1>6
<1>8. RunQueues' = rq3 /\ Waiters' = Waiters
  <2>1. Represents(links', rq3, wait_head', Waiters)
    BY <1>5, <1>7
  <2> HIDE DEF rq3
  <2> QED BY <2>1, ReadBackNext
<1>9. SP!SchedYield
  <2>1. SP!IsPrioHighest(hp, bm2)
    BY <1>1, <1>2 DEF IsPrioHighest, SP!IsPrioHighest
  <2>2. /\ current_task' = Head(rq2[hp])
        /\ state' = [st2 EXCEPT ![Head(rq2[hp])] = "RUNNING"]
        /\ RunQueues' = SP!RqRemoveHead(rq2, hp)
        /\ links'.bitmap = SP!BitmapRemoveHead(bm2, rq2, hp)
        /\ slice_ticks' = TIME_SLICE_TICKS
    <3> HIDE DEF new, L2, rq2, bm2, st2
    <3> QED BY <1>2, <1>5, <1>7, <1>8
  <2>3. queued <=> SP!Requeued
    BY DEF SP!Requeued
  <2> HIDE DEF queued
  <2>4. hp \in SP!Priorities
    OBVIOUS
  <2> QED BY <2>1, <2>2, <2>3, <2>4 DEF SP!SchedYield
<1>10. \A t \in Tasks : state'[t] = "BLOCKED" <=> state[t] = "BLOCKED"
  <2> HIDE DEF new, st2
  <2> QED BY <1>3, <1>6, <1>7, Domains
<1> QED BY <1>5, <1>7, <1>8, <1>9, <1>10
\* The wait list's insertion links the running task behind the n-th waiter.
LEMMA InsertIsLinked ==
  ASSUME links \in LinkRecords, Waiters \in Seq(Tasks), me \in Tasks, ~Holds(Waiters, me),
         NEW n \in 0 .. Len(Waiters), InsertWaiter(n)
  PROVE  /\ Linked(links, links', Waiters, n, me)
         /\ wait_head' = IF n = 0 THEN me ELSE wait_head
<1> DEFINE w == Waiters
           following == IF n < Len(w) THEN w[n + 1] ELSE NULL
           f == IF n = 0 THEN [links.next EXCEPT ![me] = following]
                ELSE [links.next EXCEPT ![me] = following, ![w[n]] = me]
<1>1. /\ wait_head' = IF n = 0 THEN me ELSE wait_head
      /\ links' = [links EXCEPT !.next = f]
  BY DEF InsertWaiter
<1>2. links.next \in [AllTasks -> Pointers]
  BY DEF LinkRecords
<1>3. /\ me \in AllTasks /\ me \in Pointers /\ following \in Pointers
      /\ n # 0 => n \in 1 .. Len(w) /\ w[n] \in AllTasks /\ w[n] # me
  <2>1. (n # 0 => n \in 1 .. Len(w)) /\ (n < Len(w) => n + 1 \in 1 .. Len(w))
    OBVIOUS
  <2>2. \A i \in 1 .. Len(w) : w[i] \in Tasks /\ w[i] # me
    BY DEF Holds
  <2> HIDE DEF w
  <2> QED BY <2>1, <2>2, Domains
<1> HIDE DEF following
<1>4. /\ f \in [AllTasks -> Pointers] /\ f[me] = following
      /\ n # 0 => f[w[n]] = me
      /\ \A u \in AllTasks : u # me /\ (n = 0 \/ u # w[n]) => f[u] = links.next[u]
  <2> HIDE DEF w
  <2>1. CASE n = 0
    <3>1. f = [links.next EXCEPT ![me] = following]
      BY <2>1
    <3> HIDE DEF f
    <3> QED BY <1>2, <1>3, <2>1, <3>1
  <2>2. CASE n # 0
    <3>1. f = [links.next EXCEPT ![me] = following, ![w[n]] = me]
      BY <2>2
    <3> HIDE DEF f
    <3> QED BY <1>2, <1>3, <2>2, <3>1
  <2> QED BY <2>1, <2>2
<1> HIDE DEF f
<1>5. /\ links' \in LinkRecords /\ links'.fault = links.fault
      /\ links'.bitmap = links.bitmap /\ links'.run_queue = links.run_queue
      /\ links'.prev = links.prev /\ links'.next = f
  BY <1>1, <1>4 DEF LinkRecords
<1> QED BY <1>1, <1>4, <1>5 DEF Linked, following

\* The initial links are the idle task's.
LEMMA AgreeInit == Init => Agree /\ SP!Init
<1> SUFFICES ASSUME Init PROVE Agree /\ SP!Init
  OBVIOUS
<1> USE SameDomains
<1> DEFINE E == Q!EmptyLinks
           rq0 == [p \in Priorities |-> <<>>]
           rq1 == SP!RqEnqueue(rq0, Idle, 0)
<1>1. Represents(E, rq0, NULL, <<>>)
  <2>1. /\ E \in LinkRecords /\ ~E.fault /\ E.bitmap = {}
        /\ E.run_queue = [p \in Priorities |-> NULL]
    BY Domains DEF Q!EmptyLinks, LinkRecords
  <2>2. rq0 \in [Priorities -> Seq(AllTasks)] /\ \A p \in Priorities : rq0[p] = <<>>
    OBVIOUS
  <2>3. ~Holds(<<>>, 0) /\ \A t : ~Holds(<<>>, t)
    BY DEF Holds
  <2>4. Distinct(<<>>) /\ HeadOf(<<>>) = NULL
    BY DEF Distinct, HeadOf
  <2> HIDE DEF E, rq0
  <2>5. ASSUME NEW p \in Priorities PROVE Ring(E, rq0[p], p)
    BY <2>1, <2>2, <2>4 DEF Ring
  <2>6. Chain(E, NULL, <<>>)
    BY <2>4 DEF Chain
  <2> QED BY <2>1, <2>2, <2>3, <2>5, <2>6 DEF Represents
<1>2. ~Holds(<<>>, Idle) /\ (rq0[0] = <<Idle>> \/ \A p \in Priorities : ~Holds(rq0[p], Idle))
  BY DEF Holds
<1>3. Represents(links, rq1, wait_head, <<>>) /\ links.bitmap = SP!BitmapSet(E.bitmap, 0)
  <2>1. links = Q!RqEnqueue(E, Idle, 0) /\ wait_head = NULL
    BY DEF Init
  <2> HIDE DEF E, rq0
  <2> QED BY <1>1, <1>2, <2>1, Domains, EnqueueRepresents
<1>4. RunQueues = rq1 /\ Waiters = <<>>
  <2> HIDE DEF rq1
  <2> QED BY <1>3, ReadBack
<1>5. rq1 = [p \in Priorities |-> IF p = 0 THEN <<Idle>> ELSE <<>>]
  BY Domains DEF SP!RqEnqueue
<1>6. links.bitmap = {0}
  BY <1>3, Domains DEF SP!BitmapSet, Q!EmptyLinks
<1>7. SP!Init
  <2> HIDE DEF rq1
  <2> QED BY <1>4, <1>5, <1>6 DEF Init, SP!Init
<1>8. SP!IndInv
  BY <1>7, SP!InitIndInv, SchedulerAssumed
<1>9. Lists
  <2>1. \A t \in Tasks : /\ priority[t] = base_priority[t]
                         /\ state[t] # "BLOCKED" /\ pc[t] # "waiting"
    BY Domains DEF Init
  <2>2. \A t : ~Holds(<<>>, t)
    BY DEF Holds
  <2>3. Ordered(<<>>, priority)
    BY DEF Ordered
  <2> HIDE DEF rq1
  <2>4. Represents(links, RunQueues, wait_head, Waiters)
    BY <1>3, <1>4
  <2> QED BY <1>4, <2>1, <2>2, <2>3, <2>4 DEF Lists
<1> QED BY <1>7, <1>8, <1>9 DEF Agree

\* A step that leaves the links and what they hold as they are.
LEMMA ListsSame ==
  ASSUME Lists, UNCHANGED <<links, wait_head, state, priority, base_priority>>,
         \A t \in Tasks : pc'[t] = "waiting" <=> pc[t] = "waiting"
  PROVE  Lists' /\ RunQueues' = RunQueues
<1>1. Represents(links', RunQueues, wait_head', Waiters)
  BY DEF Lists
<1>2. RunQueues' = RunQueues /\ Waiters' = Waiters
  BY <1>1, ReadBackNext
<1>3. Represents(links', RunQueues', wait_head', Waiters')
  BY <1>1, <1>2
<1>4. Ordered(Waiters', priority')
  BY <1>2 DEF Lists
<1>5. \A t \in Tasks : /\ priority'[t] = base_priority'[t]
                       /\ state'[t] = "BLOCKED" <=> pc'[t] = "waiting"
                       /\ state'[t] = "BLOCKED" <=> Holds(Waiters', t)
  BY <1>2 DEF Lists
<1> QED BY <1>2, <1>3, <1>4, <1>5 DEF Lists

\* A call's step that the scheduler does not see.
LEMMA CallStep ==
  ASSUME Types, Agree, UNCHANGED <<links, schedVars, wait_head>>, AppCode,
         NEW l \in Locations \ {"waiting"}, pc' = [pc EXCEPT ![me] = l]
  PROVE  Lists' /\ UNCHANGED SP!schedVars
<1>1. me \in Tasks /\ pc[me] # "waiting" /\ pc \in [Tasks -> Locations]
  BY Facts DEF Types, TypeOK
<1>2. \A t \in Tasks : pc'[t] = "waiting" <=> pc[t] = "waiting"
  BY <1>1
<1>3. Lists' /\ RunQueues' = RunQueues
  BY <1>2, ListsSame DEF Agree, schedVars
<1> QED BY <1>3 DEF schedVars, SP!schedVars

\* Steps that yield.
LEMMA YieldStepLists ==
  ASSUME Types, Agree, SchedYield(links, state), UNCHANGED <<wait_head, priority, base_priority>>,
         \A t \in Tasks : pc'[t] = "waiting" <=> pc[t] = "waiting"
  PROVE  Lists' /\ SP!SchedYield
<1>1. /\ SP!SchedYield
      /\ Represents(links', RunQueues', wait_head', Waiters') /\ Waiters' = Waiters
      /\ \A t \in Tasks : state'[t] = "BLOCKED" <=> state[t] = "BLOCKED"
  BY YieldAgrees
<1>2. Ordered(Waiters', priority')
  BY <1>1 DEF Agree, Lists
<1>3. \A t \in Tasks : /\ priority'[t] = base_priority'[t]
                       /\ state'[t] = "BLOCKED" <=> pc'[t] = "waiting"
                       /\ state'[t] = "BLOCKED" <=> Holds(Waiters', t)
  BY <1>1 DEF Agree, Lists
<1> QED BY <1>1, <1>2, <1>3 DEF Lists

\* task_create links the new task in its level.
LEMMA CreateAgrees ==
  ASSUME Types, Agree, NEW t \in Tasks, NEW p \in BasePriorities, TaskCreate(t, p)
  PROVE  Lists' /\ SP!TaskCreate(t, p)
<1> USE SameDomains
<1>1. /\ TaskCode /\ current_task \notin about_to_yield /\ state[t] = "NEW"
      /\ state' = [state EXCEPT ![t] = "READY"]
      /\ priority' = [priority EXCEPT ![t] = p]
      /\ base_priority' = [base_priority EXCEPT ![t] = p]
      /\ links' = Q!RqEnqueue(links, t, p)
      /\ UNCHANGED <<current_task, slice_ticks, about_to_yield, isr, rearm_pending, wait_head, pc>>
  BY DEF TaskCreate, mutexVars, callVars
<1>2. p \in 1 .. MaxPriority /\ p \in Priorities /\ t \in AllTasks /\ t # Idle
  BY KMutexAssumption, Domains
<1>3. /\ state \in [AllTasks -> {"NEW", "READY", "RUNNING", "BLOCKED"}]
      /\ priority \in [AllTasks -> Priorities] /\ base_priority \in [AllTasks -> Priorities]
  BY DEF Types, TypeOK
<1>4. ~Holds(Waiters, t) /\ \A r \in Priorities : ~Holds(RunQueues[r], t)
  BY <1>1, <1>2, Facts
<1>5. /\ Represents(links', SP!RqEnqueue(RunQueues, t, p), wait_head', Waiters)
      /\ links'.bitmap = SP!BitmapSet(links.bitmap, p)
  <2>1. Represents(links, RunQueues, wait_head, Waiters)
    BY DEF Agree, Lists
  <2>2. /\ Represents(Q!RqEnqueue(links, t, p), SP!RqEnqueue(RunQueues, t, p), wait_head, Waiters)
        /\ Q!RqEnqueue(links, t, p).bitmap = SP!BitmapSet(links.bitmap, p)
    BY <1>2, <1>4, <2>1, EnqueueRepresents
  <2> QED BY <1>1, <2>2
<1>6. RunQueues' = SP!RqEnqueue(RunQueues, t, p) /\ Waiters' = Waiters
  BY <1>5, ReadBackNext
<1>7. SP!TaskCreate(t, p)
  BY <1>1, <1>5, <1>6 DEF SP!TaskCreate, TaskCode, SP!TaskCode
<1>8. Lists'
  <2>1. Represents(links', RunQueues', wait_head', Waiters')
    BY <1>5, <1>6
  <2>2. \A u \in Tasks : /\ u \in AllTasks
                         /\ u # t => /\ priority'[u] = priority[u] /\ state'[u] = state[u]
                                     /\ base_priority'[u] = base_priority[u]
                         /\ u = t => priority'[u] = base_priority'[u] /\ state'[u] = "READY"
    BY <1>1, <1>2, <1>3, Domains
  <2>3. \A u \in Tasks : /\ priority'[u] = base_priority'[u]
                         /\ state'[u] = "BLOCKED" <=> pc'[u] = "waiting"
                         /\ state'[u] = "BLOCKED" <=> Holds(Waiters', u)
    BY <1>1, <1>4, <1>6, <2>2 DEF Agree, Lists
  <2>4. \A i \in 1 .. Len(Waiters) : Waiters[i] \in Tasks /\ Waiters[i] # t
    BY <1>4, Facts DEF Holds
  <2>5. Ordered(Waiters', priority')
    BY <1>6, <2>2, <2>4 DEF Agree, Lists, Ordered
  <2> QED BY <2>1, <2>3, <2>5 DEF Lists
<1> QED BY <1>7, <1>8

\* The insertion behind the waiters whose priority is not lower keeps the order.
LEMMA InsertOrdered ==
  ASSUME NEW w \in Seq(Tasks), NEW pr \in [AllTasks -> Priorities], NEW t \in Tasks,
         NEW n \in 0 .. Len(w), Ordered(w, pr),
         \A i \in 1 .. n : pr[w[i]] >= pr[t],
         n < Len(w) => pr[w[n + 1]] < pr[t]
  PROVE  Ordered(Inserted(w, n, t), pr)
<1> DEFINE m == Len(w)
           v == Inserted(w, n, t)
<1>1. m \in Nat /\ n \in Nat /\ n <= m
  OBVIOUS
<1>2. /\ Len(v) = m + 1
      /\ \A i \in 1 .. m + 1 :
           v[i] = IF i <= n THEN w[i] ELSE IF i = n + 1 THEN t ELSE w[i - 1]
  BY <1>1 DEF Inserted
<1>3. \A u \in Tasks : pr[u] \in Int
  BY Domains DEF Priorities
<1>4. \A i \in 1 .. m : w[i] \in Tasks /\ pr[w[i]] \in Int
  BY <1>3
<1>5. pr[t] \in Int
  BY <1>3
<1>6. \A i, j \in 1 .. m : i < j => pr[w[i]] >= pr[w[j]]
  BY DEF Ordered
<1>7. \A i \in 1 .. m : n < i => pr[w[i]] < pr[t]
  <2> SUFFICES ASSUME NEW i \in 1 .. m, n < i PROVE pr[w[i]] < pr[t]
    OBVIOUS
  <2>1. n + 1 \in 1 .. m /\ pr[w[n + 1]] < pr[t]
    BY <1>1
  <2>2. i = n + 1 \/ pr[w[n + 1]] >= pr[w[i]]
    <3>1. i = n + 1 \/ n + 1 < i
      BY <1>1
    <3> QED BY <1>6, <2>1, <3>1
  <2>3. pr[w[n + 1]] \in Int /\ pr[w[i]] \in Int
    BY <1>4, <2>1
  <2> HIDE DEF m
  <2> QED BY <1>5, <2>1, <2>2, <2>3
<1> HIDE DEF m, v
<1>8. ASSUME NEW i \in 1 .. m + 1, NEW j \in 1 .. m + 1, i < j
      PROVE  pr[v[i]] >= pr[v[j]]
  <2>1. CASE j <= n
    <3>1. i \in 1 .. m /\ j \in 1 .. m /\ v[i] = w[i] /\ v[j] = w[j]
      BY <1>1, <1>2, <1>8, <2>1
    <3> QED BY <1>6, <1>8, <3>1
  <2>2. CASE j = n + 1
    <3>1. i \in 1 .. n /\ v[i] = w[i] /\ v[j] = t
      BY <1>1, <1>2, <1>8, <2>2
    <3> QED BY <3>1
  <2>3. CASE j > n + 1
    <3>1. j - 1 \in 1 .. m /\ n < j - 1 /\ v[j] = w[j - 1]
      BY <1>1, <1>2, <1>8, <2>3
    <3>2. CASE i <= n
      <4>1. i \in 1 .. m /\ i < j - 1 /\ v[i] = w[i]
        BY <1>1, <1>2, <1>8, <2>3, <3>2
      <4> QED BY <1>6, <3>1, <4>1
    <3>3. CASE i = n + 1
      <4>1. v[i] = t
        BY <1>1, <1>2, <3>3
      <4>2. pr[w[j - 1]] < pr[t] /\ pr[w[j - 1]] \in Int
        BY <1>4, <1>7, <3>1
      <4> QED BY <1>5, <3>1, <4>1, <4>2
    <3>4. CASE i > n + 1
      <4>1. i - 1 \in 1 .. m /\ i - 1 < j - 1 /\ v[i] = w[i - 1]
        BY <1>1, <1>2, <1>8, <3>4
      <4> QED BY <1>6, <3>1, <4>1
    <3> QED BY <1>1, <3>2, <3>3, <3>4
  <2> QED BY <1>1, <2>1, <2>2, <2>3
<1> QED BY <1>2, <1>8 DEF Ordered, v

\* A task that has to wait is linked into the wait list and blocks.
LEMMA BlockAgrees ==
  ASSUME Types, Agree, Block
  PROVE  Lists' /\ SP!TaskBlock
<1> USE SameDomains
<1>1. /\ AppCode /\ state' = [state EXCEPT ![me] = "BLOCKED"]
      /\ about_to_yield' = about_to_yield \cup {me}
      /\ pc' = [pc EXCEPT ![me] = "waiting"]
      /\ UNCHANGED <<priority, base_priority, current_task, slice_ticks, isr, rearm_pending>>
  BY DEF Block, Executes, GoTo
<1>2. PICK n \in 0 .. Len(Waiters) :
        /\ \A i \in 1 .. n : priority[Waiters[i]] >= priority[me]
        /\ n < Len(Waiters) => priority[Waiters[n + 1]] < priority[me]
        /\ InsertWaiter(n)
  BY DEF Block
<1>3. /\ me \in Tasks /\ state[me] = "RUNNING" /\ me \in AllTasks /\ me # Idle
      /\ links \in LinkRecords /\ Waiters \in Seq(Tasks)
  BY <1>1, Facts, Domains
<1>4. ~Holds(Waiters, me) /\ \A r \in Priorities : ~Holds(RunQueues[r], me)
  BY <1>3, Facts
<1>5. /\ state \in [AllTasks -> {"NEW", "READY", "RUNNING", "BLOCKED"}]
      /\ priority \in [AllTasks -> Priorities] /\ pc \in [Tasks -> Locations]
      /\ Represents(links, RunQueues, wait_head, Waiters) /\ Ordered(Waiters, priority)
  BY DEF Types, TypeOK, Agree, Lists
<1>6. /\ Linked(links, links', Waiters, n, me)
      /\ wait_head' = IF n = 0 THEN me ELSE wait_head
  BY <1>2, <1>3, <1>4, InsertIsLinked
<1> DEFINE v == Inserted(Waiters, n, me)
<1>7. /\ Represents(links', RunQueues, wait_head', v)
      /\ \A u : Holds(v, u) <=> Holds(Waiters, u) \/ u = me
      /\ links'.bitmap = links.bitmap
  BY <1>3, <1>4, <1>5, <1>6, InsertRepresents
<1>8. Ordered(v, priority)
  BY <1>2, <1>3, <1>5, InsertOrdered
<1> HIDE DEF v
<1>9. RunQueues' = RunQueues /\ Waiters' = v
  BY <1>7, ReadBackNext
<1>10. SP!TaskBlock
  BY <1>1, <1>7, <1>9 DEF SP!TaskBlock, AppCode, SP!AppCode, TaskCode, SP!TaskCode, me
<1>11. Lists'
  <2>1. Represents(links', RunQueues', wait_head', Waiters') /\ Ordered(Waiters', priority')
    BY <1>1, <1>7, <1>8, <1>9
  <2>2. \A t \in Tasks : /\ t # me => state'[t] = state[t] /\ pc'[t] = pc[t]
                         /\ t = me => state'[t] = "BLOCKED" /\ pc'[t] = "waiting"
    BY <1>1, <1>3, <1>5, Domains
  <2>3. \A t \in Tasks : Holds(Waiters', t) <=> Holds(Waiters, t) \/ t = me
    BY <1>7, <1>9
  <2>4. \A t \in Tasks : /\ priority'[t] = base_priority'[t]
                         /\ state'[t] = "BLOCKED" <=> pc'[t] = "waiting"
                         /\ state'[t] = "BLOCKED" <=> Holds(Waiters', t)
    BY <1>1, <2>2, <2>3 DEF Agree, Lists
  <2> QED BY <2>1, <2>4 DEF Lists
<1> QED BY <1>10, <1>11

\* An unlock without a waiter changes no queue; one that finds a waiter hands it
\* from the wait list to its run queue.
LEMMA UnlockAgrees ==
  ASSUME Types, Agree, Unlock
  PROVE  /\ Lists'
         /\ UNCHANGED SP!schedVars \/ \E t \in Tasks : SP!TaskWake(t)
<1> USE SameDomains
<1>1. /\ AppCode /\ owner = me /\ priority' = PrioritiesRestored
      /\ UNCHANGED <<base_priority, current_task, slice_ticks, isr, rearm_pending>>
  BY DEF Unlock, IsOwner
<1>2. /\ me \in Tasks /\ state[me] = "RUNNING" /\ pc[me] # "waiting"
      /\ links \in LinkRecords /\ Waiters \in Seq(Tasks)
  BY <1>1, Facts
<1>3. /\ state \in [AllTasks -> {"NEW", "READY", "RUNNING", "BLOCKED"}]
      /\ priority \in [AllTasks -> Priorities] /\ pc \in [Tasks -> Locations]
      /\ Represents(links, RunQueues, wait_head, Waiters) /\ Ordered(Waiters, priority)
  BY DEF Types, TypeOK, Agree, Lists
<1>4. priority' = priority
  <2>1. priority[me] = base_priority[me]
    BY <1>2 DEF Agree, Lists
  <2>2. \A t \in AllTasks : (IF t = owner THEN base_priority[t] ELSE priority[t]) = priority[t]
    BY <1>1, <2>1
  <2> QED BY <1>1, <1>3, <2>2 DEF PrioritiesRestored
<1>5. CASE wait_head = NULL
  <2>1. /\ pc' = [pc EXCEPT ![me] = "unlocked"]
        /\ UNCHANGED <<links, state, about_to_yield, wait_head>>
    BY <1>5 DEF Unlock, GoTo
  <2>2. \A t \in Tasks : pc'[t] = "waiting" <=> pc[t] = "waiting"
    BY <1>2, <1>3, <2>1
  <2>3. Lists' /\ RunQueues' = RunQueues
    BY <1>1, <1>4, <2>1, <2>2, ListsSame DEF Agree
  <2> QED BY <1>1, <1>4, <2>1, <2>3 DEF SP!schedVars
<1>6. CASE wait_head # NULL
  <2> DEFINE t == wait_head
             p == priority[t]
             v == Tail(Waiters)
  <2>1. /\ wait_head' = links.next[t]
        /\ state' = [state EXCEPT ![t] = "READY"]
        /\ links' = Q!RqEnqueue(links, t, p)
        /\ about_to_yield' = about_to_yield \cup {me}
        /\ pc' = [pc EXCEPT ![t] = "cas", ![me] = "outside"]
    BY <1>6 DEF Unlock, Rest
  <2>2. /\ t \in Tasks /\ Holds(Waiters, t)
        /\ Represents(links, RunQueues, links.next[t], v)
        /\ \A u : Holds(v, u) <=> Holds(Waiters, u) /\ u # t
        /\ v \in Seq(Tasks) /\ Len(v) = Len(Waiters) - 1 /\ Len(Waiters) \in Nat \ {0}
        /\ \A i \in 1 .. Len(Waiters) - 1 : v[i] = Waiters[i + 1]
    BY <1>3, <1>6, RestRepresents
  <2> HIDE DEF v
  <2>3. /\ state[t] = "BLOCKED" /\ t # me /\ t \in AllTasks /\ t # Idle /\ p \in Priorities
    BY <1>2, <1>3, <2>2, Facts, Domains
  <2>4. ~Holds(v, t) /\ \A r \in Priorities : ~Holds(RunQueues[r], t)
    BY <2>2, <2>3, Facts
  <2>5. /\ Represents(links', SP!RqEnqueue(RunQueues, t, p), wait_head', v)
        /\ links'.bitmap = SP!BitmapSet(links.bitmap, p)
    <3> HIDE DEF t, p
    <3>1. /\ Represents(Q!RqEnqueue(links, t, p), SP!RqEnqueue(RunQueues, t, p), links.next[t], v)
          /\ Q!RqEnqueue(links, t, p).bitmap = SP!BitmapSet(links.bitmap, p)
      BY <2>2, <2>3, <2>4, EnqueueRepresents
    <3> QED BY <2>1, <3>1
  <2>6. RunQueues' = SP!RqEnqueue(RunQueues, t, p) /\ Waiters' = v
    BY <2>5, ReadBackNext
  <2>7. SP!TaskWake(t)
    BY <1>1, <1>4, <2>1, <2>3, <2>5, <2>6
       DEF SP!TaskWake, AppCode, SP!AppCode, TaskCode, SP!TaskCode, me
  <2>8. Lists'
    <3>1. Represents(links', RunQueues', wait_head', Waiters')
      BY <2>5, <2>6
    <3>2. \A u \in Tasks : /\ u # t => state'[u] = state[u] /\ (u # me => pc'[u] = pc[u])
                           /\ u = t => state'[u] = "READY" /\ pc'[u] = "cas"
                           /\ u = me => pc'[u] = "outside"
      <4> HIDE DEF t
      <4> QED BY <1>2, <1>3, <2>1, <2>2, <2>3, Domains
    <3>3. \A u \in Tasks : Holds(Waiters', u) <=> Holds(Waiters, u) /\ u # t
      BY <2>2, <2>6
    <3>4. \A u \in Tasks : /\ priority'[u] = base_priority'[u]
                           /\ state'[u] = "BLOCKED" <=> pc'[u] = "waiting"
                           /\ state'[u] = "BLOCKED" <=> Holds(Waiters', u)
      <4> HIDE DEF t
      <4> QED BY <1>1, <1>2, <1>4, <3>2, <3>3 DEF Agree, Lists
    <3>5. Ordered(v, priority)
      <4>1. \A i \in 1 .. Len(v) : v[i] = Waiters[i + 1] /\ i + 1 \in 1 .. Len(Waiters)
        BY <2>2
      <4>2. \A i, j \in 1 .. Len(v) : i < j => i + 1 < j + 1
        OBVIOUS
      <4> QED BY <1>3, <4>1, <4>2 DEF Ordered
    <3> QED BY <1>4, <2>6, <3>1, <3>4, <3>5 DEF Lists
  <2> QED BY <2>2, <2>7, <2>8
<1> QED BY <1>5, <1>6

\* What a step leaves is what a step of the scheduler leaves, or what there was.
LEMMA StepAgrees ==
  ASSUME Types, Agree, ~raised', [Next]_vars, Compare => ~links'.fault
  PROVE  Lists' /\ (SP!Next \/ UNCHANGED SP!schedVars)
<1> USE DEF mutexVars, callVars
<1>0. Lists /\ pc \in [Tasks -> Locations] /\ TIME_SLICE_TICKS \in Nat
  BY KMutexAssumption DEF Agree, Types, TypeOK
<1>1. CASE UNCHANGED vars
  <2>1. UNCHANGED <<links, wait_head, state, priority, base_priority, current_task, slice_ticks,
                    about_to_yield, isr, rearm_pending, pc>>
    BY <1>1 DEF vars, schedVars
  <2>2. Lists' /\ RunQueues' = RunQueues
    BY <1>0, <2>1, ListsSame
  <2> QED BY <2>1, <2>2 DEF SP!schedVars
<1>2. ASSUME NEW t \in Tasks, NEW p \in BasePriorities, TaskCreate(t, p)
      PROVE  Lists' /\ SP!Next
  <2>1. Lists' /\ SP!TaskCreate(t, p) /\ p \in 1 .. MaxPriority
    BY <1>2, CreateAgrees, KMutexAssumption
  <2> QED BY <2>1 DEF SP!Next
<1>3. CASE TaskYield
  <2>1. /\ AppCode /\ SchedYield(links, state)
        /\ pc[me] \in {"outside", "inside", "unlocked"}
        /\ pc' = [pc EXCEPT ![me] = IF @ = "unlocked" THEN "outside" ELSE @]
        /\ UNCHANGED <<priority, base_priority, about_to_yield, isr, rearm_pending, wait_head>>
    BY <1>3 DEF TaskYield, me
  <2>2. \A t \in Tasks : pc'[t] = "waiting" <=> pc[t] = "waiting"
    BY <1>0, <2>1
  <2>3. Lists' /\ SP!SchedYield
    BY <2>1, <2>2, YieldStepLists
  <2>4. SP!TaskYield
    BY <2>1, <2>3 DEF SP!TaskYield, AppCode, SP!AppCode, TaskCode, SP!TaskCode
  <2> QED BY <2>3, <2>4 DEF SP!Next
<1>4. CASE YieldAfter
  <2>1. /\ TaskCode /\ current_task \in about_to_yield /\ SchedYield(links, state)
        /\ about_to_yield' = about_to_yield \ {current_task}
        /\ UNCHANGED <<priority, base_priority, isr, rearm_pending, wait_head, pc>>
    BY <1>4 DEF YieldAfter
  <2>2. Lists' /\ SP!SchedYield
    BY <2>1, YieldStepLists
  <2>3. SP!YieldAfter
    BY <2>1, <2>2 DEF SP!YieldAfter, TaskCode, SP!TaskCode
  <2> QED BY <2>2, <2>3 DEF SP!Next
<1>5. CASE TickEnter
  <2>1. /\ TaskCode /\ isr' = "wake"
        /\ UNCHANGED <<links, wait_head, state, priority, base_priority, current_task, slice_ticks,
                       about_to_yield, rearm_pending, pc>>
    BY <1>5 DEF TickEnter
  <2>2. Lists' /\ RunQueues' = RunQueues
    BY <1>0, <2>1, ListsSame
  <2>3. \A t \in AllTasks : state[t] # "SLEEPING"
    BY DEF Types, TypeOK
  <2>4. SP!TickEnter
    BY <2>1, <2>2, <2>3, SameDomains DEF SP!TickEnter, TaskCode, SP!TaskCode
  <2> QED BY <2>2, <2>4 DEF SP!Next, SP!Tick
<1>6. CASE TickReturn
  <2>1. /\ isr = "wake" /\ ~MustPreempt /\ slice_ticks' = SliceLeft /\ isr' = "none"
        /\ UNCHANGED <<links, wait_head, state, priority, base_priority, current_task,
                       about_to_yield, rearm_pending, pc>>
    BY <1>6 DEF TickReturn
  <2>2. Lists' /\ RunQueues' = RunQueues
    BY <1>0, <2>1, ListsSame
  <2>3. SP!TickReturn
    BY <2>1, <2>2 DEF SP!TickReturn, SP!SleeperDue, MustPreempt, SP!MustPreempt,
                      SliceLeft, SP!SliceLeft
  <2> QED BY <2>2, <2>3 DEF SP!Next, SP!Tick
<1>7. CASE TickPreempt
  <2>1. /\ isr = "wake" /\ MustPreempt /\ SchedYield(links, state) /\ isr' = "none"
        /\ rearm_pending' = IF current_task' = current_task THEN rearm_pending
                            ELSE rearm_pending \cup {current_task}
        /\ UNCHANGED <<priority, base_priority, about_to_yield, wait_head, pc>>
    BY <1>7 DEF TickPreempt
  <2>2. Lists' /\ SP!SchedYield
    BY <2>1, YieldStepLists
  <2>3. SP!TickPreempt
    BY <2>1, <2>2 DEF SP!TickPreempt, SP!SleeperDue, MustPreempt, SP!MustPreempt,
                      SliceLeft, SP!SliceLeft
  <2> QED BY <2>2, <2>3 DEF SP!Next, SP!Tick
<1>8. CASE TickResume
  <2>1. /\ isr = "none" /\ current_task \in rearm_pending
        /\ rearm_pending' = rearm_pending \ {current_task}
        /\ UNCHANGED <<links, wait_head, state, priority, base_priority, current_task, slice_ticks,
                       about_to_yield, isr, pc>>
    BY <1>8 DEF TickResume
  <2>2. Lists' /\ RunQueues' = RunQueues
    BY <1>0, <2>1, ListsSame
  <2>3. SP!TickResume
    BY <2>1, <2>2 DEF SP!TickResume
  <2> QED BY <2>2, <2>3 DEF SP!Next, SP!Tick
<1>9. CASE (\E ms \in LockTimeouts : LockCall(ms)) \/ Cas \/ Own \/ BoostTest \/ GiveUp \/ GoOn
  <2>1. /\ AppCode /\ UNCHANGED <<links, schedVars, wait_head>>
        /\ \E l \in Locations \ {"waiting"} : pc' = [pc EXCEPT ![me] = l]
    BY <1>9 DEF LockCall, Cas, Own, BoostTest, GiveUp, GoOn, Executes, GoTo, Locations
  <2> QED BY <2>1, CallStep
<1>13. CASE Compare
  <2>1. links \in LinkRecords
    BY DEF Types, TypeOK, LinkRecords
  <2>2. /\ AppCode /\ UNCHANGED <<schedVars, wait_head>>
        /\ \/ links' = [links EXCEPT !.fault = TRUE]
           \/ /\ UNCHANGED links
              /\ \E l \in {"raise", "check"} : pc' = [pc EXCEPT ![me] = l]
    BY <1>13 DEF Compare, Executes, GoTo
  <2>3. UNCHANGED links /\ \E l \in Locations \ {"waiting"} : pc' = [pc EXCEPT ![me] = l]
    BY <1>13, <2>1, <2>2 DEF Locations, LinkRecords
  <2> QED BY <2>2, <2>3, CallStep
<1>10. CASE Raise
  BY <1>10 DEF Raise
<1>11. CASE Block
  <2>1. Lists' /\ SP!TaskBlock
    BY <1>11, BlockAgrees
  <2> QED BY <2>1 DEF SP!Next
<1>12. CASE Unlock
  <2>1. Lists' /\ (UNCHANGED SP!schedVars \/ \E t \in Tasks : SP!TaskWake(t))
    BY <1>12, UnlockAgrees
  <2> QED BY <2>1 DEF SP!Next
<1> QED BY <1>1, <1>2, <1>3, <1>4, <1>5, <1>6, <1>7, <1>8, <1>9, <1>10, <1>11, <1>12, <1>13
DEF Next

\* The scheduler's invariant goes with it.
LEMMA AgreeStep ==
  ASSUME Types, Agree, ~raised', [Next]_vars, Compare => ~links'.fault
  PROVE  Agree'
<1>1. Lists' /\ (SP!Next \/ UNCHANGED SP!schedVars)
  BY StepAgrees
<1>2. SP!IndInv'
  BY <1>1, SP!NextIndInv, SchedulerAssumed DEF Agree
<1> QED BY <1>1, <1>2 DEF Agree

\* A boost is for ever in the history.
LEMMA RaisedStays == [Next]_vars /\ ~raised' => ~raised
BY DEF Next, vars, mutexVars, TaskCreate, TaskYield, YieldAfter, TickEnter, TickReturn,
       TickPreempt, TickResume, LockCall, Cas, Own, BoostTest, Compare, Raise, GiveUp, GoOn, Block, Unlock

\* The comparison of the priority inheritance has followed a null pointer.
Crashed == links.fault /\ WaitersConsistent

\* What the agreement says of the wait list.
LEMMA AgreeWaiters ==
  ASSUME Types, Agree
  PROVE  /\ ~links.fault
         /\ \A t \in Tasks :
              /\ state[t] = "BLOCKED" <=> pc[t] = "waiting"
              /\ state[t] = "BLOCKED" <=> \E i \in 1 .. Len(Waiters) : Waiters[i] = t
         /\ \A i, j \in 1 .. Len(Waiters) :
              i < j => /\ Waiters[i] # Waiters[j]
                       /\ priority[Waiters[i]] >= priority[Waiters[j]]
<1>1. /\ ~links.fault /\ Waiters \in Seq(Tasks) /\ Distinct(Waiters)
      /\ Ordered(Waiters, priority)
  BY Facts DEF Agree, Lists, Represents
<1>2. \A t \in Tasks :
        /\ state[t] = "BLOCKED" <=> pc[t] = "waiting"
        /\ state[t] = "BLOCKED" <=> \E i \in 1 .. Len(Waiters) : Waiters[i] = t
  BY DEF Agree, Lists, Holds
<1>3. \A i, j \in 1 .. Len(Waiters) :
        i < j => /\ Waiters[i] # Waiters[j]
                 /\ priority[Waiters[i]] >= priority[Waiters[j]]
  BY <1>1 DEF Distinct, Ordered
<1> QED BY <1>1, <1>2, <1>3

\* A comparison that follows a null pointer leaves lists, states and priorities.
LEMMA CompareCrashes ==
  ASSUME Types, Agree, Compare, links'.fault
  PROVE  Crashed' /\ RunQueues' = RunQueues /\ UNCHANGED <<schedVars, links.bitmap>>
<1>1. ~links.fault
  BY AgreeWaiters
<1>2. /\ links' = [links EXCEPT !.fault = TRUE]
      /\ me \in Tasks /\ pc[me] = "compare" /\ pc' = [pc EXCEPT ![me] = "crashed"]
      /\ UNCHANGED <<schedVars, wait_head>>
  BY <1>1 DEF Compare, Executes, AppCode, GoTo, me, mutexVars
<1>3. RunQueues' = RunQueues /\ Waiters' = Waiters
  BY <1>2, CrashKeepsLists DEF Agree
<1>4. pc \in [Tasks -> Locations] /\ links \in LinkRecords
  BY DEF Types, TypeOK, LinkRecords
<1>5. pc'[me] = "crashed" /\ \A t \in Tasks : pc'[t] = "waiting" <=> pc[t] = "waiting"
  BY <1>2, <1>4
<1>6. UNCHANGED <<state, priority>> /\ links'.bitmap = links.bitmap
  BY <1>2, <1>4 DEF schedVars, LinkRecords
<1>7. WaitersConsistent'
  <2>1. \E t \in Tasks : pc'[t] = "crashed"
    BY <1>2, <1>5
  <2>2. /\ \A t \in Tasks :
              /\ state'[t] = "BLOCKED" <=> pc'[t] = "waiting"
              /\ state'[t] = "BLOCKED" <=> \E i \in 1 .. Len(Waiters') : Waiters'[i] = t
         /\ \A i, j \in 1 .. Len(Waiters') :
              i < j => /\ Waiters'[i] # Waiters'[j]
                       /\ priority'[Waiters'[i]] >= priority'[Waiters'[j]]
    <3>1. Waiters' = Waiters /\ state' = state /\ priority' = priority
      BY <1>3, <1>6
    <3> QED BY <1>5, <3>1, AgreeWaiters
  <2> QED BY <2>1, <2>2 DEF WaitersConsistent
<1> QED BY <1>2, <1>3, <1>6, <1>7 DEF Crashed

\* After a fault nothing happens any more.
LEMMA FaultStops == links.fault /\ [Next]_vars => UNCHANGED vars
BY DEF Next, TaskCreate, TaskYield, YieldAfter, TickEnter, TickReturn, TickPreempt, TickResume,
       LockCall, Cas, Own, BoostTest, Compare, Raise, GiveUp, GoOn, Block, Unlock, Executes,
       AppCode, TaskCode, Alive

\* Until a priority is raised the lists agree, or the system has stopped in a comparison.
LEMMA AgreeOrCrashed ==
  ASSUME Types, ~raised => Agree \/ Crashed, [Next]_vars
  PROVE  (~raised => Agree \/ Crashed)'
<1> SUFFICES ASSUME ~raised' PROVE Agree' \/ Crashed'
  OBVIOUS
<1>1. CASE Agree /\ (Compare => ~links'.fault)
  BY <1>1, AgreeStep
<1>2. CASE Agree /\ Compare /\ links'.fault
  BY <1>2, CompareCrashes
<1>3. CASE Crashed
  <2>1. links.fault /\ WaitersConsistent
    BY <1>3 DEF Crashed
  <2>2. UNCHANGED <<links, wait_head, raised, state, pc, priority>>
    BY <2>1, FaultStops DEF vars, schedVars, mutexVars, callVars
  <2>3. Waiters' = Waiters
    BY <2>2 DEF Waiters
  <2>4. WaitersConsistent'
    BY <2>1, <2>2, <2>3 DEF WaitersConsistent
  <2> QED BY <2>1, <2>2, <2>4 DEF Crashed
<1> QED BY <1>1, <1>2, <1>3, RaisedStays

\* As long as no priority was raised, the wait list holds exactly the blocked tasks, each
\* once and in the order of their priorities, although it shares its links with the run
\* queues, and the only null pointer that is followed is that of m->owner in a comparison.
THEOREM WaitersStayConsistent == Spec => []WaitersConsistent
<1>1. Init => Types /\ (~raised => Agree \/ Crashed)
  BY TypesInit, AgreeInit
<1>2. Types /\ (~raised => Agree \/ Crashed) /\ [Next]_vars
        => (Types /\ (~raised => Agree \/ Crashed))'
  BY TypesStep, AgreeOrCrashed
<1>3. Types /\ (~raised => Agree \/ Crashed) => WaitersConsistent
  <2> SUFFICES ASSUME Types, Agree PROVE WaitersConsistent
    BY DEF WaitersConsistent, Crashed
  <2> QED BY AgreeWaiters DEF WaitersConsistent
<1> QED BY <1>1, <1>2, <1>3, PTL DEF Spec

\* The scheduler's specification is the same under the name of its proofs.
LEMMA SameScheduler ==
  /\ SP!Next <=> Sched!Next
  /\ UNCHANGED SP!schedVars <=> UNCHANGED Sched!schedVars
  /\ SP!Init <=> Sched!Init
BY DEF SP!AllTasks, Sched!AllTasks, SP!Priorities, Sched!Priorities, SP!RqEnqueue,
       Sched!RqEnqueue, SP!RqRemoveHead, Sched!RqRemoveHead, SP!BitmapSet,
       Sched!BitmapSet, SP!BitmapRemoveHead, Sched!BitmapRemoveHead, SP!IsPrioHighest,
       Sched!IsPrioHighest, SP!Requeued, Sched!Requeued, SP!SchedYield,
       Sched!SchedYield, SP!TaskCode, Sched!TaskCode, SP!AppCode, Sched!AppCode,
       SP!SleeperDue, Sched!SleeperDue, SP!SliceLeft, Sched!SliceLeft, SP!MustPreempt,
       Sched!MustPreempt, SP!TaskCreate, Sched!TaskCreate, SP!TaskYield,
       Sched!TaskYield, SP!TaskSleep, Sched!TaskSleep, SP!TaskExit, Sched!TaskExit,
       SP!TaskBlock, Sched!TaskBlock, SP!TaskWake, Sched!TaskWake, SP!YieldAfter,
       Sched!YieldAfter, SP!TickEnter, Sched!TickEnter, SP!TickWakeOne,
       Sched!TickWakeOne, SP!TickReturn, Sched!TickReturn, SP!TickPreempt,
       Sched!TickPreempt, SP!TickResume, Sched!TickResume, SP!Tick, Sched!Tick,
       SP!Next, Sched!Next, SP!schedVars, Sched!schedVars, SP!Init, Sched!Init

\* The linked run queues, with the wait list in the same links, implement the queues
\* of Scheduler as long as no priority is raised.
THEOREM LinksImplementScheduler == Spec => SchedulerRefinement
<1>1. Init => Types /\ (~raised => Agree \/ Crashed)
  BY TypesInit, AgreeInit
<1>2. Types /\ (~raised => Agree \/ Crashed) /\ [Next]_vars
        => (Types /\ (~raised => Agree \/ Crashed))'
  BY TypesStep, AgreeOrCrashed
<1>3. Init => Sched!Init
  BY AgreeInit, SameScheduler
<1>4. Types /\ (~raised => Agree \/ Crashed) /\ [Next]_vars
        => [raised' \/ Sched!Next \/ UNCHANGED Sched!schedVars]_vars
  <2> SUFFICES ASSUME Types, ~raised => Agree \/ Crashed, [Next]_vars, ~raised', ~UNCHANGED vars
               PROVE  Sched!Next \/ UNCHANGED Sched!schedVars
    OBVIOUS
  <2>1. Agree
    BY FaultStops, RaisedStays DEF Crashed
  <2>2. CASE Compare => ~links'.fault
    <3>1. SP!Next \/ UNCHANGED SP!schedVars
      BY <2>1, <2>2, StepAgrees
    <3> QED BY <3>1, SameScheduler
  <2>3. CASE Compare /\ links'.fault
    <3>1. RunQueues' = RunQueues /\ UNCHANGED <<schedVars, links.bitmap>>
      BY <2>1, <2>3, CompareCrashes
    <3>2. UNCHANGED SP!schedVars
      BY <3>1 DEF schedVars, SP!schedVars
    <3> QED BY <3>2, SameScheduler
  <2> QED BY <2>2, <2>3
<1> QED BY <1>1, <1>2, <1>3, <1>4, PTL DEF Spec, SchedulerRefinement

-----------------------------------------------------------------------------
(* What holds of the boost in every state, also when the run queues are    *)
(* damaged.                                                                *)

\* A task that does not hold the mutex has the priority it was created with.
OnlyOwnerBoosted == \A t \in Tasks : priority[t] # base_priority[t] => owner = t

\* A step boosts nobody but the owner, if that is the task it has seen, and takes the boost
\* back with the mutex.
LEMMA BoostStep ==
  ASSUME Types, MutexInv, OnlyOwnerBoosted, [Next]_vars, Raise => seen[me] = owner
  PROVE  OnlyOwnerBoosted'
<1> USE DEF schedVars, mutexVars, callVars
<1>0. /\ priority \in [AllTasks -> Priorities] /\ base_priority \in [AllTasks -> Priorities]
      /\ owner \in Tasks \cup {NULL}
  BY DEF Types, TypeOK
<1>1. CASE UNCHANGED <<priority, base_priority, owner>>
  BY <1>1 DEF OnlyOwnerBoosted
<1>2. ASSUME NEW t \in Tasks, NEW p \in BasePriorities, TaskCreate(t, p)
      PROVE  OnlyOwnerBoosted'
  <2>1. /\ priority' = [priority EXCEPT ![t] = p] /\ UNCHANGED owner
        /\ base_priority' = [base_priority EXCEPT ![t] = p]
    BY <1>2 DEF TaskCreate
  <2>2. \A u \in Tasks : /\ u # t => /\ priority'[u] = priority[u]
                                     /\ base_priority'[u] = base_priority[u]
                         /\ u = t => priority'[u] = base_priority'[u]
    BY <1>0, <2>1, Domains
  <2> QED BY <2>1, <2>2 DEF OnlyOwnerBoosted
<1>3. CASE Own
  <2>1. me \in Tasks /\ pc[me] = "own" /\ UNCHANGED <<priority, base_priority>>
    BY <1>3 DEF Own, Executes, AppCode, me
  <2>2. owner = NULL
    BY <1>0, <2>1 DEF MutexInv, MutualExclusion
  <2> QED BY <2>1, <2>2, KMutexAssumption DEF OnlyOwnerBoosted
<1>4. CASE Raise
  <2>1. /\ UNCHANGED <<base_priority, owner>>
        /\ UNCHANGED priority \/ priority' = [priority EXCEPT ![owner] = priority[me]]
    BY <1>4 DEF Raise, Reread, Inherited
  <2>2. \A t \in Tasks : t # owner => priority'[t] = priority[t]
    BY <1>0, <2>1, Domains
  <2> QED BY <2>1, <2>2 DEF OnlyOwnerBoosted
<1>5. CASE Unlock
  <2>1. \A t \in Tasks : priority'[t] = base_priority'[t]
    BY <1>5, Domains DEF Unlock, PrioritiesRestored, OnlyOwnerBoosted
  <2> QED BY <2>1 DEF OnlyOwnerBoosted
<1>6. CASE UNCHANGED vars
  BY <1>1, <1>6 DEF vars
<1>7. CASE TaskYield \/ YieldAfter \/ TickEnter \/ TickReturn \/ TickPreempt \/ TickResume
  BY <1>1, <1>7 DEF TaskYield, YieldAfter, TickEnter, TickReturn, TickPreempt, TickResume
<1>8. CASE (\E ms \in LockTimeouts : LockCall(ms)) \/ Cas \/ BoostTest \/ Compare \/ GiveUp \/ GoOn \/ Block
  BY <1>1, <1>8 DEF LockCall, Cas, BoostTest, Compare, GiveUp, GoOn, Block
<1> QED BY <1>2, <1>3, <1>4, <1>5, <1>6, <1>7, <1>8 DEF Next

-----------------------------------------------------------------------------
(* The links after a raise.  It changes the priority of a linked task and  *)
(* leaves the task where it is, so that no sequence describes the run      *)
(* queues any more: a task is taken out of another level than it was put   *)
(* into, a level keeps a head that has left it, and the rings of two       *)
(* levels run into each other.  What stays are the double links, and which *)
(* head a task leads to.  Instead of walks, a ring is a set that no link   *)
(* leaves or enters, and a task leads to a head if every such set with the *)
(* task holds the head.                                                    *)

\* t is in some ring.
IsLinked(L, t) == L.prev[t] # NULL

\* No ring leaves or enters T.
Closed(L, T) == \A x \in T : IsLinked(L, x) => L.next[x] \in T /\ L.prev[x] \in T

\* t is in the ring of h.
Leads(L, t, h) == \A T \in SUBSET AllTasks : Closed(L, T) /\ t \in T => h \in T

\* next and prev are each other's inverses in the rings, and the bits are those of the levels
\* that have a head.
Doubly(L) ==
  /\ \A t \in AllTasks :
       IF IsLinked(L, t)
       THEN /\ L.next[t] # NULL /\ IsLinked(L, L.prev[t])
            /\ L.prev[L.next[t]] = t /\ L.next[L.prev[t]] = t
       ELSE L.next[t] # t
  /\ L.bitmap = {p \in Priorities : L.run_queue[p] # NULL}

\* A closed set before and after rq_enqueue(t) at level p: t joins the ring of the head.
PutInto(L, M, t, p, T) ==
  /\ Closed(M, T) => /\ Closed(L, T \ {t})
                     /\ L.run_queue[p] # NULL => (t \in T <=> L.run_queue[p] \in T)
  /\ Closed(L, T) => /\ L.run_queue[p] \in T \cup {NULL} => Closed(M, T \cup {t})
                     /\ L.run_queue[p] \notin T /\ t \notin T => Closed(M, T)

\* A closed set before and after rq_remove(t), which takes t from its ring.
TakenFrom(L, M, t, T) ==
  /\ Closed(M, T) /\ t \notin T => \/ Closed(L, T)
                                   \/ Closed(L, T \cup {t}) /\ L.next[t] \in T
  /\ Closed(L, T) => Closed(M, T) /\ Closed(M, T \ {t})
  /\ Closed(L, T) => (t \in T <=> L.next[t] \in T)

\* What rq_enqueue(t) at level p leaves, seen through closed sets.
Put(L, M, t, p) ==
  /\ M \in LinkRecords /\ Doubly(M) /\ M.fault = L.fault
  /\ \A u \in AllTasks : IsLinked(M, u) <=> IsLinked(L, u) \/ u = t
  /\ \A q \in Priorities : M.run_queue[q] = IF q = p /\ L.run_queue[p] = NULL THEN t ELSE L.run_queue[q]
  /\ L.run_queue[p] # NULL => IsLinked(L, L.run_queue[p]) /\ L.run_queue[p] # t
  /\ \A T \in SUBSET AllTasks : PutInto(L, M, t, p, T)
  /\ \A u \in AllTasks : u # t /\ ~IsLinked(L, u) => M.next[u] = L.next[u]

\* What rq_remove(t) at level p leaves.
Taken(L, M, t, p) ==
  LET nx == L.next[t]
  IN  /\ M \in LinkRecords /\ Doubly(M) /\ M.fault = L.fault
      /\ nx \in AllTasks /\ IsLinked(L, t)
      /\ \A u \in AllTasks : IsLinked(M, u) <=> IsLinked(L, u) /\ u # t
      /\ \A q \in Priorities :
           M.run_queue[q] = IF q # p THEN L.run_queue[q]
                            ELSE IF nx = t THEN NULL
                            ELSE IF L.run_queue[p] = t THEN nx ELSE L.run_queue[p]
      /\ \A T \in SUBSET AllTasks : TakenFrom(L, M, t, T)
      /\ nx = t => Closed(L, {t})
      /\ \A u \in AllTasks : ~IsLinked(L, u) => M.next[u] = L.next[u]

\* The neighbours of a linked task are linked to it.
LEMMA Neighbours ==
  ASSUME NEW L \in LinkRecords, Doubly(L), NEW t \in AllTasks, IsLinked(L, t)
  PROVE  /\ L.next[t] \in AllTasks /\ IsLinked(L, L.next[t]) /\ L.prev[L.next[t]] = t
         /\ L.prev[t] \in AllTasks /\ IsLinked(L, L.prev[t]) /\ L.next[L.prev[t]] = t
<1>1. L.next[t] \in Pointers /\ L.prev[t] \in Pointers
  BY DEF LinkRecords
<1>2. /\ L.next[t] # NULL /\ IsLinked(L, L.prev[t]) /\ L.prev[t] # NULL
      /\ L.prev[L.next[t]] = t /\ L.next[L.prev[t]] = t
  BY DEF Doubly, IsLinked
<1>3. t # NULL
  BY Domains
<1> QED BY <1>1, <1>2, <1>3 DEF Pointers, IsLinked

\* rq_enqueue of a task that is not linked.
LEMMA EnqueuePuts ==
  ASSUME NEW L \in LinkRecords, Doubly(L), NEW t \in AllTasks, NEW p \in Priorities,
         ~IsLinked(L, t), ~Q!RqEnqueue(L, t, p).fault
  PROVE  Put(L, Q!RqEnqueue(L, t, p), t, p)
<1> DEFINE M == Q!RqEnqueue(L, t, p)
           h == L.run_queue[p]
           tail == L.prev[h]
<1>0. /\ L.next \in [AllTasks -> Pointers] /\ L.prev \in [AllTasks -> Pointers]
      /\ L.run_queue \in [Priorities -> Pointers] /\ t # NULL
  BY Domains DEF LinkRecords
<1>1. CASE h = NULL
  <2>1. /\ M \in LinkRecords /\ M.fault = L.fault /\ M.bitmap = L.bitmap \cup {p}
        /\ \A u \in AllTasks : M.next[u] = IF u = t THEN t ELSE L.next[u]
        /\ \A u \in AllTasks : M.prev[u] = IF u = t THEN t ELSE L.prev[u]
        /\ \A q \in Priorities : M.run_queue[q] = IF q = p THEN t ELSE L.run_queue[q]
    <3>1. /\ M.next = [L.next EXCEPT ![t] = t] /\ M.prev = [L.prev EXCEPT ![t] = t]
          /\ M.run_queue = [L.run_queue EXCEPT ![p] = t]
          /\ M.bitmap = L.bitmap \cup {p} /\ M.fault = L.fault
          /\ M \in LinkRecords
      BY <1>1, EnqueuedAlone
    <3> HIDE DEF M
    <3> QED BY <1>0, <3>1
  <2> HIDE DEF M
  <2>2. \A u \in AllTasks : IsLinked(M, u) <=> IsLinked(L, u) \/ u = t
    BY <1>0, <2>1 DEF IsLinked
  <2>3. \A u \in AllTasks : IsLinked(L, u) =>
          /\ L.next[u] \in AllTasks /\ L.prev[u] \in AllTasks
          /\ IsLinked(L, L.prev[u])
          /\ L.next[u] # t /\ L.prev[u] # t
    BY Neighbours
  <2>4. Doubly(M)
    <3>1. ASSUME NEW u \in AllTasks
          PROVE  IF IsLinked(M, u)
                 THEN /\ M.next[u] # NULL /\ IsLinked(M, M.prev[u])
                      /\ M.prev[M.next[u]] = u /\ M.next[M.prev[u]] = u
                 ELSE M.next[u] # u
      <4>1. CASE u = t
        BY <1>0, <2>1, <2>2, <4>1
      <4>2. CASE u # t
        <5>1. M.next[u] = L.next[u] /\ M.prev[u] = L.prev[u]
          BY <2>1, <4>2
        <5> QED BY <2>1, <2>2, <2>3, <4>2, <5>1 DEF Doubly
      <4> QED BY <4>1, <4>2
    <3>2. M.bitmap = {q \in Priorities : M.run_queue[q] # NULL}
      BY <1>0, <1>1, <2>1 DEF Doubly
    <3> QED BY <3>1, <3>2 DEF Doubly
  <2>5. ASSUME NEW T \in SUBSET AllTasks, Closed(M, T) PROVE Closed(L, T \ {t})
    BY <2>1, <2>2, <2>3, <2>5 DEF Closed
  <2>6. ASSUME NEW T \in SUBSET AllTasks, Closed(L, T)
        PROVE  Closed(M, T \cup {t}) /\ (t \notin T => Closed(M, T))
    BY <2>1, <2>2, <2>3, <2>6 DEF Closed
  <2>7. \A q \in Priorities : M.run_queue[q] = IF q = p /\ h = NULL THEN t ELSE L.run_queue[q]
    BY <1>1, <2>1
  <2>8. ASSUME NEW T \in SUBSET AllTasks PROVE PutInto(L, M, t, p, T)
    BY <1>1, <2>5, <2>6 DEF PutInto
  <2>9. \A u \in AllTasks : u # t /\ ~IsLinked(L, u) => M.next[u] = L.next[u]
    BY <2>1
  <2>10. h # NULL => IsLinked(L, h) /\ h # t
    BY <1>1
  <2>20. Put(L, M, t, p)
    BY <2>1, <2>2, <2>4, <2>7, <2>8, <2>9, <2>10 DEF Put
  <2> QED BY <2>20 DEF M
<1>2. CASE h # NULL
  <2>0. h \in AllTasks
    BY <1>0, <1>2 DEF Pointers
  <2>1. tail # NULL
    <3>1. ASSUME tail = NULL PROVE M.fault
      <4>1. M = [L EXCEPT !.fault = TRUE, !.bitmap = @ \cup {p}]
        BY <1>2, <3>1 DEF Q!RqEnqueue, Q!LinkAtTail, LinkRecords
      <4> HIDE DEF M
      <4> QED BY <4>1 DEF LinkRecords
    <3> QED BY <3>1
  <2>2. tail \in AllTasks /\ IsLinked(L, h) /\ h # t
    BY <1>0, <2>0, <2>1 DEF Pointers, IsLinked
  <2>3. /\ M \in LinkRecords /\ M.fault = L.fault /\ M.bitmap = L.bitmap \cup {p}
        /\ \A u \in AllTasks : M.next[u] = IF u = t THEN h ELSE IF u = tail THEN t ELSE L.next[u]
        /\ \A u \in AllTasks : M.prev[u] = IF u = h THEN t ELSE IF u = t THEN tail ELSE L.prev[u]
        /\ \A q \in Priorities : M.run_queue[q] = L.run_queue[q]
    <3>1. /\ M.next = [L.next EXCEPT ![tail] = t, ![t] = h]
          /\ M.prev = [L.prev EXCEPT ![t] = tail, ![h] = t]
          /\ M.run_queue = L.run_queue
          /\ M.bitmap = L.bitmap \cup {p} /\ M.fault = L.fault
          /\ M \in LinkRecords
      BY <2>0, <2>2, EnqueuedLast
    <3> HIDE DEF M, h, tail
    <3> QED BY <1>0, <3>1
  <2> HIDE DEF M
  <2>4. L.next[tail] = h /\ L.prev[h] = tail
    BY <2>0, <2>2 DEF Doubly
  <2>5. IsLinked(L, tail) /\ tail # t
    BY <2>0, <2>2, Neighbours
  <2>6. \A u \in AllTasks : IsLinked(M, u) <=> IsLinked(L, u) \/ u = t
    BY <1>0, <2>2, <2>3, <2>5 DEF IsLinked
  <2>7. \A u \in AllTasks : IsLinked(L, u) =>
          /\ L.next[u] \in AllTasks /\ L.prev[u] \in AllTasks
          /\ IsLinked(L, L.prev[u])
          /\ L.next[u] # t /\ L.prev[u] # t
          /\ L.prev[L.next[u]] = u /\ L.next[L.prev[u]] = u
    BY Neighbours
  <2>8. \A u \in AllTasks : IsLinked(L, u) => (L.next[u] = h <=> u = tail) /\ (L.prev[u] = tail <=> u = h)
    BY <2>0, <2>2, <2>4, <2>5, <2>7
  <2>9. Doubly(M)
    <3>1. ASSUME NEW u \in AllTasks
          PROVE  IF IsLinked(M, u)
                 THEN /\ M.next[u] # NULL /\ IsLinked(M, M.prev[u])
                      /\ M.prev[M.next[u]] = u /\ M.next[M.prev[u]] = u
                 ELSE M.next[u] # u
      <4>1. CASE u = t
        BY <1>0, <2>0, <2>2, <2>3, <2>5, <2>6, <4>1, Domains
      <4>2. CASE u # t /\ IsLinked(L, u)
        <5>1. M.next[u] = IF u = tail THEN t ELSE L.next[u]
          BY <2>3, <4>2
        <5>2. M.prev[u] = IF u = h THEN t ELSE L.prev[u]
          BY <2>3, <4>2
        <5>3. M.next[u] # NULL /\ M.prev[M.next[u]] = u
          BY <1>0, <2>3, <2>5, <2>7, <2>8, <4>2, <5>1, Domains
        <5>4. IsLinked(M, M.prev[u]) /\ M.next[M.prev[u]] = u
          BY <2>2, <2>3, <2>6, <2>7, <2>8, <4>2, <5>2
        <5> QED BY <2>6, <4>2, <5>3, <5>4
      <4>3. CASE u # t /\ ~IsLinked(L, u)
        BY <2>3, <2>5, <2>6, <4>3 DEF Doubly
      <4> QED BY <4>1, <4>2, <4>3
    <3>2. M.bitmap = {q \in Priorities : M.run_queue[q] # NULL}
      BY <1>0, <1>2, <2>3 DEF Doubly
    <3> QED BY <3>1, <3>2 DEF Doubly
  <2>10. ASSUME NEW T \in SUBSET AllTasks, Closed(M, T)
         PROVE  Closed(L, T \ {t}) /\ (t \in T <=> h \in T)
    <3>1. t \in T <=> h \in T
      BY <2>0, <2>2, <2>3, <2>6, <2>10 DEF Closed
    <3>2. t \in T <=> tail \in T
      BY <2>2, <2>3, <2>5, <2>6, <2>10 DEF Closed
    <3>3. ASSUME NEW u \in T \ {t}, IsLinked(L, u) PROVE L.next[u] \in T \ {t} /\ L.prev[u] \in T \ {t}
      <4>1. M.next[u] \in T /\ M.prev[u] \in T
        BY <2>6, <2>10, <3>3 DEF Closed
      <4>2. L.next[u] \in T
        BY <2>3, <2>4, <3>1, <3>2, <3>3, <4>1
      <4>3. L.prev[u] \in T
        BY <2>3, <2>4, <3>1, <3>2, <3>3, <4>1
      <4> QED BY <2>7, <3>3, <4>2, <4>3
    <3> QED BY <3>1, <3>3 DEF Closed
  <2>11. ASSUME NEW T \in SUBSET AllTasks, Closed(L, T)
         PROVE  /\ h \in T => Closed(M, T \cup {t})
                /\ h \notin T /\ t \notin T => Closed(M, T)
    <3>1. h \in T <=> tail \in T
      BY <2>0, <2>2, <2>4, <2>5, <2>11 DEF Closed
    <3>2. \A u \in T : IsLinked(L, u) => L.next[u] \in T /\ L.prev[u] \in T
      BY <2>11 DEF Closed
    <3>3. ASSUME h \in T PROVE Closed(M, T \cup {t})
      <4>1. ASSUME NEW u \in T \cup {t}, IsLinked(M, u)
            PROVE  M.next[u] \in T \cup {t} /\ M.prev[u] \in T \cup {t}
        BY <2>3, <2>6, <3>1, <3>2, <3>3, <4>1
      <4> QED BY <4>1 DEF Closed
    <3>4. ASSUME h \notin T, t \notin T PROVE Closed(M, T)
      <4>1. ASSUME NEW u \in T, IsLinked(M, u) PROVE M.next[u] \in T /\ M.prev[u] \in T
        BY <2>3, <2>6, <3>1, <3>2, <3>4, <4>1
      <4> QED BY <4>1 DEF Closed
    <3> QED BY <3>3, <3>4
  <2>12. \A q \in Priorities : M.run_queue[q] = IF q = p /\ h = NULL THEN t ELSE L.run_queue[q]
    BY <1>2, <2>3
  <2>13. \A u \in AllTasks : u # t /\ ~IsLinked(L, u) => M.next[u] = L.next[u]
    BY <2>3, <2>5
  <2>14. \A T : h \in T \cup {NULL} <=> h \in T
    BY <1>2
  <2>15. ASSUME NEW T \in SUBSET AllTasks PROVE PutInto(L, M, t, p, T)
    BY <2>10, <2>11, <2>14 DEF PutInto
  <2>16. h # NULL => IsLinked(L, h) /\ h # t
    BY <2>2
  <2>17. M \in LinkRecords /\ M.fault = L.fault
    BY <2>3
  <2>20. Put(L, M, t, p)
    BY <2>6, <2>9, <2>12, <2>13, <2>15, <2>16, <2>17 DEF Put
  <2> QED BY <2>20 DEF M
<1> QED BY <1>1, <1>2

\* rq_remove.
LEMMA RemoveTakes ==
  ASSUME NEW L \in LinkRecords, Doubly(L), NEW t \in AllTasks, NEW p \in Priorities,
         ~Q!RqRemove(L, t, p).fault
  PROVE  Taken(L, Q!RqRemove(L, t, p), t, p)
<1> DEFINE M == Q!RqRemove(L, t, p)
           nx == L.next[t]
           pv == L.prev[t]
<1>0. /\ L.next \in [AllTasks -> Pointers] /\ L.prev \in [AllTasks -> Pointers]
      /\ L.run_queue \in [Priorities -> Pointers] /\ t # NULL
  BY Domains DEF LinkRecords
<1>1. IsLinked(L, t)
  <2>1. ASSUME ~IsLinked(L, t) PROVE M.fault
    <3>1. nx # t /\ pv = NULL
      BY <2>1 DEF Doubly, IsLinked
    <3>2. M = [L EXCEPT !.fault = TRUE]
      BY <3>1 DEF Q!RqRemove
    <3> HIDE DEF M
    <3> QED BY <3>2 DEF LinkRecords
  <2> QED BY <2>1
<1>2. /\ nx \in AllTasks /\ IsLinked(L, nx) /\ L.prev[nx] = t
      /\ pv \in AllTasks /\ IsLinked(L, pv) /\ L.next[pv] = t
  BY <1>1, Neighbours
<1>3. \A u \in AllTasks : IsLinked(L, u) =>
        /\ L.next[u] \in AllTasks /\ L.prev[u] \in AllTasks
        /\ IsLinked(L, L.prev[u]) /\ IsLinked(L, L.next[u])
        /\ L.prev[L.next[u]] = u /\ L.next[L.prev[u]] = u
  BY Neighbours
<1>4. \A T : Closed(L, T) => (t \in T <=> nx \in T) /\ (t \in T <=> pv \in T)
  BY <1>1, <1>2 DEF Closed
<1>5. CASE nx = t
  <2>1. /\ M \in LinkRecords /\ M.fault = L.fault /\ M.bitmap = L.bitmap \ {p}
        /\ \A u \in AllTasks : M.next[u] = IF u = t THEN NULL ELSE L.next[u]
        /\ \A u \in AllTasks : M.prev[u] = IF u = t THEN NULL ELSE L.prev[u]
        /\ \A q \in Priorities : M.run_queue[q] = IF q = p THEN NULL ELSE L.run_queue[q]
    <3>1. /\ M.next = [L.next EXCEPT ![t] = NULL] /\ M.prev = [L.prev EXCEPT ![t] = NULL]
          /\ M.run_queue = [L.run_queue EXCEPT ![p] = NULL]
          /\ M.bitmap = L.bitmap \ {p} /\ M.fault = L.fault
          /\ M \in LinkRecords
      BY <1>5, RemovedAlone
    <3> HIDE DEF M
    <3> QED BY <1>0, <3>1
  <2> HIDE DEF M
  <2>2. \A u \in AllTasks : IsLinked(M, u) <=> IsLinked(L, u) /\ u # t
    BY <2>1 DEF IsLinked
  <2>3. \A u \in AllTasks : IsLinked(L, u) /\ u # t => L.next[u] # t /\ L.prev[u] # t
    BY <1>2, <1>3, <1>5
  <2>4. Doubly(M)
    <3>1. ASSUME NEW u \in AllTasks
          PROVE  IF IsLinked(M, u)
                 THEN /\ M.next[u] # NULL /\ IsLinked(M, M.prev[u])
                      /\ M.prev[M.next[u]] = u /\ M.next[M.prev[u]] = u
                 ELSE M.next[u] # u
      BY <1>0, <1>3, <2>1, <2>2, <2>3, Domains DEF Doubly
    <3>2. M.bitmap = {q \in Priorities : M.run_queue[q] # NULL}
      BY <1>0, <2>1 DEF Doubly
    <3> QED BY <3>1, <3>2 DEF Doubly
  <2>5. Closed(L, {t})
    BY <1>2, <1>5 DEF Closed, IsLinked
  <2>6. \A T \in SUBSET AllTasks : Closed(M, T) /\ t \notin T => Closed(L, T)
    BY <2>1, <2>2 DEF Closed
  <2>7. \A T \in SUBSET AllTasks : Closed(L, T) => Closed(M, T) /\ Closed(M, T \ {t})
    BY <2>1, <2>2, <2>3 DEF Closed
  <2>8. \A u \in AllTasks : ~IsLinked(L, u) => M.next[u] = L.next[u]
    BY <1>1, <2>1
  <2>9. \A q \in Priorities :
           M.run_queue[q] = IF q # p THEN L.run_queue[q]
                            ELSE IF nx = t THEN NULL
                            ELSE IF L.run_queue[p] = t THEN nx ELSE L.run_queue[p]
    BY <1>5, <2>1
  <2>10. ASSUME NEW T \in SUBSET AllTasks PROVE TakenFrom(L, M, t, T)
    BY <1>4, <2>6, <2>7 DEF TakenFrom
  <2>11. nx = t => Closed(L, {t})
    BY <2>5
  <2>12. M \in LinkRecords /\ M.fault = L.fault /\ nx \in AllTasks
    BY <1>2, <2>1
  <2>20. Taken(L, M, t, p)
    BY <1>1, <2>2, <2>4, <2>8, <2>9, <2>10, <2>11, <2>12 DEF Taken
  <2> QED BY <2>20 DEF M
<1>6. CASE nx # t
  <2>1. /\ M \in LinkRecords /\ M.fault = L.fault /\ M.bitmap = L.bitmap
        /\ \A u \in AllTasks : M.next[u] = IF u = t THEN NULL ELSE IF u = pv THEN nx ELSE L.next[u]
        /\ \A u \in AllTasks : M.prev[u] = IF u = t THEN NULL ELSE IF u = nx THEN pv ELSE L.prev[u]
        /\ \A q \in Priorities :
             M.run_queue[q] = IF q = p /\ L.run_queue[p] = t THEN nx ELSE L.run_queue[q]
    <3>1. /\ M.next = [L.next EXCEPT ![pv] = nx, ![t] = NULL]
          /\ M.prev = [L.prev EXCEPT ![nx] = pv, ![t] = NULL]
          /\ M.run_queue = [L.run_queue EXCEPT ![p] = IF @ = t THEN nx ELSE @]
          /\ M.bitmap = L.bitmap /\ M.fault = L.fault
          /\ M \in LinkRecords
      BY <1>2, <1>6, RemovedLinked
    <3> HIDE DEF M, nx, pv
    <3> QED BY <1>0, <1>2, <3>1
  <2> HIDE DEF M
  <2>2. pv # t /\ pv # NULL /\ nx # NULL
    BY <1>2, <1>6, Domains
  <2>3. \A u \in AllTasks : IsLinked(M, u) <=> IsLinked(L, u) /\ u # t
    BY <1>2, <2>1, <2>2 DEF IsLinked
  <2>4. \A u \in AllTasks : IsLinked(L, u) => (L.next[u] = t <=> u = pv) /\ (L.prev[u] = t <=> u = nx)
    BY <1>1, <1>2, <1>3
  <2>5. Doubly(M)
    <3>1. ASSUME NEW u \in AllTasks
          PROVE  IF IsLinked(M, u)
                 THEN /\ M.next[u] # NULL /\ IsLinked(M, M.prev[u])
                      /\ M.prev[M.next[u]] = u /\ M.next[M.prev[u]] = u
                 ELSE M.next[u] # u
      <4>1. CASE u # t /\ IsLinked(L, u)
        <5>1. M.next[u] = IF u = pv THEN nx ELSE L.next[u]
          BY <2>1, <4>1
        <5>2. M.prev[u] = IF u = nx THEN pv ELSE L.prev[u]
          BY <2>1, <4>1
        <5>3. M.next[u] # NULL /\ M.prev[M.next[u]] = u
          BY <1>2, <1>3, <1>6, <2>1, <2>2, <2>4, <4>1, <5>1, Domains
        <5>4. IsLinked(M, M.prev[u]) /\ M.next[M.prev[u]] = u
          BY <1>2, <1>3, <1>6, <2>1, <2>2, <2>3, <2>4, <4>1, <5>2
        <5> QED BY <2>3, <4>1, <5>3, <5>4
      <4>2. CASE u = t \/ ~IsLinked(L, u)
        BY <1>0, <1>2, <2>1, <2>3, <4>2 DEF Doubly
      <4> QED BY <4>1, <4>2
    <3>2. M.bitmap = {q \in Priorities : M.run_queue[q] # NULL}
      BY <1>0, <2>1, <2>2 DEF Doubly
    <3> QED BY <3>1, <3>2 DEF Doubly
  <2>6. ASSUME NEW T \in SUBSET AllTasks, Closed(M, T), t \notin T
        PROVE  Closed(L, T) \/ (Closed(L, T \cup {t}) /\ nx \in T)
    <3>1. nx \in T <=> pv \in T
      BY <1>2, <1>6, <2>1, <2>2, <2>3, <2>6 DEF Closed
    <3>2. \A u \in T : IsLinked(L, u) => M.next[u] \in T /\ M.prev[u] \in T
      BY <2>3, <2>6 DEF Closed
    <3>3. CASE nx \in T
      <4>1. \A u \in T \cup {t} : IsLinked(L, u) => L.next[u] \in T \cup {t} /\ L.prev[u] \in T \cup {t}
        BY <1>2, <2>1, <3>1, <3>2, <3>3
      <4> QED BY <3>3, <4>1 DEF Closed
    <3>4. CASE nx \notin T
      <4>1. \A u \in T : IsLinked(L, u) => L.next[u] \in T /\ L.prev[u] \in T
        BY <2>1, <2>6, <3>1, <3>2, <3>4
      <4> QED BY <4>1 DEF Closed
    <3> QED BY <3>3, <3>4
  <2>7. ASSUME NEW T \in SUBSET AllTasks, Closed(L, T)
        PROVE  Closed(M, T) /\ Closed(M, T \ {t})
    <3>1. \A u \in T : IsLinked(L, u) => L.next[u] \in T /\ L.prev[u] \in T
      BY <2>7 DEF Closed
    <3>2. (t \in T <=> nx \in T) /\ (t \in T <=> pv \in T)
      BY <1>4, <2>7
    <3>3. ASSUME NEW u \in T, IsLinked(M, u) PROVE M.next[u] \in T \ {t} /\ M.prev[u] \in T \ {t}
      <4>1. u # t /\ IsLinked(L, u) /\ L.next[u] \in T /\ L.prev[u] \in T
        BY <2>3, <3>1, <3>3
      <4>2. M.next[u] \in T \ {t}
        BY <1>6, <2>1, <2>4, <3>2, <3>3, <4>1
      <4>3. M.prev[u] \in T \ {t}
        BY <2>1, <2>2, <2>4, <3>2, <3>3, <4>1
      <4> QED BY <4>2, <4>3
    <3> QED BY <3>3 DEF Closed
  <2>8. \A u \in AllTasks : ~IsLinked(L, u) => M.next[u] = L.next[u]
    BY <1>1, <1>2, <2>1
  <2>9. \A q \in Priorities :
           M.run_queue[q] = IF q # p THEN L.run_queue[q]
                            ELSE IF nx = t THEN NULL
                            ELSE IF L.run_queue[p] = t THEN nx ELSE L.run_queue[p]
    BY <1>6, <2>1
  <2>10. ASSUME NEW T \in SUBSET AllTasks PROVE TakenFrom(L, M, t, T)
    BY <1>4, <2>6, <2>7 DEF TakenFrom
  <2>11. nx = t => Closed(L, {t})
    BY <1>6
  <2>12. M \in LinkRecords /\ M.fault = L.fault /\ nx \in AllTasks
    BY <1>2, <2>1
  <2>20. Taken(L, M, t, p)
    BY <1>1, <2>3, <2>5, <2>8, <2>9, <2>10, <2>11, <2>12 DEF Taken
  <2> QED BY <2>20 DEF M
<1> QED BY <1>5, <1>6

\* The tasks of priority p outside the rings of T.
Level(pr, T, p) == {u \in AllTasks \ T : pr[u] = p}

\* The kernel after the priority of the task o, created with b, was raised in a run queue,
\* and the task has been dispatched any number of times since.  The levels A, among them b
\* once it was dispatched, hold it as their head although it has left them; the tasks K are
\* linked but no head leads to them; S is the ring of the task, the level E the one whose
\* head is in it.  The other levels are sound.
Shape(L, pr, b, o, A, E, S, K) ==
  /\ A \in SUBSET Priorities /\ E \in Priorities /\ S \in SUBSET AllTasks /\ K \in SUBSET AllTasks
  /\ b \in A \/ (A = {} /\ E = b)
  /\ E <= pr[o]
  /\ \A r \in A : r < E /\ L.run_queue[r] = o
  /\ o \in S /\ S \cap K = {} /\ Closed(L, S) /\ Closed(L, K)
  /\ \A u \in S : u # o => IsLinked(L, u) /\ pr[u] \in A \cup {E}
  /\ \A u \in K : IsLinked(L, u) /\ pr[u] <= E
  /\ L.run_queue[E] \notin S \cup {NULL} => ~IsLinked(L, L.run_queue[E]) /\ pr[L.run_queue[E]] \in A
  /\ \A p \in Priorities \ (A \cup {E}) :
       /\ L.run_queue[p] # NULL => L.run_queue[p] \in Level(pr, S \cup K, p) /\ IsLinked(L, L.run_queue[p])
       /\ Closed(L, Level(pr, S \cup K, p))
  /\ \A u \in AllTasks : u \notin S \cup K /\ IsLinked(L, u) =>
       pr[u] \notin A \cup {E} /\ Leads(L, u, L.run_queue[pr[u]])
  /\ \A u \in S : u # o /\ pr[u] \in A => Leads(L, u, IF IsLinked(L, o) THEN o ELSE L.run_queue[E])
  /\ ~IsLinked(L, o) => E = pr[o] /\ b \in A /\ L.run_queue[E] # o

\* Some levels and rings are as described.
Shaped(L, pr, b, o, E) ==
  \E A \in SUBSET Priorities, S, K \in SUBSET AllTasks : Shape(L, pr, b, o, A, E, S, K)

\* An unlinked task is the neighbour of none.
LEMMA UnlinkedOut ==
  ASSUME NEW L \in LinkRecords, Doubly(L), NEW t \in AllTasks, ~IsLinked(L, t),
         NEW T \in SUBSET AllTasks
  PROVE  /\ Closed(L, T) => Closed(L, T \ {t})
         /\ Closed(L, T) => Closed(L, T \cup {t})
         /\ Closed(L, {t})
<1>1. \A u \in AllTasks : IsLinked(L, u) => L.next[u] # t /\ L.prev[u] # t
  BY Neighbours
<1> QED BY <1>1 DEF Closed

\* What a task leads to is a task.
LEMMA LeadsInto ==
  ASSUME NEW L, NEW u \in AllTasks, NEW h, Leads(L, u, h),
         NEW T \in SUBSET AllTasks, Closed(L, T), u \in T
  PROVE  h \in T /\ h # NULL
BY Domains DEF Leads

\* Every closed set is one of the tasks'.
LEMMA AllClosed ==
  ASSUME NEW L \in LinkRecords, Doubly(L)
  PROVE  Closed(L, AllTasks)
BY Neighbours DEF Closed

\* rq_enqueue leaves who leads to whom.
LEMMA LeadsPut ==
  ASSUME NEW L, NEW M, NEW t \in AllTasks, NEW p \in Priorities, Put(L, M, t, p),
         NEW u \in AllTasks, u # t, NEW h, Leads(L, u, h)
  PROVE  /\ Leads(M, u, h)
         /\ h = L.run_queue[p] => Leads(M, u, t)
<1> SUFFICES ASSUME NEW T \in SUBSET AllTasks, Closed(M, T), u \in T
             PROVE  h \in T /\ (h = L.run_queue[p] => t \in T)
  BY DEF Leads
<1>1. Closed(L, T \ {t}) /\ T \ {t} \in SUBSET AllTasks /\ u \in T \ {t}
  BY DEF Put, PutInto
<1>2. h \in T \ {t} /\ h # NULL
  BY <1>1, LeadsInto
<1>3. L.run_queue[p] # NULL => (t \in T <=> L.run_queue[p] \in T)
  BY DEF Put, PutInto
<1> QED BY <1>2, <1>3

\* The new task leads to the head of its level.
LEMMA LeadsPutNew ==
  ASSUME NEW L, NEW M, NEW t \in AllTasks, NEW p \in Priorities, Put(L, M, t, p)
  PROVE  Leads(M, t, M.run_queue[p]) /\ (L.run_queue[p] # NULL => Leads(M, t, L.run_queue[p]))
<1>1. M.run_queue[p] = IF L.run_queue[p] = NULL THEN t ELSE L.run_queue[p]
  BY DEF Put
<1> SUFFICES ASSUME NEW T \in SUBSET AllTasks, Closed(M, T), t \in T
             PROVE  L.run_queue[p] # NULL => L.run_queue[p] \in T
  BY <1>1 DEF Leads
<1> QED BY DEF Put, PutInto

\* rq_remove leaves who leads to whom, but for the task that is removed.
LEMMA LeadsTaken ==
  ASSUME NEW L, NEW M, NEW t \in AllTasks, NEW p \in Priorities, Taken(L, M, t, p),
         NEW u \in AllTasks, u # t, NEW h, Leads(L, u, h)
  PROVE  /\ h # t => Leads(M, u, h)
         /\ h = t => L.next[t] # t /\ Leads(M, u, L.next[t])
<1>0. M \in LinkRecords /\ Doubly(M) /\ ~IsLinked(M, t)
  BY DEF Taken
<1>1. ASSUME NEW T \in SUBSET AllTasks, Closed(M, T), u \in T
      PROVE  (h # t => h \in T) /\ (h = t => L.next[t] \in T \ {t})
  <2> DEFINE W == T \ {t}
  <2>1. W \in SUBSET AllTasks /\ Closed(M, W) /\ t \notin W /\ u \in W
    BY <1>0, <1>1, UnlinkedOut
  <2>2. Closed(L, W) \/ (Closed(L, W \cup {t}) /\ L.next[t] \in W)
    <3> HIDE DEF W
    <3> QED BY <2>1 DEF Taken, TakenFrom
  <2>3. CASE Closed(L, W)
    BY <2>1, <2>3, LeadsInto
  <2>4. CASE Closed(L, W \cup {t}) /\ L.next[t] \in W
    BY <2>1, <2>4, LeadsInto
  <2> QED BY <2>2, <2>3, <2>4
<1>2. Closed(M, AllTasks)
  BY <1>0, AllClosed
<1> QED BY <1>1, <1>2 DEF Leads

\* Another task joins the ring of the owner, or one of a sound level.
LEMMA ShapePut ==
  ASSUME NEW L \in LinkRecords, Doubly(L), NEW pr \in [AllTasks -> Priorities],
         NEW b \in Priorities, NEW o \in AllTasks, NEW E, Shaped(L, pr, b, o, E),
         NEW M, NEW t \in AllTasks, t # o, ~IsLinked(L, t), Put(L, M, t, pr[t])
  PROVE  Shaped(M, pr, b, o, E)
<1> DEFINE p == pr[t]
           h == L.run_queue[p]
<1>1. PICK A \in SUBSET Priorities, S \in SUBSET AllTasks, K \in SUBSET AllTasks :
        Shape(L, pr, b, o, A, E, S, K)
  BY DEF Shaped
<1>2. /\ E \in Priorities
      /\ b \in A \/ (A = {} /\ E = b)
      /\ E <= pr[o]
      /\ \A r \in A : r < E /\ L.run_queue[r] = o
      /\ o \in S /\ S \cap K = {} /\ Closed(L, S) /\ Closed(L, K)
      /\ \A u \in S : u # o => IsLinked(L, u) /\ pr[u] \in A \cup {E}
      /\ \A u \in K : IsLinked(L, u) /\ pr[u] <= E
      /\ L.run_queue[E] \notin S \cup {NULL} => ~IsLinked(L, L.run_queue[E]) /\ pr[L.run_queue[E]] \in A
      /\ ~IsLinked(L, o) => E = pr[o] /\ b \in A /\ L.run_queue[E] # o
  BY <1>1 DEF Shape
<1>3. \A q \in Priorities \ (A \cup {E}) :
        /\ L.run_queue[q] # NULL => L.run_queue[q] \in Level(pr, S \cup K, q) /\ IsLinked(L, L.run_queue[q])
        /\ Closed(L, Level(pr, S \cup K, q))
  BY <1>1 DEF Shape
<1>4. \A u \in AllTasks : u \notin S \cup K /\ IsLinked(L, u) =>
        pr[u] \notin A \cup {E} /\ Leads(L, u, L.run_queue[pr[u]])
  BY <1>1 DEF Shape
<1>5. \A u \in S : u # o /\ pr[u] \in A => Leads(L, u, IF IsLinked(L, o) THEN o ELSE L.run_queue[E])
  BY <1>1 DEF Shape
<1>6. t \notin S /\ t \notin K /\ p \in Priorities /\ t # NULL
  BY <1>2, Domains
<1>7. /\ \A u \in AllTasks : IsLinked(M, u) <=> IsLinked(L, u) \/ u = t
      /\ \A q \in Priorities : M.run_queue[q] = IF q = p /\ h = NULL THEN t ELSE L.run_queue[q]
      /\ h # NULL => IsLinked(L, h) /\ h # t
      /\ M \in LinkRecords /\ Doubly(M)
  BY DEF Put
<1>8. \A T \in SUBSET AllTasks : Closed(L, T) =>
        /\ h \in T \cup {NULL} => Closed(M, T \cup {t})
        /\ h \notin T /\ t \notin T => Closed(M, T)
  BY DEF Put, PutInto
<1>9. \A u \in AllTasks : u # t => \A g : Leads(L, u, g) => Leads(M, u, g) /\ (g = h => Leads(M, u, t))
  BY LeadsPut
<1>10. Leads(M, t, M.run_queue[p]) /\ (h # NULL => Leads(M, t, h))
  BY <1>6, LeadsPutNew
<1> HIDE DEF p, h
<1>11. \A u \in AllTasks : \A g : Leads(L, u, g) => g # NULL
  BY LeadsInto, AllClosed
<1>12. ASSUME NEW q \in Priorities PROVE Level(pr, S \cup K, q) \in SUBSET AllTasks
  BY DEF Level
<1>13. h \notin K
  <2>1. CASE p \in A
    BY <1>2, <2>1 DEF h
  <2>2. CASE p = E
    BY <1>2, <2>2, Domains DEF h
  <2>3. CASE p \notin A \cup {E}
    BY <1>3, <1>6, <2>3, Domains DEF h, Level
  <2> QED BY <2>1, <2>2, <2>3
<1>14. Closed(M, K)
  BY <1>2, <1>6, <1>8, <1>13
<1>15. ASSUME p \in A \cup {E} PROVE Shape(M, pr, b, o, A, E, S \cup {t}, K)
  <2>1. h \in S \cup {NULL}
    BY <1>2, <1>7, <1>15 DEF h
  <2>2. \A r \in A : r < E /\ M.run_queue[r] = o
    <3>1. ASSUME NEW r \in A PROVE M.run_queue[r] = o
      BY <1>2, <1>7, <3>1, Domains DEF h
    <3> QED BY <1>2, <3>1
  <2>3. /\ o \in S \cup {t} /\ (S \cup {t}) \cap K = {} /\ S \cup {t} \in SUBSET AllTasks
        /\ Closed(M, S \cup {t}) /\ Closed(M, K)
    BY <1>2, <1>6, <1>8, <1>14, <2>1
  <2>4. /\ \A u \in S \cup {t} : u # o => IsLinked(M, u) /\ pr[u] \in A \cup {E}
        /\ \A u \in K : IsLinked(M, u) /\ pr[u] <= E
    BY <1>2, <1>7, <1>15 DEF p
  <2>5. M.run_queue[E] \notin S \cup {t} \cup {NULL} =>
          ~IsLinked(M, M.run_queue[E]) /\ pr[M.run_queue[E]] \in A
    <3>1. M.run_queue[E] = L.run_queue[E] \/ M.run_queue[E] = t
      BY <1>2, <1>7
    <3>2. L.run_queue[E] \in Pointers
      BY <1>2 DEF LinkRecords
    <3> QED BY <1>2, <1>7, <3>1, <3>2 DEF Pointers
  <2>6. ASSUME NEW q \in Priorities \ (A \cup {E})
        PROVE  /\ M.run_queue[q] # NULL =>
                    M.run_queue[q] \in Level(pr, S \cup {t} \cup K, q) /\ IsLinked(M, M.run_queue[q])
               /\ Closed(M, Level(pr, S \cup {t} \cup K, q))
    <3>1. Level(pr, S \cup {t} \cup K, q) = Level(pr, S \cup K, q)
      BY <1>15, <2>6 DEF Level, p
    <3>2. M.run_queue[q] = L.run_queue[q]
      BY <1>7, <1>15, <2>6
    <3>3. L.run_queue[q] # NULL => L.run_queue[q] \in AllTasks
      BY <1>3, <2>6 DEF Level
    <3>4. h \notin Level(pr, S \cup K, q) /\ t \notin Level(pr, S \cup K, q)
      BY <1>15, <2>1, <2>6, Domains DEF Level, p
    <3> QED BY <1>3, <1>7, <1>8, <1>12, <2>6, <3>1, <3>2, <3>3, <3>4
  <2>7. ASSUME NEW u \in AllTasks, u \notin S \cup {t} \cup K, IsLinked(M, u)
        PROVE  pr[u] \notin A \cup {E} /\ Leads(M, u, M.run_queue[pr[u]])
    <3>1. u # t /\ IsLinked(L, u) /\ pr[u] \in Priorities
      BY <1>7, <2>7
    <3>2. pr[u] \notin A \cup {E} /\ Leads(L, u, L.run_queue[pr[u]])
      BY <1>4, <2>7, <3>1
    <3>3. M.run_queue[pr[u]] = L.run_queue[pr[u]]
      BY <1>7, <1>15, <3>1, <3>2
    <3> QED BY <1>9, <3>1, <3>2, <3>3
  <2>8. ASSUME NEW u \in S \cup {t}, u # o, pr[u] \in A
        PROVE  Leads(M, u, IF IsLinked(M, o) THEN o ELSE M.run_queue[E])
    <3>1. CASE u = t
      <4>1. h = o /\ h # NULL
        BY <1>2, <2>8, <3>1, Domains DEF p, h
      <4>2. IsLinked(M, o)
        BY <1>7, <4>1
      <4> QED BY <1>10, <3>1, <4>1, <4>2
    <3>2. CASE u # t
      <4>1. u \in S /\ u \in AllTasks
        BY <2>8, <3>2
      <4>2. IsLinked(M, o) <=> IsLinked(L, o)
        BY <1>7
      <4>3. CASE IsLinked(L, o)
        BY <1>5, <1>9, <2>8, <3>2, <4>1, <4>2, <4>3
      <4>4. CASE ~IsLinked(L, o)
        <5>1. Leads(L, u, L.run_queue[E]) /\ L.run_queue[E] # NULL
          BY <1>5, <1>11, <2>8, <3>2, <4>1, <4>4
        <5>2. M.run_queue[E] = L.run_queue[E]
          BY <1>2, <1>7, <5>1 DEF h
        <5> QED BY <1>9, <3>2, <4>1, <4>2, <4>4, <5>1, <5>2
      <4> QED BY <4>3, <4>4
    <3> QED BY <3>1, <3>2
  <2>9. ~IsLinked(M, o) => E = pr[o] /\ b \in A /\ M.run_queue[E] # o
    BY <1>2, <1>7
  <2> QED BY <1>2, <2>2, <2>3, <2>4, <2>5, <2>6, <2>7, <2>8, <2>9 DEF Shape
<1>16. ASSUME p \notin A \cup {E} PROVE Shape(M, pr, b, o, A, E, S, K)
  <2>1. h # NULL => h \in Level(pr, S \cup K, p)
    BY <1>3, <1>6, <1>16 DEF h
  <2>2. /\ \A r \in A : r < E /\ M.run_queue[r] = o
        /\ M.run_queue[E] = L.run_queue[E]
    BY <1>2, <1>7, <1>16
  <2>3. Closed(M, S)
    BY <1>2, <1>6, <1>8, <2>1, Domains DEF Level
  <2>4. /\ \A u \in S : u # o => IsLinked(M, u) /\ pr[u] \in A \cup {E}
        /\ \A u \in K : IsLinked(M, u) /\ pr[u] <= E
    BY <1>2, <1>7
  <2>5. M.run_queue[E] \notin S \cup {NULL} =>
          ~IsLinked(M, M.run_queue[E]) /\ pr[M.run_queue[E]] \in A
    <3>2. L.run_queue[E] \in Pointers
      BY <1>2 DEF LinkRecords
    <3> QED BY <1>2, <1>7, <1>16, <2>2, <3>2 DEF Pointers, p
  <2>6. ASSUME NEW q \in Priorities \ (A \cup {E})
        PROVE  /\ M.run_queue[q] # NULL =>
                    M.run_queue[q] \in Level(pr, S \cup K, q) /\ IsLinked(M, M.run_queue[q])
               /\ Closed(M, Level(pr, S \cup K, q))
    <3>0. q = p => t \in Level(pr, S \cup K, q)
      BY <1>6 DEF Level, p
    <3>1. q # p => t \notin Level(pr, S \cup K, q) /\ h \notin Level(pr, S \cup K, q)
      BY <2>1, <1>12, Domains DEF Level, p
    <3>2. M.run_queue[q] # NULL =>
            M.run_queue[q] \in Level(pr, S \cup K, q) /\ IsLinked(M, M.run_queue[q])
      <4>1. L.run_queue[q] # NULL => L.run_queue[q] \in AllTasks
        BY <1>3, <2>6 DEF Level
      <4>2. CASE q = p /\ h = NULL
        BY <1>7, <3>0, <4>2
      <4>3. CASE ~(q = p /\ h = NULL)
        BY <1>3, <1>7, <2>6, <4>1, <4>3
      <4> QED BY <4>2, <4>3
    <3>3. Closed(M, Level(pr, S \cup K, q))
      <4>1. CASE q = p
        <5>1. Level(pr, S \cup K, q) \cup {t} = Level(pr, S \cup K, q)
          BY <3>0, <4>1
        <5>2. Closed(M, Level(pr, S \cup K, q) \cup {t})
          BY <1>3, <1>8, <1>12, <2>1, <2>6, <4>1
        <5> QED BY <5>1, <5>2
      <4>2. CASE q # p
        BY <1>3, <1>8, <1>12, <2>6, <3>1, <4>2
      <4> QED BY <4>1, <4>2
    <3> QED BY <3>2, <3>3
  <2>7. ASSUME NEW u \in AllTasks, u \notin S \cup K, IsLinked(M, u)
        PROVE  pr[u] \notin A \cup {E} /\ Leads(M, u, M.run_queue[pr[u]])
    <3>1. CASE u = t
      BY <1>10, <1>16, <3>1 DEF p
    <3>2. CASE u # t
      <4>1. IsLinked(L, u) /\ pr[u] \in Priorities
        BY <1>7, <2>7, <3>2
      <4>2. pr[u] \notin A \cup {E} /\ Leads(L, u, L.run_queue[pr[u]]) /\ L.run_queue[pr[u]] # NULL
        BY <1>4, <1>11, <2>7, <4>1
      <4>3. M.run_queue[pr[u]] = L.run_queue[pr[u]]
        BY <1>7, <4>1, <4>2 DEF h
      <4> QED BY <1>9, <3>2, <4>2, <4>3
    <3> QED BY <3>1, <3>2
  <2>8. ASSUME NEW u \in S, u # o, pr[u] \in A
        PROVE  Leads(M, u, IF IsLinked(M, o) THEN o ELSE M.run_queue[E])
    <3>1. IsLinked(M, o) <=> IsLinked(L, o)
      BY <1>7
    <3>2. u # t
      BY <1>6
    <3>3. Leads(L, u, IF IsLinked(L, o) THEN o ELSE L.run_queue[E])
      BY <1>5, <2>8
    <3> QED BY <1>9, <2>2, <3>1, <3>2, <3>3
  <2>9. ~IsLinked(M, o) => E = pr[o] /\ b \in A /\ M.run_queue[E] # o
    BY <1>2, <1>7, <2>2
  <2> QED BY <1>2, <1>14, <2>2, <2>3, <2>4, <2>5, <2>6, <2>7, <2>8, <2>9 DEF Shape
<1>17. S \cup {t} \in SUBSET AllTasks
  OBVIOUS
<1> QED BY <1>15, <1>16, <1>17 DEF Shaped

\* The owner joins the ring of its level again.
LEMMA ShapePutOwner ==
  ASSUME NEW L \in LinkRecords, Doubly(L), NEW pr \in [AllTasks -> Priorities],
         NEW b \in Priorities, NEW o \in AllTasks, NEW E, Shaped(L, pr, b, o, E),
         NEW M, ~IsLinked(L, o), Put(L, M, o, pr[o])
  PROVE  Shaped(M, pr, b, o, E)
<1> DEFINE h == L.run_queue[E]
<1>1. PICK A \in SUBSET Priorities, S \in SUBSET AllTasks, K \in SUBSET AllTasks :
        Shape(L, pr, b, o, A, E, S, K)
  BY DEF Shaped
<1>2. /\ E \in Priorities
      /\ b \in A \/ (A = {} /\ E = b)
      /\ E <= pr[o]
      /\ \A r \in A : r < E /\ L.run_queue[r] = o
      /\ o \in S /\ S \cap K = {} /\ Closed(L, S) /\ Closed(L, K)
      /\ \A u \in S : u # o => IsLinked(L, u) /\ pr[u] \in A \cup {E}
      /\ \A u \in K : IsLinked(L, u) /\ pr[u] <= E
      /\ h \notin S \cup {NULL} => ~IsLinked(L, h) /\ pr[h] \in A
      /\ E = pr[o] /\ b \in A /\ h # o
  BY <1>1 DEF Shape
<1>3. \A q \in Priorities \ (A \cup {E}) :
        /\ L.run_queue[q] # NULL => L.run_queue[q] \in Level(pr, S \cup K, q) /\ IsLinked(L, L.run_queue[q])
        /\ Closed(L, Level(pr, S \cup K, q))
  BY <1>1 DEF Shape
<1>4. \A u \in AllTasks : u \notin S \cup K /\ IsLinked(L, u) =>
        pr[u] \notin A \cup {E} /\ Leads(L, u, L.run_queue[pr[u]])
  BY <1>1 DEF Shape
<1>5. \A u \in S : u # o /\ pr[u] \in A => Leads(L, u, h)
  BY <1>1 DEF Shape
<1>6. o # NULL /\ o \notin K
  BY <1>2, Domains
<1>7. /\ \A u \in AllTasks : IsLinked(M, u) <=> IsLinked(L, u) \/ u = o
      /\ \A q \in Priorities : M.run_queue[q] = IF q = E /\ h = NULL THEN o ELSE L.run_queue[q]
      /\ h # NULL => IsLinked(L, h) /\ h # o
      /\ M \in LinkRecords /\ Doubly(M)
  BY <1>2 DEF Put
<1>8. \A T \in SUBSET AllTasks : Closed(L, T) =>
        /\ h \in T \cup {NULL} => Closed(M, T \cup {o})
        /\ h \notin T /\ o \notin T => Closed(M, T)
  BY <1>2 DEF Put, PutInto
<1>9. \A u \in AllTasks : u # o => \A g : Leads(L, u, g) => Leads(M, u, g) /\ (g = h => Leads(M, u, o))
  BY <1>2, LeadsPut
<1> HIDE DEF h
<1>11. \A u \in AllTasks : \A g : Leads(L, u, g) => g # NULL
  BY LeadsInto, AllClosed
<1>12. ASSUME NEW q \in Priorities PROVE Level(pr, S \cup K, q) \in SUBSET AllTasks
  BY DEF Level
<1>13. h \in S \cup {NULL} /\ h \notin K
  BY <1>2, <1>7, Domains
<1> SUFFICES Shape(M, pr, b, o, A, E, S, K)
  BY DEF Shaped
<1>14. \A r \in A : r < E /\ M.run_queue[r] = o
  BY <1>2, <1>7
<1>15. Closed(M, S) /\ Closed(M, K)
  <2>1. S \cup {o} = S
    BY <1>2
  <2>2. Closed(M, S \cup {o})
    BY <1>2, <1>8, <1>13
  <2> QED BY <1>2, <1>6, <1>8, <1>13, <2>1, <2>2
<1>16. /\ \A u \in S : u # o => IsLinked(M, u) /\ pr[u] \in A \cup {E}
       /\ \A u \in K : IsLinked(M, u) /\ pr[u] <= E
  BY <1>2, <1>7
<1>17. M.run_queue[E] \in S
  BY <1>2, <1>7, <1>13 DEF h
<1>18. ASSUME NEW q \in Priorities \ (A \cup {E})
       PROVE  /\ M.run_queue[q] # NULL =>
                   M.run_queue[q] \in Level(pr, S \cup K, q) /\ IsLinked(M, M.run_queue[q])
              /\ Closed(M, Level(pr, S \cup K, q))
  <2>1. L.run_queue[q] # NULL => L.run_queue[q] \in AllTasks
    BY <1>3, <1>18 DEF Level
  <2>2. M.run_queue[q] = L.run_queue[q]
    BY <1>7, <1>18
  <2>3. h \notin Level(pr, S \cup K, q) /\ o \notin Level(pr, S \cup K, q)
    BY <1>2, <1>13, Domains DEF Level
  <2> QED BY <1>3, <1>7, <1>8, <1>12, <1>18, <2>1, <2>2, <2>3
<1>19. ASSUME NEW u \in AllTasks, u \notin S \cup K, IsLinked(M, u)
       PROVE  pr[u] \notin A \cup {E} /\ Leads(M, u, M.run_queue[pr[u]])
  <2>1. u # o /\ IsLinked(L, u) /\ pr[u] \in Priorities
    BY <1>2, <1>7, <1>19
  <2>2. pr[u] \notin A \cup {E} /\ Leads(L, u, L.run_queue[pr[u]])
    BY <1>4, <1>19, <2>1
  <2>3. M.run_queue[pr[u]] = L.run_queue[pr[u]]
    BY <1>7, <2>1, <2>2
  <2> QED BY <1>9, <2>1, <2>2, <2>3
<1>20. ASSUME NEW u \in S, u # o, pr[u] \in A PROVE Leads(M, u, o)
  BY <1>5, <1>9, <1>20
<1>21. IsLinked(M, o)
  BY <1>7
<1> QED BY <1>2, <1>14, <1>15, <1>16, <1>17, <1>18, <1>19, <1>20, <1>21 DEF Shape

\* Another task, the head of the highest level in use, is taken from its ring.
LEMMA ShapeTake ==
  ASSUME NEW L \in LinkRecords, Doubly(L), NEW pr \in [AllTasks -> Priorities],
         NEW b \in Priorities, NEW o \in AllTasks, NEW E, Shaped(L, pr, b, o, E),
         IsLinked(L, o),
         NEW hp \in Priorities, NEW t \in AllTasks, L.run_queue[hp] = t, t # o,
         NEW M, Taken(L, M, t, pr[t])
  PROVE  Shaped(M, pr, b, o, E)
<1> DEFINE p == pr[t]
           nx == L.next[t]
<1>1. PICK A \in SUBSET Priorities, S \in SUBSET AllTasks, K \in SUBSET AllTasks :
        Shape(L, pr, b, o, A, E, S, K)
  BY DEF Shaped
<1>2. /\ E \in Priorities
      /\ b \in A \/ (A = {} /\ E = b)
      /\ E <= pr[o]
      /\ \A r \in A : r < E /\ L.run_queue[r] = o
      /\ o \in S /\ S \cap K = {} /\ Closed(L, S) /\ Closed(L, K)
      /\ \A u \in S : u # o => IsLinked(L, u) /\ pr[u] \in A \cup {E}
      /\ \A u \in K : IsLinked(L, u) /\ pr[u] <= E
      /\ L.run_queue[E] \notin S \cup {NULL} => ~IsLinked(L, L.run_queue[E]) /\ pr[L.run_queue[E]] \in A
  BY <1>1 DEF Shape
<1>3. \A q \in Priorities \ (A \cup {E}) :
        /\ L.run_queue[q] # NULL => L.run_queue[q] \in Level(pr, S \cup K, q) /\ IsLinked(L, L.run_queue[q])
        /\ Closed(L, Level(pr, S \cup K, q))
  BY <1>1 DEF Shape
<1>4. \A u \in AllTasks : u \notin S \cup K /\ IsLinked(L, u) =>
        pr[u] \notin A \cup {E} /\ Leads(L, u, L.run_queue[pr[u]])
  BY <1>1 DEF Shape
<1>5. \A u \in S : u # o /\ pr[u] \in A => Leads(L, u, o)
  BY <1>1 DEF Shape
<1>6. p \in Priorities /\ t # NULL /\ hp \notin A
  BY <1>2, Domains
<1>7. /\ \A u \in AllTasks : IsLinked(M, u) <=> IsLinked(L, u) /\ u # t
      /\ \A q \in Priorities :
           M.run_queue[q] = IF q # p THEN L.run_queue[q]
                            ELSE IF nx = t THEN NULL
                            ELSE IF L.run_queue[p] = t THEN nx ELSE L.run_queue[p]
      /\ nx \in AllTasks /\ IsLinked(L, t)
      /\ nx = t => Closed(L, {t})
      /\ M \in LinkRecords /\ Doubly(M)
  BY DEF Taken
<1>8. \A T \in SUBSET AllTasks : Closed(L, T) =>
        Closed(M, T) /\ Closed(M, T \ {t}) /\ (t \in T <=> nx \in T)
  BY DEF Taken, TakenFrom
<1>9. \A u \in AllTasks : u # t => \A g : Leads(L, u, g) =>
        (g # t => Leads(M, u, g)) /\ (g = t => nx # t /\ Leads(M, u, nx))
  BY LeadsTaken
<1>10. IsLinked(L, nx)
  BY <1>7, Neighbours
<1> HIDE DEF p, nx
<1>11. \A u \in AllTasks : \A g : Leads(L, u, g) => g # NULL
  BY LeadsInto, AllClosed
<1>12. ASSUME NEW q \in Priorities PROVE Level(pr, S \cup K, q) \in SUBSET AllTasks
  BY DEF Level
<1>13. IsLinked(M, o) /\ Closed(M, K)
  BY <1>2, <1>7, <1>8
<1>14. ASSUME hp = E PROVE Shape(M, pr, b, o, A, E, S \ {t}, K)
  <2>1. t \in S /\ t \notin K /\ p \in A \cup {E} /\ nx \in S
    BY <1>2, <1>6, <1>7, <1>8, <1>14 DEF p
  <2>2. ASSUME p \in A PROVE nx # t /\ L.run_queue[p] = o /\ p # E
    <3>1. Leads(L, t, o)
      BY <1>5, <2>1, <2>2 DEF p
    <3>2. ASSUME nx = t PROVE FALSE
      BY <1>7, <3>1, <3>2, LeadsInto
    <3>3. ~ (E < E)
      BY <1>2, KMutexAssumption DEF Priorities
    <3> QED BY <1>2, <2>2, <3>2, <3>3
  <2>3. \A r \in A : r < E /\ M.run_queue[r] = o
    BY <1>2, <1>7, <2>2
  <2>4. /\ o \in S \ {t} /\ (S \ {t}) \cap K = {} /\ S \ {t} \in SUBSET AllTasks
        /\ Closed(M, S \ {t})
    BY <1>2, <1>8
  <2>5. /\ \A u \in S \ {t} : u # o => IsLinked(M, u) /\ pr[u] \in A \cup {E}
        /\ \A u \in K : IsLinked(M, u) /\ pr[u] <= E
    BY <1>2, <1>7, <2>1
  <2>6. M.run_queue[E] \notin (S \ {t}) \cup {NULL} =>
          ~IsLinked(M, M.run_queue[E]) /\ pr[M.run_queue[E]] \in A
    <3>1. CASE p = E
      <4>1. M.run_queue[E] = IF nx = t THEN NULL ELSE nx
        BY <1>2, <1>7, <1>14, <3>1
      <4> QED BY <2>1, <4>1
    <3>2. CASE p # E
      <4>1. M.run_queue[E] = t /\ p \in A
        BY <1>2, <1>7, <1>14, <2>1, <3>2
      <4> QED BY <1>7, <4>1 DEF p
    <3> QED BY <3>1, <3>2
  <2>7. ASSUME NEW q \in Priorities \ (A \cup {E})
        PROVE  /\ M.run_queue[q] # NULL =>
                    M.run_queue[q] \in Level(pr, (S \ {t}) \cup K, q) /\ IsLinked(M, M.run_queue[q])
               /\ Closed(M, Level(pr, (S \ {t}) \cup K, q))
    <3>1. Level(pr, (S \ {t}) \cup K, q) = Level(pr, S \cup K, q)
      BY <2>1, <2>7 DEF Level, p
    <3>2. M.run_queue[q] = L.run_queue[q]
      BY <1>7, <2>1, <2>7
    <3>3. t \notin Level(pr, S \cup K, q)
      BY <2>1 DEF Level
    <3>4. L.run_queue[q] # NULL => L.run_queue[q] \in AllTasks /\ L.run_queue[q] # t
      BY <1>3, <2>7, <3>3, <1>12
    <3> QED BY <1>3, <1>7, <1>8, <1>12, <2>7, <3>1, <3>2, <3>4
  <2>8. ASSUME NEW u \in AllTasks, u \notin (S \ {t}) \cup K, IsLinked(M, u)
        PROVE  pr[u] \notin A \cup {E} /\ Leads(M, u, M.run_queue[pr[u]])
    <3>1. u # t /\ u \notin S \cup K /\ IsLinked(L, u) /\ pr[u] \in Priorities
      BY <1>7, <2>8
    <3>2. pr[u] \notin A \cup {E} /\ Leads(L, u, L.run_queue[pr[u]])
      BY <1>4, <3>1
    <3>3. M.run_queue[pr[u]] = L.run_queue[pr[u]] /\ L.run_queue[pr[u]] # NULL
      BY <1>7, <1>11, <2>1, <3>1, <3>2
    <3>4. L.run_queue[pr[u]] # t
      BY <1>3, <2>1, <3>1, <3>2, <3>3 DEF Level
    <3> QED BY <1>9, <3>1, <3>2, <3>3, <3>4
  <2>9. ASSUME NEW u \in S \ {t}, u # o, pr[u] \in A PROVE Leads(M, u, o)
    BY <1>5, <1>9, <2>9
  <2> QED BY <1>2, <1>13, <2>3, <2>4, <2>5, <2>6, <2>7, <2>8, <2>9 DEF Shape
<1>15. ASSUME hp # E PROVE Shape(M, pr, b, o, A, E, S, K)
  <2>1. t \in Level(pr, S \cup K, hp) /\ hp \notin A \cup {E}
    BY <1>3, <1>6, <1>15
  <2>2. p = hp /\ t \notin S \cup K /\ L.run_queue[p] = t
    BY <2>1 DEF Level, p
  <2>3. nx \in Level(pr, S \cup K, p)
    BY <1>3, <1>8, <1>12, <2>1, <2>2
  <2>4. /\ \A r \in A : r < E /\ M.run_queue[r] = o
        /\ M.run_queue[E] = L.run_queue[E]
    BY <1>2, <1>7, <2>1, <2>2
  <2>5. Closed(M, S)
    BY <1>2, <1>8
  <2>6. /\ \A u \in S : u # o => IsLinked(M, u) /\ pr[u] \in A \cup {E}
        /\ \A u \in K : IsLinked(M, u) /\ pr[u] <= E
    BY <1>2, <1>7, <2>2
  <2>7. M.run_queue[E] \notin S \cup {NULL} =>
          ~IsLinked(M, M.run_queue[E]) /\ pr[M.run_queue[E]] \in A
    <3>1. L.run_queue[E] \in Pointers
      BY <1>2 DEF LinkRecords
    <3> QED BY <1>2, <1>7, <2>4, <3>1 DEF Pointers
  <2>8. ASSUME NEW q \in Priorities \ (A \cup {E})
        PROVE  /\ M.run_queue[q] # NULL =>
                    M.run_queue[q] \in Level(pr, S \cup K, q) /\ IsLinked(M, M.run_queue[q])
               /\ Closed(M, Level(pr, S \cup K, q))
    <3>1. Closed(M, Level(pr, S \cup K, q))
      BY <1>3, <1>8, <1>12, <2>8
    <3>2. CASE q = p
      <4>1. M.run_queue[q] = IF nx = t THEN NULL ELSE nx
        BY <1>7, <2>2, <2>8, <3>2
      <4> QED BY <1>7, <1>10, <2>3, <3>1, <3>2, <4>1
    <3>3. CASE q # p
      <4>1. M.run_queue[q] = L.run_queue[q]
        BY <1>7, <2>8, <3>3
      <4>2. L.run_queue[q] # NULL => L.run_queue[q] \in AllTasks /\ L.run_queue[q] # t
        BY <1>3, <2>8, <3>3 DEF Level, p
      <4> QED BY <1>3, <1>7, <2>8, <3>1, <4>1, <4>2
    <3> QED BY <3>2, <3>3
  <2>9. ASSUME NEW u \in AllTasks, u \notin S \cup K, IsLinked(M, u)
        PROVE  pr[u] \notin A \cup {E} /\ Leads(M, u, M.run_queue[pr[u]])
    <3>1. u # t /\ IsLinked(L, u) /\ pr[u] \in Priorities
      BY <1>7, <2>9
    <3>2. pr[u] \notin A \cup {E} /\ Leads(L, u, L.run_queue[pr[u]]) /\ L.run_queue[pr[u]] # NULL
      BY <1>4, <1>11, <2>9, <3>1
    <3>3. CASE pr[u] = p
      <4>1. nx # t /\ Leads(M, u, nx)
        BY <1>9, <2>2, <3>1, <3>2, <3>3
      <4>2. M.run_queue[p] = nx
        BY <1>6, <1>7, <2>2, <4>1
      <4> QED BY <3>2, <3>3, <4>1, <4>2
    <3>4. CASE pr[u] # p
      <4>1. M.run_queue[pr[u]] = L.run_queue[pr[u]]
        BY <1>7, <3>1, <3>4
      <4>2. L.run_queue[pr[u]] # t
        BY <1>3, <3>1, <3>2, <3>4 DEF Level, p
      <4> QED BY <1>9, <3>1, <3>2, <4>1, <4>2
    <3> QED BY <3>3, <3>4
  <2>10. ASSUME NEW u \in S, u # o, pr[u] \in A PROVE Leads(M, u, o)
    BY <1>5, <1>9, <2>2, <2>10
  <2> QED BY <1>2, <1>13, <2>4, <2>5, <2>6, <2>7, <2>8, <2>9, <2>10 DEF Shape
<1>16. S \ {t} \in SUBSET AllTasks
  OBVIOUS
<1> QED BY <1>14, <1>15, <1>16 DEF Shaped

\* The owner, the head of the highest level in use, is taken from its ring.  When that level
\* is not the one of its priority, the level keeps it as the head, and the ring it leaves
\* behind is lost.
LEMMA ShapeTakeOwner ==
  ASSUME NEW L \in LinkRecords, Doubly(L), NEW pr \in [AllTasks -> Priorities],
         NEW b \in Priorities, NEW o \in AllTasks, NEW E, Shaped(L, pr, b, o, E),
         b < pr[o],
         NEW hp \in Priorities, L.run_queue[hp] = o,
         \A q \in Priorities : L.run_queue[q] # NULL => q <= hp,
         NEW M, Taken(L, M, o, pr[o])
  PROVE  Shaped(M, pr, b, o, pr[o])
<1> DEFINE P == pr[o]
           nx == L.next[o]
<1>1. PICK A \in SUBSET Priorities, S \in SUBSET AllTasks, K \in SUBSET AllTasks :
        Shape(L, pr, b, o, A, E, S, K)
  BY DEF Shaped
<1>2. /\ E \in Priorities
      /\ b \in A \/ (A = {} /\ E = b)
      /\ E <= P
      /\ \A r \in A : r < E /\ L.run_queue[r] = o
      /\ o \in S /\ S \cap K = {} /\ Closed(L, S) /\ Closed(L, K)
      /\ \A u \in S : u # o => IsLinked(L, u) /\ pr[u] \in A \cup {E}
      /\ \A u \in K : IsLinked(L, u) /\ pr[u] <= E
      /\ L.run_queue[E] \notin S \cup {NULL} => ~IsLinked(L, L.run_queue[E]) /\ pr[L.run_queue[E]] \in A
  BY <1>1 DEF Shape
<1>3. \A q \in Priorities \ (A \cup {E}) :
        /\ L.run_queue[q] # NULL => L.run_queue[q] \in Level(pr, S \cup K, q) /\ IsLinked(L, L.run_queue[q])
        /\ Closed(L, Level(pr, S \cup K, q))
  BY <1>1 DEF Shape
<1>4. \A u \in AllTasks : u \notin S \cup K /\ IsLinked(L, u) =>
        pr[u] \notin A \cup {E} /\ Leads(L, u, L.run_queue[pr[u]])
  BY <1>1 DEF Shape
<1>6. /\ P \in Priorities /\ o # NULL /\ b < P
      /\ \A q \in Priorities : q \in Int /\ ~ (q < q)
  BY Domains, KMutexAssumption DEF Priorities
<1>7. /\ \A u \in AllTasks : IsLinked(M, u) <=> IsLinked(L, u) /\ u # o
      /\ \A q \in Priorities :
           M.run_queue[q] = IF q # P THEN L.run_queue[q]
                            ELSE IF nx = o THEN NULL
                            ELSE IF L.run_queue[P] = o THEN nx ELSE L.run_queue[P]
      /\ nx \in AllTasks /\ IsLinked(L, o)
      /\ nx = o => Closed(L, {o})
      /\ M \in LinkRecords /\ Doubly(M)
  BY DEF Taken
<1>5. \A u \in S : u # o /\ pr[u] \in A => Leads(L, u, o)
  BY <1>1, <1>7 DEF Shape
<1>8. \A T \in SUBSET AllTasks : Closed(L, T) =>
        Closed(M, T) /\ Closed(M, T \ {o}) /\ (o \in T <=> nx \in T)
  BY DEF Taken, TakenFrom
<1>9. \A u \in AllTasks : u # o => \A g : Leads(L, u, g) =>
        (g # o => Leads(M, u, g)) /\ (g = o => nx # o /\ Leads(M, u, nx))
  BY LeadsTaken
<1>10. hp \in A \cup {E} /\ o \notin K
  BY <1>2, <1>3, <1>6 DEF Level
<1> HIDE DEF P, nx
<1>11. \A u \in AllTasks : \A g : Leads(L, u, g) => g # NULL
  BY LeadsInto, AllClosed
<1>12. ASSUME NEW q \in Priorities PROVE Level(pr, S \cup K, q) \in SUBSET AllTasks
  BY DEF Level
<1>13. ~IsLinked(M, o) /\ Closed(M, K)
  BY <1>2, <1>7, <1>8
<1>14. ASSUME hp = E, E = P PROVE Shape(M, pr, b, o, A, P, S, K)
  <2>1. b \in A
    BY <1>2, <1>6, <1>14
  <2>2. \A r \in A : r # P /\ r < P /\ M.run_queue[r] = o
    BY <1>2, <1>6, <1>7, <1>14
  <2>3. M.run_queue[P] = IF nx = o THEN NULL ELSE nx
    BY <1>6, <1>7, <1>14
  <2>4. nx \in S /\ Closed(M, S)
    BY <1>2, <1>8
  <2>5. /\ \A u \in S : u # o => IsLinked(M, u) /\ pr[u] \in A \cup {P}
        /\ \A u \in K : IsLinked(M, u) /\ pr[u] <= P
    BY <1>2, <1>7, <1>10, <1>14
  <2>6. ASSUME NEW q \in Priorities \ (A \cup {P})
        PROVE  /\ M.run_queue[q] # NULL =>
                    M.run_queue[q] \in Level(pr, S \cup K, q) /\ IsLinked(M, M.run_queue[q])
               /\ Closed(M, Level(pr, S \cup K, q))
    <3>1. M.run_queue[q] = L.run_queue[q]
      BY <1>7, <2>6
    <3>2. L.run_queue[q] # NULL => L.run_queue[q] \in AllTasks /\ L.run_queue[q] # o
      BY <1>2, <1>3, <1>14, <2>6 DEF Level
    <3> QED BY <1>3, <1>7, <1>8, <1>12, <1>14, <2>6, <3>1, <3>2
  <2>7. ASSUME NEW u \in AllTasks, u \notin S \cup K, IsLinked(M, u)
        PROVE  pr[u] \notin A \cup {P} /\ Leads(M, u, M.run_queue[pr[u]])
    <3>1. u # o /\ IsLinked(L, u) /\ pr[u] \in Priorities
      BY <1>7, <2>7
    <3>2. pr[u] \notin A \cup {P} /\ Leads(L, u, L.run_queue[pr[u]]) /\ L.run_queue[pr[u]] # NULL
      BY <1>4, <1>11, <1>14, <2>7, <3>1
    <3>3. M.run_queue[pr[u]] = L.run_queue[pr[u]]
      BY <1>7, <3>1, <3>2
    <3>4. L.run_queue[pr[u]] # o
      BY <1>2, <1>3, <1>14, <3>1, <3>2 DEF Level
    <3> QED BY <1>9, <3>1, <3>2, <3>3, <3>4
  <2>8. ASSUME NEW u \in S, u # o, pr[u] \in A PROVE Leads(M, u, M.run_queue[P])
    <3>1. nx # o /\ Leads(M, u, nx)
      BY <1>5, <1>9, <2>8
    <3> QED BY <2>3, <3>1
  <2>9. P <= P
    BY <1>6
  <2>10. M.run_queue[P] \in S \cup {NULL} /\ M.run_queue[P] # o
    BY <1>6, <2>3, <2>4
  <2> QED BY <1>2, <1>6, <1>13, <2>1, <2>2, <2>4, <2>5, <2>6, <2>7, <2>8, <2>9, <2>10 DEF Shape, P
<1>15. ASSUME hp # E \/ E # P
       PROVE  Shape(M, pr, b, o, IF hp = E THEN A \cup {E} ELSE A, P, {o}, K \cup (S \ {o}))
  <2> DEFINE A2 == IF hp = E THEN A \cup {E} ELSE A
             K2 == K \cup (S \ {o})
  <2>1. L.run_queue[P] = NULL /\ P # hp
    <3>1. CASE hp = E
      <4>1. ~ (P <= hp)
        BY <1>2, <1>6, <1>15, <3>1
      <4> QED BY <1>6, <4>1
    <3>2. CASE hp # E
      <4>1. ~ (P <= hp)
        BY <1>2, <1>6, <1>10, <3>2
      <4> QED BY <1>6, <4>1
    <3> QED BY <3>1, <3>2
  <2>2. M.run_queue[P] = NULL /\ \A q \in Priorities : q # P => M.run_queue[q] = L.run_queue[q]
    BY <1>6, <1>7, <2>1
  <2>3. b \in A2
    BY <1>2, <1>10
  <2>4. \A r \in A2 : r \in Priorities /\ r # P /\ r < P /\ L.run_queue[r] = o
    BY <1>2, <1>6, <1>15
  <2>5. hp # E => L.run_queue[E] = NULL
    <3>1. ASSUME hp # E PROVE ~ (E <= hp)
      BY <1>2, <1>6, <1>10, <3>1
    <3> QED BY <1>2, <3>1
  <2>6. {o} \cup K2 = S \cup K
    BY <1>2
  <2>7. Closed(M, {o}) /\ Closed(M, K2)
    <3>1. Closed(M, S \ {o})
      BY <1>2, <1>8
    <3> QED BY <1>7, <1>13, <3>1 DEF Closed
  <2>8. \A u \in K2 : IsLinked(M, u) /\ pr[u] <= P
    <3>1. ASSUME NEW u \in K PROVE IsLinked(M, u) /\ pr[u] <= P
      <4>1. IsLinked(M, u) /\ pr[u] <= E /\ pr[u] \in Priorities
        BY <1>2, <1>7, <1>10, <3>1
      <4> QED BY <1>2, <1>6, <4>1
    <3>2. ASSUME NEW u \in S \ {o} PROVE IsLinked(M, u) /\ pr[u] <= P
      <4>1. IsLinked(M, u) /\ pr[u] \in A \cup {E} /\ pr[u] \in Priorities
        BY <1>2, <1>7, <3>2
      <4>2. pr[u] <= E
        BY <1>2, <1>6, <4>1
      <4> QED BY <1>2, <1>6, <4>1, <4>2
    <3> QED BY <3>1, <3>2
  <2>9. ASSUME NEW q \in Priorities \ (A2 \cup {P})
        PROVE  /\ M.run_queue[q] # NULL =>
                    M.run_queue[q] \in Level(pr, S \cup K, q) /\ IsLinked(M, M.run_queue[q])
               /\ Closed(M, Level(pr, S \cup K, q))
    <3>1. M.run_queue[q] = L.run_queue[q]
      BY <2>2, <2>9
    <3>2. CASE q = E
      <4>1. M.run_queue[q] = NULL
        BY <2>5, <2>9, <3>1, <3>2
      <4>2. ASSUME NEW u \in Level(pr, S \cup K, q) PROVE ~IsLinked(M, u)
        BY <1>4, <1>7, <3>2, <4>2 DEF Level
      <4> QED BY <4>1, <4>2 DEF Closed
    <3>3. CASE q # E
      <4>1. q \in Priorities \ (A \cup {E})
        BY <2>9, <3>3
      <4>2. L.run_queue[q] # NULL => L.run_queue[q] \in AllTasks /\ L.run_queue[q] # o
        BY <1>2, <1>3, <4>1 DEF Level
      <4> QED BY <1>3, <1>7, <1>8, <1>12, <3>1, <4>1, <4>2
    <3> QED BY <3>2, <3>3
  <2>10. ASSUME NEW u \in AllTasks, u \notin S \cup K, IsLinked(M, u)
         PROVE  pr[u] \notin A2 \cup {P} /\ Leads(M, u, M.run_queue[pr[u]])
    <3>1. u # o /\ IsLinked(L, u) /\ pr[u] \in Priorities
      BY <1>7, <2>10
    <3>2. pr[u] \notin A \cup {E} /\ Leads(L, u, L.run_queue[pr[u]]) /\ L.run_queue[pr[u]] # NULL
      BY <1>4, <1>11, <2>10, <3>1
    <3>3. pr[u] # P
      BY <2>1, <3>2
    <3>4. M.run_queue[pr[u]] = L.run_queue[pr[u]]
      BY <2>2, <3>1, <3>3
    <3>5. L.run_queue[pr[u]] # o
      BY <1>2, <1>3, <3>1, <3>2 DEF Level
    <3> QED BY <1>9, <3>1, <3>2, <3>3, <3>4, <3>5
  <2>11. P <= P /\ P = pr[o]
    BY <1>6 DEF P
  <2>12. /\ A2 \in SUBSET Priorities /\ K2 \in SUBSET AllTasks /\ {o} \in SUBSET AllTasks
         /\ o \in {o} /\ {o} \cap K2 = {}
    BY <1>2, <1>10
  <2>13. \A r \in A2 : r < P /\ M.run_queue[r] = o
    BY <2>2, <2>4
  <2> HIDE DEF A2, K2
  <2>14. Shape(M, pr, b, o, A2, P, {o}, K2)
    BY <1>6, <1>13, <2>2, <2>3, <2>6, <2>7, <2>8, <2>9, <2>10, <2>11, <2>12, <2>13 DEF Shape
  <2> QED BY <2>14 DEF A2, K2
<1>16. /\ (IF hp = E THEN A \cup {E} ELSE A) \in SUBSET Priorities
       /\ {o} \in SUBSET AllTasks /\ K \cup (S \ {o}) \in SUBSET AllTasks
  BY <1>2
<1> QED BY <1>14, <1>15, <1>16 DEF Shaped, P

\* The priority of the owner, which is linked, is raised above the level E.
LEMMA ShapeRaise ==
  ASSUME NEW L \in LinkRecords, NEW pr \in [AllTasks -> Priorities],
         NEW b \in Priorities, NEW o \in AllTasks, NEW E, Shaped(L, pr, b, o, E),
         IsLinked(L, o), NEW v \in Priorities, E < v
  PROVE  Shaped(L, [pr EXCEPT ![o] = v], b, o, E) /\ b < v
<1> DEFINE pr2 == [pr EXCEPT ![o] = v]
<1>1. PICK A \in SUBSET Priorities, S \in SUBSET AllTasks, K \in SUBSET AllTasks :
        Shape(L, pr, b, o, A, E, S, K)
  BY DEF Shaped
<1>2. /\ pr2[o] = v /\ \A u \in AllTasks : u # o => pr2[u] = pr[u]
      /\ \A q \in Priorities : q \in Int
  BY DEF Priorities
<1> HIDE DEF pr2
<1>3. o \in S /\ o \notin K /\ E \in Priorities
  BY <1>1 DEF Shape
<1>4. \A q \in Priorities : Level(pr2, S \cup K, q) = Level(pr, S \cup K, q)
  BY <1>2, <1>3 DEF Level
<1>5. E <= pr2[o] /\ b < v
  BY <1>1, <1>2, <1>3 DEF Shape
<1>6. /\ \A u \in S : u # o => u \in AllTasks /\ IsLinked(L, u) /\ pr2[u] \in A \cup {E}
      /\ \A u \in K : IsLinked(L, u) /\ pr2[u] <= E
      /\ \A u \in S : u # o /\ pr2[u] \in A => Leads(L, u, o)
  BY <1>1, <1>2, <1>3 DEF Shape
<1>7. L.run_queue[E] \notin S \cup {NULL} => ~IsLinked(L, L.run_queue[E]) /\ pr2[L.run_queue[E]] \in A
  <2>1. L.run_queue[E] \notin S \cup {NULL} => ~IsLinked(L, L.run_queue[E]) /\ pr[L.run_queue[E]] \in A
    BY <1>1 DEF Shape
  <2>3. CASE L.run_queue[E] \in AllTasks
    BY <1>2, <1>3, <2>1, <2>3
  <2>4. CASE L.run_queue[E] \notin AllTasks
    <3>1. L.run_queue[E] = NULL
      BY <1>3, <2>4 DEF LinkRecords, Pointers
    <3> QED BY <3>1
  <2> QED BY <2>3, <2>4
<1>8. \A u \in AllTasks : u \notin S \cup K /\ IsLinked(L, u) =>
        pr2[u] \notin A \cup {E} /\ Leads(L, u, L.run_queue[pr2[u]])
  BY <1>1, <1>2, <1>3 DEF Shape
<1>9. Shape(L, pr2, b, o, A, E, S, K)
  BY <1>1, <1>4, <1>5, <1>6, <1>7, <1>8 DEF Shape
<1> QED BY <1>5, <1>9 DEF Shaped, pr2
\* A task that is neither linked nor a head gets a priority.
LEMMA ShapeNew ==
  ASSUME NEW L \in LinkRecords, Doubly(L), NEW pr \in [AllTasks -> Priorities],
         NEW b \in Priorities, NEW o \in AllTasks, NEW E, Shaped(L, pr, b, o, E),
         NEW t \in AllTasks, t # o, ~IsLinked(L, t), \A q \in Priorities : L.run_queue[q] # t,
         NEW v \in Priorities
  PROVE  Shaped(L, [pr EXCEPT ![t] = v], b, o, E)
<1> DEFINE pr2 == [pr EXCEPT ![t] = v]
<1>1. PICK A \in SUBSET Priorities, S \in SUBSET AllTasks, K \in SUBSET AllTasks :
        Shape(L, pr, b, o, A, E, S, K)
  BY DEF Shaped
<1>2. pr2[t] = v /\ \A u \in AllTasks : u # t => pr2[u] = pr[u]
  OBVIOUS
<1> HIDE DEF pr2
<1>3. E \in Priorities /\ t \notin S /\ t \notin K
  BY <1>1 DEF Shape
<1>4. ASSUME NEW q \in Priorities \ (A \cup {E})
      PROVE  /\ L.run_queue[q] # NULL => L.run_queue[q] \in Level(pr2, S \cup K, q) /\ IsLinked(L, L.run_queue[q])
             /\ Closed(L, Level(pr2, S \cup K, q))
  <2> DEFINE V == Level(pr, S \cup K, q)
  <2>1. Closed(L, V) /\ (L.run_queue[q] # NULL => L.run_queue[q] \in V /\ IsLinked(L, L.run_queue[q]))
    BY <1>1, <1>4 DEF Shape
  <2>2. V \in SUBSET AllTasks
    BY DEF Level
  <2>3. Level(pr2, S \cup K, q) = IF v = q THEN (V \ {t}) \cup {t} ELSE V \ {t}
    BY <1>2, <1>3 DEF Level
  <2> HIDE DEF V
  <2>4. Closed(L, V \ {t}) /\ Closed(L, (V \ {t}) \cup {t})
    BY <2>1, <2>2, UnlinkedOut
  <2>5. L.run_queue[q] # t
    BY <1>4
  <2> QED BY <2>1, <2>3, <2>4, <2>5
<1>5. E <= pr2[o]
  BY <1>1, <1>2 DEF Shape
<1>6. /\ \A u \in S : u # o => u \in AllTasks /\ IsLinked(L, u) /\ pr2[u] \in A \cup {E}
      /\ \A u \in K : IsLinked(L, u) /\ pr2[u] <= E
      /\ \A u \in S : u # o /\ pr2[u] \in A => Leads(L, u, IF IsLinked(L, o) THEN o ELSE L.run_queue[E])
      /\ ~IsLinked(L, o) => E = pr2[o] /\ b \in A /\ L.run_queue[E] # o
  BY <1>1, <1>2, <1>3 DEF Shape
<1>7. L.run_queue[E] \notin S \cup {NULL} => ~IsLinked(L, L.run_queue[E]) /\ pr2[L.run_queue[E]] \in A
  <2>1. L.run_queue[E] \notin S \cup {NULL} => ~IsLinked(L, L.run_queue[E]) /\ pr[L.run_queue[E]] \in A
    BY <1>1 DEF Shape
  <2>2. L.run_queue[E] # NULL => L.run_queue[E] \in AllTasks /\ L.run_queue[E] # t
    BY <1>3 DEF LinkRecords, Pointers
  <2> QED BY <1>2, <2>1, <2>2
<1>8. \A u \in AllTasks : u \notin S \cup K /\ IsLinked(L, u) =>
        pr2[u] \notin A \cup {E} /\ Leads(L, u, L.run_queue[pr2[u]])
  BY <1>1, <1>2, <1>3 DEF Shape
<1>9. Shape(L, pr2, b, o, A, E, S, K)
  BY <1>1, <1>4, <1>5, <1>6, <1>7, <1>8 DEF Shape
<1> QED BY <1>9 DEF Shaped, pr2

\* Links of tasks that are in no ring do not matter.
LEMMA ShapeKept ==
  ASSUME NEW L, NEW M, NEW pr, NEW b, NEW o \in AllTasks, NEW E, Shaped(L, pr, b, o, E),
         M.prev = L.prev, M.run_queue = L.run_queue,
         \A u \in AllTasks : IsLinked(L, u) => M.next[u] = L.next[u]
  PROVE  Shaped(M, pr, b, o, E)
<1>1. PICK A \in SUBSET Priorities, S \in SUBSET AllTasks, K \in SUBSET AllTasks :
        Shape(L, pr, b, o, A, E, S, K)
  BY DEF Shaped
<1>2. \A u : IsLinked(M, u) <=> IsLinked(L, u)
  BY DEF IsLinked
<1>3. ASSUME NEW T \in SUBSET AllTasks PROVE Closed(M, T) <=> Closed(L, T)
  BY <1>2 DEF Closed
<1>4. \A u, h : Leads(M, u, h) <=> Leads(L, u, h)
  BY <1>3 DEF Leads
<1>5. \A q : Level(pr, S \cup K, q) \in SUBSET AllTasks
  BY DEF Level
<1>6. Shape(M, pr, b, o, A, E, S, K)
  BY <1>1, <1>2, <1>3, <1>4, <1>5 DEF Shape
<1> QED BY <1>6 DEF Shaped

-----------------------------------------------------------------------------
(* The steps before and after the first raise.                             *)

\* Exactly the ready tasks are linked; the idle task, linked before the first switch, may be
\* running.
LinkedReady(L, st) ==
  \A t \in AllTasks : /\ st[t] = "READY" => IsLinked(L, t)
                      /\ IsLinked(L, t) => st[t] = "READY" \/ (t = Idle /\ st[t] = "RUNNING")

\* In a ring every task leads to the head.
LEMMA RingLeads ==
  ASSUME NEW L, NEW q, NEW p, Ring(L, q, p), NEW i \in 1 .. Len(q)
  PROVE  /\ IsLinked(L, q[i]) /\ Leads(L, q[i], L.run_queue[p])
         /\ Holds(q, L.next[q[i]]) /\ Holds(q, L.prev[q[i]])
<1> DEFINE n == Len(q)
<1>1. /\ n \in Nat /\ i \in Nat /\ n >= 1 /\ L.run_queue[p] = q[1]
      /\ \A j \in 1 .. n : q[j] \in AllTasks
      /\ \A j \in 1 .. n : /\ L.next[q[j]] = IF j < n THEN q[j + 1] ELSE q[1]
                           /\ L.prev[q[j]] = IF j > 1 THEN q[j - 1] ELSE q[n]
  <2>1. q \in Seq(AllTasks) /\ L.run_queue[p] = HeadOf(q)
    BY DEF Ring
  <2>2. n \in Nat /\ i \in Nat /\ n >= 1
    BY <2>1
  <2>3. q # <<>>
    BY <2>1, <2>2
  <2> QED BY <2>1, <2>2, <2>3 DEF Ring, HeadOf
<1> HIDE DEF n
<1>2. \A j \in 1 .. n : Holds(q, q[j])
  BY DEF Holds, n
<1>3. Holds(q, L.next[q[i]]) /\ Holds(q, L.prev[q[i]])
  <2>1. (L.next[q[i]] = q[i + 1] /\ i + 1 \in 1 .. n) \/ L.next[q[i]] = q[1]
    BY <1>1 DEF n
  <2>2. (L.prev[q[i]] = q[i - 1] /\ i - 1 \in 1 .. n) \/ L.prev[q[i]] = q[n]
    BY <1>1 DEF n
  <2>3. 1 \in 1 .. n /\ n \in 1 .. n
    BY <1>1
  <2> QED BY <1>2, <2>1, <2>2, <2>3
<1>4. \A j \in 1 .. n : IsLinked(L, q[j])
  <2> SUFFICES ASSUME NEW j \in 1 .. n PROVE L.prev[q[j]] \in AllTasks
    BY Domains DEF IsLinked
  <2>1. j > 1 => j - 1 \in 1 .. n
    BY <1>1
  <2>2. n \in 1 .. n
    BY <1>1
  <2> QED BY <1>1, <2>1, <2>2
<1>5. ASSUME NEW T \in SUBSET AllTasks, Closed(L, T), q[i] \in T PROVE q[1] \in T
  <2> DEFINE Good == {j \in Nat : i + j <= n => q[i + j] \in T}
  <2>1. 0 \in Good
    BY <1>1, <1>5
  <2>2. ASSUME NEW j \in 1 .. n, j - 1 \in Good PROVE j \in Good
    <3> SUFFICES ASSUME i + j <= n PROVE q[i + j] \in T
      BY <1>1, <2>2
    <3> DEFINE k == i + (j - 1)
    <3>1. k \in 1 .. n /\ k < n /\ k + 1 = i + j /\ j - 1 \in Nat
      BY <1>1
    <3>2. q[k] \in T
      BY <2>2, <3>1
    <3> HIDE DEF k
    <3>3. L.next[q[k]] = q[k + 1]
      BY <1>1, <3>1
    <3> QED BY <1>4, <1>5, <3>1, <3>2, <3>3 DEF Closed
  <2> HIDE DEF Good
  <2>3. \A j \in 0 .. n : j \in Good
    BY <1>1, <2>1, <2>2, UpTo DEF Good
  <2>4. n - i \in 0 .. n /\ i + (n - i) = n /\ n \in 1 .. n /\ ~ (n < n)
    BY <1>1 DEF n
  <2>5. q[n] \in T
    BY <2>3, <2>4 DEF Good
  <2>6. L.next[q[n]] = q[1]
    BY <1>1, <2>4
  <2> QED BY <1>4, <1>5, <2>4, <2>5, <2>6 DEF Closed
<1> QED BY <1>1, <1>3, <1>4, <1>5 DEF Leads, n

\* What Represents says of the tasks that are linked.
LEMMA LinkedAreHeld ==
  ASSUME Types, Agree, LinkedReady(links, state), state[Idle] # "RUNNING",
         NEW t \in AllTasks, IsLinked(links, t)
  PROVE  /\ Holds(RunQueues[priority[t]], t) /\ priority[t] \in Priorities
         /\ Leads(links, t, links.run_queue[priority[t]])
         /\ links.next[t] \in AllTasks /\ priority[links.next[t]] = priority[t]
         /\ links.prev[t] \in AllTasks /\ priority[links.prev[t]] = priority[t]
         /\ IsLinked(links, links.next[t]) /\ IsLinked(links, links.prev[t])
<1> DEFINE p == priority[t]
           q == RunQueues[p]
<1>1. p \in Priorities /\ state[t] = "READY"
  BY DEF Types, TypeOK, LinkedReady
<1>2. Holds(q, t)
  BY <1>1, SameDomains DEF Agree, SP!IndInv, SP!RunQueueConsistent, SP!ReadyAreQueued, Holds
<1>3. Ring(links, q, p) /\ q \in Seq(AllTasks)
  BY <1>1 DEF Agree, Lists, Represents
<1>4. \A u \in AllTasks : Holds(q, u) => priority[u] = p
  BY <1>1, Facts
<1> HIDE DEF q
<1>5. \A u : Holds(q, u) => u \in AllTasks
  BY <1>3 DEF Holds
<1>6. \A u : Holds(q, u) => /\ IsLinked(links, u) /\ Leads(links, u, links.run_queue[p])
                            /\ Holds(q, links.next[u]) /\ Holds(q, links.prev[u])
  <2> HIDE DEF p
  <2>1. ASSUME NEW i \in 1 .. Len(q)
        PROVE  /\ IsLinked(links, q[i]) /\ Leads(links, q[i], links.run_queue[p])
               /\ Holds(q, links.next[q[i]]) /\ Holds(q, links.prev[q[i]])
    BY <1>3, RingLeads
  <2>2. \A u : Holds(q, u) => \E i \in 1 .. Len(q) : q[i] = u
    BY DEF Holds
  <2> QED BY <2>1, <2>2
<1> QED BY <1>1, <1>2, <1>4, <1>5, <1>6 DEF q

\* Before the first boost the owner is in the ring of its level and the others are sound.
LEMMA ShapeBefore ==
  ASSUME Types, Agree, LinkedReady(links, state), state[Idle] # "RUNNING",
         NEW o \in Tasks, state[o] = "READY"
  PROVE  Shaped(links, priority, priority[o], o, priority[o])
<1> DEFINE L == links
           pr == priority
           b == priority[o]
           S == {u \in AllTasks : IsLinked(L, u) /\ pr[u] = b}
<1>1. \A u \in AllTasks : IsLinked(L, u) =>
         /\ pr[u] \in Priorities
         /\ Leads(L, u, L.run_queue[pr[u]])
         /\ L.next[u] \in AllTasks /\ pr[L.next[u]] = pr[u]
         /\ L.prev[u] \in AllTasks /\ pr[L.prev[u]] = pr[u]
         /\ IsLinked(L, L.next[u]) /\ IsLinked(L, L.prev[u])
  BY LinkedAreHeld
<1>2. \A p \in Priorities : L.run_queue[p] # NULL =>
        L.run_queue[p] \in AllTasks /\ IsLinked(L, L.run_queue[p]) /\ pr[L.run_queue[p]] = p
  <2> SUFFICES ASSUME NEW p \in Priorities, L.run_queue[p] # NULL
               PROVE  L.run_queue[p] \in AllTasks /\ IsLinked(L, L.run_queue[p]) /\ pr[L.run_queue[p]] = p
    OBVIOUS
  <2> DEFINE q == RunQueues[p]
  <2>1. Ring(L, q, p) /\ q \in Seq(AllTasks) /\ L.run_queue[p] = HeadOf(q)
    BY DEF Agree, Lists, Represents, Ring
  <2>2. \A u \in AllTasks : Holds(q, u) => pr[u] = p
    BY Facts
  <2> HIDE DEF q
  <2>3. q # <<>> /\ L.run_queue[p] = q[1]
    BY <2>1 DEF HeadOf
  <2>4. 1 \in 1 .. Len(q)
    BY <2>1, <2>3
  <2> QED BY <2>1, <2>2, <2>3, <2>4, RingLeads DEF Holds
<1>3. b \in Priorities /\ o \in AllTasks /\ IsLinked(L, o)
  BY Domains DEF Types, TypeOK, LinkedReady
<1> HIDE DEF L, pr, b
<1>4. o \in S
  BY <1>3 DEF b, pr
<1>5. Closed(L, S)
  BY <1>1 DEF Closed
<1>6. ASSUME NEW p \in Priorities \ ({} \cup {b})
      PROVE  /\ L.run_queue[p] # NULL =>
                  L.run_queue[p] \in Level(pr, S \cup {}, p) /\ IsLinked(L, L.run_queue[p])
             /\ Closed(L, Level(pr, S \cup {}, p))
  <2>1. \A u : u \in Level(pr, S \cup {}, p) <=> u \in AllTasks /\ pr[u] = p
    BY <1>6 DEF Level
  <2> QED BY <1>1, <1>2, <1>6, <2>1 DEF Closed
<1>7. ASSUME NEW u \in AllTasks, u \notin S \cup {}, IsLinked(L, u)
      PROVE  pr[u] \notin {} \cup {b} /\ Leads(L, u, L.run_queue[pr[u]])
  BY <1>1, <1>7
<1>8. L.run_queue[b] \in S \cup {NULL}
  BY <1>2, <1>3
<1>9. Closed(L, {}) /\ b = pr[o] /\ b <= b
  BY <1>3, KMutexAssumption DEF Closed, b, pr, Priorities
<1>10. \A u \in S : u # o => IsLinked(L, u) /\ pr[u] \in {} \cup {b}
  OBVIOUS
<1>11. S \in SUBSET AllTasks
  OBVIOUS
<1> HIDE DEF S
<1>12. Shape(L, pr, b, o, {}, b, S, {})
  BY <1>3, <1>4, <1>5, <1>6, <1>7, <1>8, <1>9, <1>10, <1>11 DEF Shape
<1> QED BY <1>11, <1>12 DEF Shaped, L, pr, b

States == {"NEW", "READY", "RUNNING", "BLOCKED"}

\* What the outgoing task is afterwards, before the next one is chosen.
Outgoing(L2) ==
  \/ state[current_task] # "RUNNING" /\ L2 = links
  \/ /\ state[current_task] = "RUNNING" /\ ~IsLinked(links, current_task)
     /\ Put(links, L2, current_task, priority[current_task])
  \/ /\ state[current_task] = "RUNNING" /\ IsLinked(links, current_task) /\ current_task = Idle
     /\ L2.next = links.next /\ L2.prev = links.prev

\* sched_yield_from_isr, when it follows no null pointer: the outgoing task is put, the head
\* of the highest level is taken.
LEMMA YieldLinks ==
  ASSUME Types, Doubly(links), LinkedReady(links, state),
         SchedYield(links, state), ~links'.fault
  PROVE  \E hp \in Priorities : \E L2 \in LinkRecords :
           /\ Doubly(L2) /\ Outgoing(L2)
           /\ current_task' = L2.run_queue[hp] /\ current_task' \in AllTasks
           /\ \A q \in Priorities : L2.run_queue[q] # NULL => q <= hp
           /\ Taken(L2, links', current_task', priority[current_task'])
           /\ \A u \in AllTasks :
                state'[u] = IF u = current_task' THEN "RUNNING"
                            ELSE IF u = current_task /\ state[current_task] = "RUNNING" THEN "READY"
                            ELSE state[u]
<1> DEFINE old == current_task
           queued == state[old] = "RUNNING"
           st2 == IF queued THEN [state EXCEPT ![old] = "READY"] ELSE state
           L2 == IF queued THEN Q!RqEnqueue(links, old, priority[old]) ELSE links
<1>0. /\ old \in AllTasks /\ \A u \in AllTasks : priority[u] \in Priorities
      /\ state \in [AllTasks -> States] /\ links \in LinkRecords
      /\ priority[Idle] = 0 /\ IdleApart(links, Started(state))
  BY DEF Types, TypeOK, LinkRecords, States
<1>1. PICK hp \in Priorities :
        /\ IsPrioHighest(hp, L2.bitmap)
        /\ IF L2.fault \/ L2.run_queue[hp] = NULL
           THEN /\ links' = [L2 EXCEPT !.fault = TRUE]
                /\ state' = st2
                /\ UNCHANGED <<current_task, slice_ticks>>
           ELSE /\ links' = Q!RqRemove(L2, L2.run_queue[hp], priority[L2.run_queue[hp]])
                /\ state' = [st2 EXCEPT ![L2.run_queue[hp]] = "RUNNING"]
                /\ current_task' = L2.run_queue[hp]
                /\ slice_ticks' = TIME_SLICE_TICKS
  BY DEF SchedYield
<1>2. st2 \in [AllTasks -> States]
      /\ \A u \in AllTasks : st2[u] = IF u = old /\ queued THEN "READY" ELSE state[u]
  <2>1. CASE queued
    <3>1. st2 = [state EXCEPT ![old] = "READY"]
      BY <2>1
    <3> HIDE DEF st2
    <3> QED BY <1>0, <2>1, <3>1 DEF States
  <2>2. CASE ~queued
    BY <1>0, <2>2
  <2> QED BY <2>1, <2>2
<1>3. L2 \in LinkRecords
  <2>1. /\ old \in Started(state) \cup {Idle} /\ Started(state) \in SUBSET Tasks
        /\ \A t \in Started(state) \cup {Idle} : Belongs(t, priority[t], Started(state))
    BY Domains DEF Started, Types, Belongs
  <2>2. IdleApart(Q!RqEnqueue(links, old, priority[old]), Started(state))
    BY <1>0, <2>1, EnqueueApart
  <2>3. Q!RqEnqueue(links, old, priority[old]) \in LinkRecords
    BY <2>2 DEF IdleApart
  <2> QED BY <1>0, <2>3
<1>4. ~L2.fault /\ L2.run_queue[hp] # NULL
  <2>1. ASSUME L2.fault \/ L2.run_queue[hp] = NULL PROVE FALSE
    <3>1. links' = [L2 EXCEPT !.fault = TRUE]
      BY <1>1, <2>1
    <3> HIDE DEF L2
    <3> QED BY <1>3, <3>1 DEF LinkRecords
  <2> QED BY <2>1
<1>5. Doubly(L2) /\ Outgoing(L2)
  <2>1. CASE ~queued
    BY <2>1 DEF Outgoing
  <2>2. CASE queued /\ ~IsLinked(links, old)
    <3>1. Put(links, L2, old, priority[old])
      BY <1>0, <1>4, <2>2, EnqueuePuts
    <3> HIDE DEF L2
    <3> QED BY <2>2, <3>1 DEF Outgoing, Put
  <2>3. CASE queued /\ IsLinked(links, old)
    <3>1. old = Idle
      BY <1>0, <2>3 DEF LinkedReady
    <3>2. links.prev[Idle] = Idle /\ links.next[Idle] = Idle
      BY <1>0, <2>3, <3>1, Domains DEF IdleApart, IsLinked, Doubly
    <3>3. L2 = Q!RqEnqueue(links, Idle, 0)
      BY <1>0, <2>3, <3>1
    <3>4. /\ L2.next = links.next /\ L2.prev = links.prev /\ Idle \in AllTasks /\ 0 \in Priorities
          /\ L2.bitmap = links.bitmap \cup {0}
          /\ L2.run_queue = [links.run_queue EXCEPT ![0] = Idle]
      <4>1. CASE links.run_queue[0] = NULL
        <5>1. /\ L2.next = [links.next EXCEPT ![Idle] = Idle] /\ L2.prev = [links.prev EXCEPT ![Idle] = Idle]
              /\ L2.run_queue = [links.run_queue EXCEPT ![0] = Idle]
              /\ L2.bitmap = links.bitmap \cup {0}
          <6> DEFINE N == Q!RqEnqueue(links, Idle, 0)
          <6>1. /\ N.next = [links.next EXCEPT ![Idle] = Idle] /\ N.prev = [links.prev EXCEPT ![Idle] = Idle]
                /\ N.run_queue = [links.run_queue EXCEPT ![0] = Idle]
                /\ N.bitmap = links.bitmap \cup {0}
            <7>1. links \in LinkRecords /\ Idle \in AllTasks /\ 0 \in Priorities
              BY <1>0, Domains
            <7> QED BY <4>1, <7>1, EnqueuedAlone
          <6> HIDE DEF L2, N
          <6> QED BY <3>3, <6>1 DEF N
        <5> HIDE DEF L2
        <5> QED BY <1>0, <3>2, <5>1, Domains DEF LinkRecords
      <4>2. CASE links.run_queue[0] # NULL
        <5>0. links.run_queue[0] = Idle
          BY <1>0, <4>2 DEF IdleApart
        <5>1. /\ L2.next = [links.next EXCEPT ![Idle] = Idle, ![Idle] = Idle]
              /\ L2.prev = [links.prev EXCEPT ![Idle] = Idle, ![Idle] = Idle]
              /\ L2.run_queue = links.run_queue
              /\ L2.bitmap = links.bitmap \cup {0}
          <6> DEFINE N == Q!RqEnqueue(links, Idle, 0)
                     h == links.run_queue[0]
                     tail == links.prev[h]
          <6>1. /\ links \in LinkRecords /\ Idle \in AllTasks /\ 0 \in Priorities
                /\ h \in AllTasks /\ tail \in AllTasks
            BY <1>0, <3>2, <5>0, Domains
          <6>2. /\ N.next = [links.next EXCEPT ![tail] = Idle, ![Idle] = h]
                /\ N.prev = [links.prev EXCEPT ![Idle] = tail, ![h] = Idle]
                /\ N.run_queue = links.run_queue
                /\ N.bitmap = links.bitmap \cup {0} /\ N.fault = links.fault
                /\ N \in LinkRecords
            BY <6>1, EnqueuedLast
          <6>3. h = Idle /\ tail = Idle /\ L2 = N
            BY <3>2, <3>3, <5>0
          <6> HIDE DEF L2, N, h, tail
          <6> QED BY <6>2, <6>3
        <5> HIDE DEF L2
        <5> QED BY <1>0, <3>2, <5>0, <5>1, Domains DEF LinkRecords
      <4> QED BY <4>1, <4>2
    <3> HIDE DEF L2
    <3>5. \A u : IsLinked(L2, u) <=> IsLinked(links, u)
      BY <3>4 DEF IsLinked
    <3>6. \A q \in Priorities : L2.run_queue[q] = IF q = 0 THEN Idle ELSE links.run_queue[q]
      BY <1>0, <3>4 DEF LinkRecords
    <3>7. L2.bitmap = {q \in Priorities : L2.run_queue[q] # NULL}
      BY <3>4, <3>6, Domains DEF Doubly
    <3> QED BY <2>3, <3>1, <3>4, <3>5, <3>7 DEF Outgoing, Doubly
  <2> QED BY <2>1, <2>2, <2>3
<1> DEFINE new == L2.run_queue[hp]
<1>6. new \in AllTasks
  <2> HIDE DEF L2
  <2> QED BY <1>3, <1>4 DEF LinkRecords, Pointers
<1>7. /\ links' = Q!RqRemove(L2, new, priority[new]) /\ current_task' = new
      /\ state' = [st2 EXCEPT ![new] = "RUNNING"]
  <2> HIDE DEF L2, st2
  <2> QED BY <1>1, <1>4
<1>8. Taken(L2, links', new, priority[new])
  <2> HIDE DEF L2
  <2>1. ~Q!RqRemove(L2, new, priority[new]).fault
    BY <1>7
  <2>2. Taken(L2, Q!RqRemove(L2, new, priority[new]), new, priority[new])
    BY <1>0, <1>3, <1>5, <1>6, <2>1, RemoveTakes
  <2> QED BY <1>7, <2>2
<1>9. \A q \in Priorities : L2.run_queue[q] # NULL => q <= hp
  <2> HIDE DEF L2
  <2> QED BY <1>1, <1>5 DEF Doubly, IsPrioHighest
<1>10. \A u \in AllTasks : state'[u] = IF u = new THEN "RUNNING"
                            ELSE IF u = old /\ queued THEN "READY" ELSE state[u]
  <2> HIDE DEF new, st2
  <2> QED BY <1>2, <1>6, <1>7
<1> HIDE DEF L2
<1> QED BY <1>3, <1>5, <1>6, <1>7, <1>8, <1>9, <1>10

\* Only the current task runs, unless it is about to yield.
OneRuns ==
  /\ \A t \in AllTasks : state[t] = "RUNNING" => t = current_task
  /\ state[current_task] # "RUNNING" => current_task \in about_to_yield

\* The wait list has only blocked tasks, which are those in k_mutex_lock's masked section.
Waiting ==
  /\ wait_head # NULL => state[wait_head] = "BLOCKED"
  /\ \A t \in Tasks :
       /\ state[t] = "BLOCKED" => \/ links.next[t] = NULL
                                  \/ /\ links.next[t] \in Tasks
                                     /\ state[links.next[t]] = "BLOCKED"
       /\ state[t] = "BLOCKED" <=> pc[t] = "waiting"

\* Until a priority is raised: a task that is about to raise one finds the owner ready, with
\* a lower priority.
Before ==
  /\ Doubly(links) /\ LinkedReady(links, state)
  /\ \A t \in Tasks : pc[t] = "raise" =>
       /\ owner \in Tasks /\ state[owner] = "READY" /\ priority[owner] < priority[t]
       /\ state[t] \in {"READY", "RUNNING"}

\* The owner has a raised priority.
Boosted ==
  /\ owner \in Tasks
  /\ Doubly(links) /\ OneRuns /\ Waiting
  /\ \A t \in AllTasks : IsLinked(links, t) <=> state[t] = "READY"
  /\ base_priority[owner] < priority[owner]
  /\ \E E \in Priorities :
       /\ Shaped(links, priority, base_priority[owner], owner, E)
       /\ \A t \in Tasks : pc[t] = "raise" =>
            state[t] \in {"READY", "RUNNING"} /\ state[owner] # "RUNNING" /\ E < priority[t]

\* The owner has unlocked the mutex, and the level of its own priority has it as the head
\* although it is in no ring: its next step in the scheduler follows a null pointer.
Doomed ==
  LET o == current_task
  IN  /\ o \in Tasks /\ owner = NULL
      /\ ~IsLinked(links, o) /\ links.run_queue[base_priority[o]] = o
      /\ priority[o] = base_priority[o] /\ state[o] = "RUNNING"
      /\ o \in about_to_yield \/ pc[o] = "unlocked"

\* What a task has seen of m->owner: the store goes to the owner, and the comparison either
\* looks at the owner or does not find the task it looks at lower.
Looks ==
  \A t \in Tasks :
    /\ pc[t] = "raise" => owner \in Tasks /\ seen[t] = owner
    /\ pc[t] = "compare" =>
         /\ t \in Started(state) /\ seen[t] \in Started(state)
         /\ seen[t] = owner \/ priority[t] <= priority[seen[t]]

\* Until a priority is raised: a task before the comparison was preempted, if at all, by
\* tasks that are not lower.
Leading ==
  \A t \in Tasks : pc[t] = "compare" =>
    state[t] \in {"READY", "RUNNING"} /\ priority[t] <= priority[current_task]

\* The invariant.
BoostInv ==
  ~links.fault => IF raised THEN (Boosted /\ Looks) \/ Doomed ELSE Before /\ Looks /\ Leading

\* What every sched_yield_from_isr keeps.
LEMMA YieldKeeps ==
  ASSUME Types, Doubly(links), LinkedReady(links, state), OneRuns,
         SchedYield(links, state), ~links'.fault
  PROVE  /\ Doubly(links') /\ \A u \in AllTasks : IsLinked(links', u) <=> state'[u] = "READY"
         /\ current_task' \in AllTasks /\ state'[current_task'] = "RUNNING"
         /\ \A u \in AllTasks : /\ state'[u] = "RUNNING" => u = current_task'
                                /\ state'[u] = "BLOCKED" <=> state[u] = "BLOCKED"
                                /\ state[u] = "BLOCKED" => links'.next[u] = links.next[u]
                                /\ state[u] \in {"READY", "RUNNING"} => state'[u] \in {"READY", "RUNNING"}
<1>1. PICK hp \in Priorities, L2 \in LinkRecords :
           /\ Doubly(L2) /\ Outgoing(L2)
           /\ current_task' = L2.run_queue[hp] /\ current_task' \in AllTasks
           /\ Taken(L2, links', current_task', priority[current_task'])
           /\ \A u \in AllTasks :
                state'[u] = IF u = current_task' THEN "RUNNING"
                            ELSE IF u = current_task /\ state[current_task] = "RUNNING" THEN "READY"
                            ELSE state[u]
  BY YieldLinks
<1> DEFINE ready(u) == state[u] = "READY" \/ (u = current_task /\ state[u] = "RUNNING")
<1>2. /\ \A u \in AllTasks : IsLinked(links, u) => ready(u)
      /\ \A u \in AllTasks : state[u] = "READY" => IsLinked(links, u)
  BY DEF LinkedReady, OneRuns
<1>3. /\ \A u \in AllTasks : IsLinked(L2, u) <=> ready(u)
      /\ \A u \in AllTasks : state[u] = "BLOCKED" => L2.next[u] = links.next[u]
  <2>1. CASE state[current_task] # "RUNNING" /\ L2 = links
    BY <1>2, <2>1
  <2>2. CASE /\ state[current_task] = "RUNNING" /\ ~IsLinked(links, current_task)
             /\ Put(links, L2, current_task, priority[current_task])
    <3>1. \A u \in AllTasks : IsLinked(L2, u) <=> IsLinked(links, u) \/ u = current_task
      BY <2>2 DEF Put
    <3>2. \A u \in AllTasks : u # current_task /\ ~IsLinked(links, u) => L2.next[u] = links.next[u]
      BY <2>2 DEF Put
    <3>3. \A u \in AllTasks : state[u] = "BLOCKED" => u # current_task /\ ~IsLinked(links, u)
      BY <1>2, <2>2
    <3> QED BY <1>2, <2>2, <3>1, <3>2, <3>3
  <2>3. CASE /\ state[current_task] = "RUNNING" /\ IsLinked(links, current_task) /\ current_task = Idle
             /\ L2.next = links.next /\ L2.prev = links.prev
    <3>1. \A u \in AllTasks : IsLinked(L2, u) <=> IsLinked(links, u)
      BY <2>3 DEF IsLinked
    <3> QED BY <1>2, <2>3, <3>1
  <2> QED BY <1>1, <2>1, <2>2, <2>3 DEF Outgoing
<1>4. /\ Doubly(links') /\ IsLinked(L2, current_task')
      /\ \A u \in AllTasks : IsLinked(links', u) <=> IsLinked(L2, u) /\ u # current_task'
      /\ \A u \in AllTasks : ~IsLinked(L2, u) => links'.next[u] = L2.next[u]
  BY <1>1 DEF Taken
<1>5. ready(current_task')
  BY <1>1, <1>3, <1>4
<1>6. ASSUME NEW u \in AllTasks
      PROVE  /\ IsLinked(links', u) <=> state'[u] = "READY"
             /\ state'[u] = "RUNNING" => u = current_task'
             /\ state'[u] = "BLOCKED" <=> state[u] = "BLOCKED"
             /\ state[u] = "BLOCKED" => links'.next[u] = links.next[u]
             /\ state[u] \in {"READY", "RUNNING"} => state'[u] \in {"READY", "RUNNING"}
  <2>1. state'[u] = IF u = current_task' THEN "RUNNING"
                    ELSE IF u = current_task /\ state[current_task] = "RUNNING" THEN "READY"
                    ELSE state[u]
    BY <1>1
  <2>2. state[u] = "RUNNING" => u = current_task
    BY DEF OneRuns
  <2>3. IsLinked(L2, u) <=> ready(u)
    BY <1>3
  <2>4. IsLinked(links', u) <=> IsLinked(L2, u) /\ u # current_task'
    BY <1>4
  <2>5. state[u] = "BLOCKED" => links'.next[u] = links.next[u]
    BY <1>3, <1>4, <2>3
  <2> QED BY <1>5, <2>1, <2>2, <2>3, <2>4, <2>5
<1> QED BY <1>1, <1>4, <1>6

\* A linked task above the level of the owner is above the level whose head is the owner.
LEMMA ShapeReach ==
  ASSUME NEW L \in LinkRecords, Doubly(L), NEW pr \in [AllTasks -> Priorities],
         NEW b \in Priorities, NEW o \in AllTasks, NEW E, Shaped(L, pr, b, o, E),
         NEW hp \in Priorities, L.run_queue[hp] = o,
         \A q \in Priorities : L.run_queue[q] # NULL => q <= hp,
         NEW t \in AllTasks, t # o, IsLinked(L, t)
  PROVE  ~ (E < pr[t])
<1> SUFFICES ASSUME E < pr[t] PROVE FALSE
  OBVIOUS
<1>1. PICK A \in SUBSET Priorities, S \in SUBSET AllTasks, K \in SUBSET AllTasks :
        Shape(L, pr, b, o, A, E, S, K)
  BY DEF Shaped
<1>2. \A q \in Priorities : q \in Int
  BY KMutexAssumption DEF Priorities
<1>3. E \in Priorities /\ pr[t] \in Priorities
  BY <1>1 DEF Shape
<1>4. hp <= E
  <2>1. CASE hp \in A \cup {E}
    <3>1. hp < E \/ hp = E
      BY <1>1, <2>1 DEF Shape
    <3> QED BY <1>2, <1>3, <3>1
  <2>2. CASE hp \notin A \cup {E}
    <3>1. o \in Level(pr, S \cup K, hp) /\ o \in S
      BY <1>1, <2>2, Domains DEF Shape
    <3> QED BY <3>1 DEF Level
  <2> QED BY <2>1, <2>2
<1>5. t \notin S \cup K
  <2>1. CASE t \in S
    <3>1. pr[t] \in A \cup {E}
      BY <1>1, <2>1 DEF Shape
    <3>2. pr[t] < E \/ pr[t] = E
      BY <1>1, <3>1 DEF Shape
    <3> QED BY <1>2, <1>3, <3>2
  <2>2. CASE t \in K
    <3>1. pr[t] <= E
      BY <1>1, <2>2 DEF Shape
    <3> QED BY <1>2, <1>3, <3>1
  <2> QED BY <2>1, <2>2
<1>6. Leads(L, t, L.run_queue[pr[t]])
  BY <1>1, <1>5 DEF Shape
<1>7. L.run_queue[pr[t]] # NULL
  BY <1>6, AllClosed, LeadsInto
<1>8. pr[t] <= hp
  BY <1>3, <1>7
<1> QED BY <1>2, <1>3, <1>4, <1>8

\* The owner is inside the mutex, ready or running.
LEMMA OwnerRuns ==
  ASSUME Types, MutexInv, Waiting, owner \in Tasks
  PROVE  /\ pc[owner] = "inside" /\ state[owner] \in {"READY", "RUNNING"} /\ owner \in AllTasks
         /\ priority[owner] \in Priorities /\ base_priority[owner] \in Priorities
<1>1. pc[owner] = "inside"
  BY DEF MutexInv, MutualExclusion
<1>2. state[owner] # "BLOCKED" /\ state[owner] # "NEW"
  BY <1>1, KMutexAssumption DEF Waiting, Types, Started
<1> QED BY <1>1, <1>2, Domains DEF Types, TypeOK

\* A sched_yield_from_isr with a boosted owner.
LEMMA BoostedYield ==
  ASSUME Types, MutexInv, Boosted, SchedYield(links, state), ~links'.fault,
         UNCHANGED <<priority, base_priority, owner, wait_head>>,
         \A t \in Tasks : /\ pc'[t] = "waiting" <=> pc[t] = "waiting"
                          /\ pc'[t] = "raise" => pc[t] = "raise"
  PROVE  Boosted'
<1> DEFINE o == owner
           b == base_priority[owner]
<1>1. /\ Doubly(links) /\ links \in LinkRecords /\ LinkedReady(links, state) /\ OneRuns /\ Waiting
      /\ \A t \in AllTasks : IsLinked(links, t) <=> state[t] = "READY"
  BY DEF Boosted, LinkedReady, Types, TypeOK, LinkRecords
<1>2. /\ Doubly(links') /\ \A u \in AllTasks : IsLinked(links', u) <=> state'[u] = "READY"
      /\ current_task' \in AllTasks /\ state'[current_task'] = "RUNNING"
      /\ \A u \in AllTasks : /\ state'[u] = "RUNNING" => u = current_task'
                             /\ state'[u] = "BLOCKED" <=> state[u] = "BLOCKED"
                             /\ state[u] = "BLOCKED" => links'.next[u] = links.next[u]
                             /\ state[u] \in {"READY", "RUNNING"} => state'[u] \in {"READY", "RUNNING"}
  BY <1>1, YieldKeeps
<1>3. OneRuns'
  BY <1>2 DEF OneRuns
<1>4. Waiting'
  <2>1. wait_head # NULL => wait_head \in AllTasks
    BY Domains DEF Types, Started
  <2> QED BY <1>1, <1>2, <2>1, Domains DEF Waiting
<1>5. /\ o \in Tasks /\ o \in AllTasks /\ pc[o] = "inside" /\ state[o] \in {"READY", "RUNNING"}
      /\ b \in Priorities /\ b < priority[o]
      /\ priority \in [AllTasks -> Priorities]
  BY <1>1, OwnerRuns DEF Boosted, Types, TypeOK
<1>6. PICK E \in Priorities :
       /\ Shaped(links, priority, b, o, E)
       /\ \A t \in Tasks : pc[t] = "raise" =>
            state[t] \in {"READY", "RUNNING"} /\ state[o] # "RUNNING" /\ E < priority[t]
  BY DEF Boosted
<1>7. PICK hp \in Priorities, L2 \in LinkRecords :
           /\ Doubly(L2) /\ Outgoing(L2)
           /\ current_task' = L2.run_queue[hp] /\ current_task' \in AllTasks
           /\ \A q \in Priorities : L2.run_queue[q] # NULL => q <= hp
           /\ Taken(L2, links', current_task', priority[current_task'])
  BY <1>1, YieldLinks
<1> DEFINE new == current_task'
<1>8. /\ Shaped(L2, priority, b, o, E)
      /\ \A t \in AllTasks : state[t] \in {"READY", "RUNNING"} => IsLinked(L2, t)
  <2>0. \A t \in AllTasks : state[t] = "RUNNING" => t = current_task
    BY <1>1 DEF OneRuns
  <2>1. CASE state[current_task] # "RUNNING" /\ L2 = links
    BY <1>1, <1>6, <2>0, <2>1
  <2>2. CASE /\ ~IsLinked(links, current_task)
             /\ Put(links, L2, current_task, priority[current_task])
    <3>1. \A u \in AllTasks : IsLinked(L2, u) <=> IsLinked(links, u) \/ u = current_task
      BY <2>2 DEF Put
    <3>2. current_task \in AllTasks
      BY DEF Types, TypeOK
    <3>3. CASE current_task = o
      <4> HIDE DEF b
      <4>1. Shaped(L2, priority, b, o, E)
        BY <1>1, <1>5, <1>6, <2>2, <3>3, ShapePutOwner
      <4> QED BY <1>1, <2>0, <3>1, <4>1
    <3>4. CASE current_task # o
      <4> HIDE DEF b
      <4>1. Shaped(L2, priority, b, o, E)
        BY <1>1, <1>5, <1>6, <2>2, <3>2, <3>4, ShapePut
      <4> QED BY <1>1, <2>0, <3>1, <4>1
    <3> QED BY <3>3, <3>4
  <2>3. CASE state[current_task] = "RUNNING" /\ IsLinked(links, current_task)
    <3>1. current_task \in AllTasks
      BY DEF Types, TypeOK
    <3> QED BY <1>1, <2>3, <3>1
  <2> QED BY <1>7, <2>1, <2>2, <2>3 DEF Outgoing
<1> HIDE DEF b, o
<1>9. ASSUME new # o PROVE \E F \in Priorities :
        /\ Shaped(links', priority, b, o, F)
        /\ \A t \in Tasks : pc'[t] = "raise" =>
             state'[t] \in {"READY", "RUNNING"} /\ state'[o] # "RUNNING" /\ F < priority[t]
  <2>1. Shaped(links', priority, b, o, E)
    BY <1>5, <1>7, <1>8, <1>9, ShapeTake
  <2>2. state'[o] # "RUNNING"
    BY <1>2, <1>5, <1>9
  <2> QED BY <1>2, <1>6, <2>1, <2>2, Domains
<1>10. ASSUME new = o PROVE \E F \in Priorities :
        /\ Shaped(links', priority, b, o, F)
        /\ \A t \in Tasks : pc'[t] = "raise" =>
             state'[t] \in {"READY", "RUNNING"} /\ state'[o] # "RUNNING" /\ F < priority[t]
  <2>1. Shaped(links', priority, b, o, priority[o])
    BY <1>5, <1>7, <1>8, <1>10, ShapeTakeOwner
  <2>2. ASSUME NEW t \in Tasks, pc[t] = "raise" PROVE FALSE
    <3>1. t \in AllTasks /\ t # o /\ E < priority[t] /\ IsLinked(L2, t)
      BY <1>5, <1>6, <1>8, <2>2, Domains
    <3>2. L2.run_queue[hp] = o /\ o \in AllTasks /\ b \in Priorities
      BY <1>5, <1>7, <1>10
    <3>3. ~ (E < priority[t])
      BY <1>5, <1>7, <1>8, <3>1, <3>2, ShapeReach
    <3> QED BY <3>1, <3>3
  <2> QED BY <1>5, <2>1, <2>2
<1> USE DEF b, o
<1>11. \E F \in Priorities :
        /\ Shaped(links', priority', base_priority'[owner'], owner', F)
        /\ \A t \in Tasks : pc'[t] = "raise" =>
             state'[t] \in {"READY", "RUNNING"} /\ state'[owner'] # "RUNNING" /\ F < priority'[t]
  BY <1>9, <1>10
<1> QED BY <1>2, <1>3, <1>4, <1>5, <1>11 DEF Boosted

\* As long as no priority was raised the wait list has only blocked tasks.
LEMMA AgreeWaits == ASSUME Types, Agree PROVE Waiting
<1>1. Waiters \in Seq(Tasks) /\ \A t \in Tasks : Holds(Waiters, t) => state[t] = "BLOCKED"
  BY Facts
<1>2. /\ wait_head = HeadOf(Waiters)
      /\ \A i \in 1 .. Len(Waiters) :
           links.next[Waiters[i]] = IF i < Len(Waiters) THEN Waiters[i + 1] ELSE NULL
  BY DEF Agree, Lists, Represents, Chain
<1>3. \A i \in 1 .. Len(Waiters) : Waiters[i] \in Tasks /\ state[Waiters[i]] = "BLOCKED"
  BY <1>1 DEF Holds
<1>4. wait_head # NULL => state[wait_head] = "BLOCKED"
  <2> SUFFICES ASSUME wait_head # NULL PROVE state[wait_head] = "BLOCKED"
    OBVIOUS
  <2>1. Waiters # <<>> /\ wait_head = Waiters[1]
    BY <1>2 DEF HeadOf
  <2>2. 1 \in 1 .. Len(Waiters)
    BY <1>1, <2>1
  <2> QED BY <1>3, <2>1, <2>2
<1>5. \A t \in Tasks : /\ state[t] = "BLOCKED" <=> pc[t] = "waiting"
                       /\ state[t] = "BLOCKED" <=> Holds(Waiters, t)
  BY DEF Agree, Lists
<1>6. ASSUME NEW t \in Tasks, state[t] = "BLOCKED"
      PROVE  links.next[t] = NULL \/ (links.next[t] \in Tasks /\ state[links.next[t]] = "BLOCKED")
  <2>1. PICK i \in 1 .. Len(Waiters) : Waiters[i] = t
    BY <1>5, <1>6 DEF Holds
  <2>2. i < Len(Waiters) => i + 1 \in 1 .. Len(Waiters)
    BY <1>1
  <2> QED BY <1>2, <1>3, <2>1, <2>2
<1> QED BY <1>4, <1>5, <1>6 DEF Waiting

\* The masked section of k_mutex_lock changes no link of a ring.
LEMMA BlockLinks ==
  ASSUME Types, Waiting, Doubly(links), LinkedReady(links, state), state[me] = "RUNNING", Block
  PROVE  /\ links'.prev = links.prev /\ links'.run_queue = links.run_queue
         /\ links'.fault = links.fault
         /\ \A u \in AllTasks : IsLinked(links, u) => links'.next[u] = links.next[u]
         /\ me \in Tasks /\ pc[me] = "block" /\ me # Idle
         /\ \A u \in AllTasks : state'[u] = IF u = me THEN "BLOCKED" ELSE state[u]
         /\ \A u \in Tasks : pc'[u] = IF u = me THEN "waiting" ELSE pc[u]
         /\ Doubly(links') /\ Waiting'
<1> DEFINE B == {t \in Tasks : state[t] = "BLOCKED"}
<1>1. /\ me \in Tasks /\ me \in AllTasks /\ pc[me] = "block" /\ me # Idle
      /\ state' = [state EXCEPT ![me] = "BLOCKED"]
      /\ pc' = [pc EXCEPT ![me] = "waiting"]
  BY Domains DEF Block, Executes, AppCode, GoTo, me
<1>2. /\ \A u \in AllTasks : state'[u] = IF u = me THEN "BLOCKED" ELSE state[u]
      /\ \A u \in Tasks : pc'[u] = IF u = me THEN "waiting" ELSE pc[u]
  BY <1>1 DEF Types, TypeOK
<1>3. Waiters \in Seq(B)
  <2>1. wait_head \in B \cup {NULL}
    BY DEF Waiting, Types, TypeOK
  <2>2. \A t \in B : links.next[t] \in B \cup {NULL}
    BY DEF Waiting
  <2> HIDE DEF B
  <2> QED BY <2>1, <2>2, WalkStays DEF Waiters
<1>4. PICK n \in 0 .. Len(Waiters) : InsertWaiter(n)
  BY DEF Block
<1> DEFINE fo == IF n < Len(Waiters) THEN Waiters[n + 1] ELSE NULL
<1>5. /\ fo \in B \cup {NULL}
      /\ n # 0 => Waiters[n] \in B
      /\ wait_head' = IF n = 0 THEN me ELSE wait_head
  <2> HIDE DEF B
  <2>1. n < Len(Waiters) => n + 1 \in 1 .. Len(Waiters)
    BY <1>3
  <2>2. n # 0 => n \in 1 .. Len(Waiters)
    BY <1>3
  <2> QED BY <1>3, <1>4, <2>1, <2>2 DEF InsertWaiter
<1>6. links \in LinkRecords
  BY DEF Types, TypeOK, LinkRecords
<1>7. /\ links'.prev = links.prev /\ links'.run_queue = links.run_queue
      /\ links'.fault = links.fault /\ links'.bitmap = links.bitmap
      /\ links'.next = IF n = 0 THEN [links.next EXCEPT ![me] = fo]
                       ELSE [links.next EXCEPT ![me] = fo, ![Waiters[n]] = me]
  <2> DEFINE f == IF n = 0 THEN [links.next EXCEPT ![me] = fo]
                  ELSE [links.next EXCEPT ![me] = fo, ![Waiters[n]] = me]
  <2>1. links' = [links EXCEPT !.next = f]
    BY <1>4 DEF InsertWaiter
  <2> HIDE DEF f
  <2>2. /\ links'.prev = links.prev /\ links'.run_queue = links.run_queue
        /\ links'.fault = links.fault /\ links'.bitmap = links.bitmap /\ links'.next = f
    BY <1>6, <2>1 DEF LinkRecords
  <2> QED BY <2>2 DEF f
<1> HIDE DEF fo
<1>8. \A u \in AllTasks : links'.next[u] = IF n # 0 /\ u = Waiters[n] THEN me
                                           ELSE IF u = me THEN fo ELSE links.next[u]
  BY <1>1, <1>5, <1>6, <1>7, Domains DEF LinkRecords
<1>9. \A u \in B : u # me /\ ~IsLinked(links, u)
  BY Domains DEF LinkedReady
<1>10. ~IsLinked(links, me)
  BY <1>1 DEF LinkedReady
<1>11. \A u \in AllTasks : IsLinked(links, u) => links'.next[u] = links.next[u]
  BY <1>5, <1>8, <1>9, <1>10
<1>12. \A u \in AllTasks : IsLinked(links', u) <=> IsLinked(links, u)
  BY <1>7 DEF IsLinked
<1>13. Doubly(links')
  <2>1. ASSUME NEW u \in AllTasks, IsLinked(links, u)
        PROVE  /\ links'.next[u] # NULL /\ IsLinked(links', links'.prev[u])
               /\ links'.prev[links'.next[u]] = u /\ links'.next[links'.prev[u]] = u
    <3>1. /\ links.next[u] \in AllTasks /\ links.prev[links.next[u]] = u
          /\ links.prev[u] \in AllTasks /\ IsLinked(links, links.prev[u])
          /\ links.next[links.prev[u]] = u
      BY <1>6, <2>1, Neighbours
    <3> QED BY <1>7, <1>11, <1>12, <2>1, <3>1, Domains
  <2>2. ASSUME NEW u \in AllTasks, ~IsLinked(links, u) PROVE links'.next[u] # u
    BY <1>1, <1>5, <1>8, <1>9, <2>2, Domains DEF Doubly
  <2>3. links'.bitmap = {p \in Priorities : links'.run_queue[p] # NULL}
    BY <1>7 DEF Doubly
  <2> QED BY <1>12, <2>1, <2>2, <2>3 DEF Doubly
<1>14. Waiting'
  <2>1. wait_head' # NULL => state'[wait_head'] = "BLOCKED"
    <3>1. wait_head # NULL => wait_head \in AllTasks /\ state[wait_head] = "BLOCKED"
      BY Domains DEF Types, TypeOK, Waiting
    <3> QED BY <1>1, <1>2, <1>5, <3>1
  <2>2. ASSUME NEW t \in Tasks
        PROVE  /\ state'[t] = "BLOCKED" => \/ links'.next[t] = NULL
                                           \/ /\ links'.next[t] \in Tasks
                                              /\ state'[links'.next[t]] = "BLOCKED"
               /\ state'[t] = "BLOCKED" <=> pc'[t] = "waiting"
    <3>1. \A u \in B : u \in AllTasks /\ u \in Tasks /\ state'[u] = "BLOCKED"
      BY <1>2, Domains
    <3>2. state'[t] = "BLOCKED" <=> pc'[t] = "waiting"
      BY <1>2, Domains DEF Waiting
    <3>3. ASSUME state'[t] = "BLOCKED"
          PROVE  links'.next[t] = NULL \/ (links'.next[t] \in Tasks /\ state'[links'.next[t]] = "BLOCKED")
      <4>1. CASE n # 0 /\ t = Waiters[n]
        BY <1>1, <1>2, <1>8, <4>1, Domains
      <4>2. CASE ~(n # 0 /\ t = Waiters[n]) /\ t = me
        BY <1>1, <1>5, <1>8, <3>1, <4>2
      <4>3. CASE ~(n # 0 /\ t = Waiters[n]) /\ t # me
        <5>1. links'.next[t] = links.next[t] /\ t \in B
          BY <1>2, <1>8, <3>3, <4>3, Domains
        <5>2. links.next[t] = NULL \/ links.next[t] \in B
          BY <5>1 DEF Waiting
        <5> QED BY <3>1, <5>1, <5>2
      <4> QED BY <4>1, <4>2, <4>3
    <3> QED BY <3>2, <3>3
  <2> QED BY <2>1, <2>2 DEF Waiting
<1> QED BY <1>1, <1>2, <1>7, <1>11, <1>13, <1>14

\* A step of a call that changes neither the links nor what they hold.
LEMMA BoostedSame ==
  ASSUME Boosted, priority \in [AllTasks -> Priorities],
         UNCHANGED <<links, state, priority, base_priority, current_task, about_to_yield,
                     owner, wait_head>>,
         \A t \in Tasks :
           /\ pc'[t] = "waiting" <=> pc[t] = "waiting"
           /\ pc'[t] = "raise" => \/ pc[t] = "raise"
                                  \/ /\ state[t] \in {"READY", "RUNNING"} /\ state[owner] # "RUNNING"
                                     /\ priority[owner] < priority[t]
  PROVE  Boosted'
<1>1. PICK E \in Priorities :
       /\ Shaped(links, priority, base_priority[owner], owner, E)
       /\ \A t \in Tasks : pc[t] = "raise" =>
            state[t] \in {"READY", "RUNNING"} /\ state[owner] # "RUNNING" /\ E < priority[t]
  BY DEF Boosted
<1>2. E <= priority[owner]
  BY <1>1 DEF Shaped, Shape
<1>3. \A t \in Tasks : priority[owner] < priority[t] => E < priority[t]
  <2>1. \A t \in Tasks : priority[t] \in Int
    BY Domains DEF Priorities
  <2>2. priority[owner] \in Int /\ E \in Int
    BY Domains DEF Boosted, Priorities
  <2> QED BY <1>2, <2>1, <2>2
<1>4. \A t \in Tasks : pc'[t] = "raise" =>
        state'[t] \in {"READY", "RUNNING"} /\ state'[owner'] # "RUNNING" /\ E < priority'[t]
  BY <1>1, <1>3
<1>5. Waiting'
  BY DEF Boosted, Waiting
<1>6. OneRuns' /\ Doubly(links') /\ owner' \in Tasks
      /\ \A t \in AllTasks : IsLinked(links', t) <=> state'[t] = "READY"
      /\ base_priority'[owner'] < priority'[owner']
  BY DEF Boosted, OneRuns
<1>7. Shaped(links', priority', base_priority'[owner'], owner', E)
  BY <1>1
<1> QED BY <1>4, <1>5, <1>6, <1>7 DEF Boosted

\* Another boost: the owner is linked, and the level whose head is in its ring is below the
\* priority of the task that raises it.
LEMMA BoostedRaise ==
  ASSUME Types, MutexInv, Boosted, Looks, Raise
  PROVE  Boosted'
<1> USE DEF schedVars, mutexVars, callVars
<1>1. /\ me \in Tasks /\ pc[me] = "raise" /\ owner \in Tasks /\ owner \in AllTasks /\ owner # NULL
      /\ pc' = [pc EXCEPT ![me] = "check"]
      /\ UNCHANGED <<state, base_priority, current_task, about_to_yield, owner, wait_head>>
  BY Domains DEF Raise, Executes, AppCode, GoTo, me, Boosted
<1>2. UNCHANGED links /\ priority' = [priority EXCEPT ![owner] = priority[me]]
  <2>1. Reread = {owner}
    BY <1>1 DEF Looks, Reread
  <2> QED BY <1>1, <2>1 DEF Raise, Inherited
<1>3. \A t \in Tasks : pc'[t] = IF t = me THEN "check" ELSE pc[t]
  BY <1>1 DEF Types, TypeOK
<1>4. PICK E \in Priorities :
       /\ Shaped(links, priority, base_priority[owner], owner, E)
       /\ \A t \in Tasks : pc[t] = "raise" =>
            state[t] \in {"READY", "RUNNING"} /\ state[owner] # "RUNNING" /\ E < priority[t]
  BY DEF Boosted
<1>5. /\ pc[owner] = "inside" /\ IsLinked(links, owner)
      /\ links \in LinkRecords /\ priority \in [AllTasks -> Priorities]
      /\ base_priority[owner] \in Priorities /\ priority[me] \in Priorities
  <2>1. Waiting
    BY DEF Boosted
  <2>2. pc[owner] = "inside" /\ state[owner] = "READY"
    BY <1>1, <1>4, <2>1, OwnerRuns
  <2> QED BY <1>1, <2>2, Domains DEF Boosted, Types, TypeOK, LinkRecords
<1>6. Shaped(links, priority', base_priority[owner], owner, E) /\ base_priority[owner] < priority[me]
  BY <1>1, <1>2, <1>4, <1>5, ShapeRaise
<1>7. Waiting'
  BY <1>1, <1>2, <1>3 DEF Boosted, Waiting
<1>8. /\ OneRuns' /\ Doubly(links') /\ owner' \in Tasks
      /\ \A t \in AllTasks : IsLinked(links', t) <=> state'[t] = "READY"
  BY <1>1, <1>2 DEF Boosted, OneRuns
<1>9. priority'[owner] = priority[me]
  BY <1>1, <1>2, <1>5
<1>10. \A t \in Tasks : pc'[t] = "raise" =>
         state'[t] \in {"READY", "RUNNING"} /\ state'[owner'] # "RUNNING" /\ E < priority'[t]
  <2> SUFFICES ASSUME NEW t \in Tasks, pc'[t] = "raise"
               PROVE  state'[t] \in {"READY", "RUNNING"} /\ state'[owner'] # "RUNNING" /\ E < priority'[t]
    OBVIOUS
  <2>1. pc[t] = "raise" /\ t # owner
    BY <1>3, <1>5
  <2>2. priority'[t] = priority[t]
    BY <1>2, <1>5, <2>1, Domains
  <2> QED BY <1>1, <1>4, <2>1, <2>2
<1> QED BY <1>1, <1>2, <1>6, <1>7, <1>8, <1>9, <1>10 DEF Boosted

\* A new task joins the ring of its level, wherever that is.
LEMMA BoostedCreate ==
  ASSUME Types, Boosted, NEW t \in Tasks, NEW p \in BasePriorities, TaskCreate(t, p), ~links'.fault
  PROVE  Boosted'
<1> USE DEF schedVars, mutexVars, callVars
<1>1. /\ state[t] = "NEW"
      /\ state' = [state EXCEPT ![t] = "READY"]
      /\ priority' = [priority EXCEPT ![t] = p]
      /\ base_priority' = [base_priority EXCEPT ![t] = p]
      /\ links' = Q!RqEnqueue(links, t, p)
      /\ UNCHANGED <<current_task, about_to_yield, owner, wait_head, pc>>
  BY DEF TaskCreate
<1>2. /\ owner \in Tasks /\ owner \in AllTasks /\ t \in AllTasks /\ t # owner /\ p \in Priorities
      /\ p \in 1 .. MaxPriority
  BY <1>1, Domains, KMutexAssumption DEF Boosted, Types, Started
<1>3. /\ state \in [AllTasks -> {"NEW", "READY", "RUNNING", "BLOCKED"}]
      /\ priority \in [AllTasks -> Priorities] /\ base_priority \in [AllTasks -> Priorities]
      /\ links \in LinkRecords /\ current_task \in AllTasks /\ wait_head \in Tasks \cup {NULL}
  BY DEF Types, TypeOK, LinkRecords
<1>4. /\ \A u \in AllTasks : state'[u] = IF u = t THEN "READY" ELSE state[u]
      /\ \A u \in AllTasks : priority'[u] = IF u = t THEN p ELSE priority[u]
      /\ base_priority'[owner] = base_priority[owner]
      /\ priority' \in [AllTasks -> Priorities]
  BY <1>1, <1>2, <1>3
<1>5. ~IsLinked(links, t) /\ \A q \in Priorities : links.run_queue[q] # t
  <2>1. t \notin Started(state) \cup {NULL, Idle}
    BY <1>1, <1>2, Domains DEF Started
  <2>2. \A q \in Priorities : links.run_queue[q] # t
    <3>1. \A q \in 1 .. MaxPriority : links.run_queue[q] # t
      BY <2>1 DEF Types, IdleApart
    <3>2. links.run_queue[0] # t
      BY <2>1 DEF Types, IdleApart
    <3> QED BY <3>1, <3>2, Domains
  <2> QED BY <1>1, <1>2, <2>2 DEF Boosted
<1>6. Put(links, links', t, p)
  BY <1>1, <1>2, <1>3, <1>5, EnqueuePuts DEF Boosted
<1>7. PICK E \in Priorities :
       /\ Shaped(links, priority, base_priority[owner], owner, E)
       /\ \A u \in Tasks : pc[u] = "raise" =>
            state[u] \in {"READY", "RUNNING"} /\ state[owner] # "RUNNING" /\ E < priority[u]
  BY DEF Boosted
<1>8. Shaped(links', priority', base_priority[owner], owner, E)
  <2>1. base_priority[owner] \in Priorities /\ Doubly(links)
    BY <1>2, <1>3 DEF Boosted
  <2>2. Shaped(links, priority', base_priority[owner], owner, E)
    BY <1>1, <1>2, <1>3, <1>5, <1>7, <2>1, ShapeNew
  <2>3. Put(links, links', t, priority'[t])
    BY <1>2, <1>4, <1>6
  <2> QED BY <1>2, <1>3, <1>4, <1>5, <2>1, <2>2, <2>3, ShapePut
<1>9. /\ Doubly(links') /\ \A u \in AllTasks : IsLinked(links', u) <=> state'[u] = "READY"
  BY <1>4, <1>6 DEF Put, Boosted
<1>10. OneRuns'
  BY <1>1, <1>2, <1>3, <1>4 DEF Boosted, OneRuns
<1>11. Waiting'
  <2>1. \A u \in AllTasks : state[u] = "BLOCKED" => u # t /\ ~IsLinked(links, u)
    BY <1>1 DEF Boosted
  <2>2. \A u \in AllTasks : state[u] = "BLOCKED" => links'.next[u] = links.next[u]
    BY <1>6, <2>1 DEF Put
  <2>3. \A u \in AllTasks : state'[u] = "BLOCKED" <=> state[u] = "BLOCKED"
    BY <1>1, <1>4
  <2> QED BY <1>1, <1>3, <2>2, <2>3, Domains DEF Boosted, Waiting
<1>12. \A u \in Tasks : pc'[u] = "raise" =>
         state'[u] \in {"READY", "RUNNING"} /\ state'[owner'] # "RUNNING" /\ E < priority'[u]
  <2> SUFFICES ASSUME NEW u \in Tasks, pc'[u] = "raise"
               PROVE  state'[u] \in {"READY", "RUNNING"} /\ state'[owner'] # "RUNNING" /\ E < priority'[u]
    OBVIOUS
  <2>1. pc[u] = "raise" /\ u # t /\ u \in AllTasks
    BY <1>1, <1>7, Domains
  <2> QED BY <1>1, <1>2, <1>4, <1>7, <2>1
<1>13. base_priority'[owner'] < priority'[owner'] /\ owner' \in Tasks
  BY <1>1, <1>2, <1>4 DEF Boosted
<1> QED BY <1>1, <1>4, <1>8, <1>9, <1>10, <1>11, <1>12, <1>13 DEF Boosted

\* A task blocks: the rings are not touched.
LEMMA BoostedBlock ==
  ASSUME Types, MutexInv, Boosted, Block
  PROVE  Boosted'
<1> USE DEF schedVars, mutexVars, callVars
<1>1. /\ AppCode /\ UNCHANGED <<priority, base_priority, current_task, owner>>
      /\ about_to_yield' = about_to_yield \cup {me}
  BY DEF Block, Executes
<1>2. /\ state[me] = "RUNNING" /\ Waiting /\ Doubly(links) /\ LinkedReady(links, state)
  BY <1>1 DEF Boosted, OneRuns, LinkedReady, AppCode, me
<1>3. /\ links'.prev = links.prev /\ links'.run_queue = links.run_queue
      /\ \A u \in AllTasks : IsLinked(links, u) => links'.next[u] = links.next[u]
      /\ me \in Tasks /\ pc[me] = "block" /\ me # Idle
      /\ \A u \in AllTasks : state'[u] = IF u = me THEN "BLOCKED" ELSE state[u]
      /\ \A u \in Tasks : pc'[u] = IF u = me THEN "waiting" ELSE pc[u]
      /\ Doubly(links') /\ Waiting'
  BY <1>2, BlockLinks
<1>4. owner \in Tasks /\ owner \in AllTasks /\ owner # me /\ me = current_task
  BY <1>2, <1>3, OwnerRuns DEF Boosted, me
<1>5. PICK E \in Priorities :
       /\ Shaped(links, priority, base_priority[owner], owner, E)
       /\ \A u \in Tasks : pc[u] = "raise" =>
            state[u] \in {"READY", "RUNNING"} /\ state[owner] # "RUNNING" /\ E < priority[u]
  BY DEF Boosted
<1>6. Shaped(links', priority, base_priority[owner], owner, E)
  BY <1>3, <1>4, <1>5, ShapeKept
<1>7. \A u \in AllTasks : IsLinked(links', u) <=> state'[u] = "READY"
  BY <1>2, <1>3 DEF IsLinked, Boosted
<1>8. OneRuns'
  BY <1>1, <1>3, <1>4 DEF Boosted, OneRuns
<1>9. \A u \in Tasks : pc'[u] = "raise" =>
         state'[u] \in {"READY", "RUNNING"} /\ state'[owner'] # "RUNNING" /\ E < priority'[u]
  BY <1>1, <1>3, <1>4, <1>5, Domains
<1>10. owner' \in Tasks /\ base_priority'[owner'] < priority'[owner']
  BY <1>1 DEF Boosted
<1> QED BY <1>1, <1>3, <1>6, <1>7, <1>8, <1>9, <1>10 DEF Boosted

\* The owner of a raised priority unlocks the mutex: the level of its own priority has it as
\* the head although it is running.
LEMMA BoostedUnlock ==
  ASSUME Types, Boosted, Unlock, ~links'.fault
  PROVE  Doomed'
<1> USE DEF schedVars, mutexVars, callVars
<1> DEFINE o == current_task
<1>1. /\ AppCode /\ owner = o /\ priority' = PrioritiesRestored /\ owner' = NULL
      /\ UNCHANGED <<base_priority, current_task>>
  BY DEF Unlock, IsOwner, me
<1>2. /\ o \in Tasks /\ o \in AllTasks /\ state[o] = "RUNNING" /\ ~IsLinked(links, o)
      /\ base_priority[o] \in Priorities
  BY <1>1, Domains DEF AppCode, Boosted, OneRuns, Types, TypeOK
<1>3. links.run_queue[base_priority[o]] = o
  <2>1. \E E \in Priorities : Shaped(links, priority, base_priority[o], o, E)
    BY <1>1 DEF Boosted
  <2> QED BY <1>2, <2>1 DEF Shaped, Shape
<1>4. priority'[o] = base_priority'[o]
  BY <1>1, <1>2 DEF PrioritiesRestored
<1>5. CASE wait_head = NULL
  <2>1. pc' = [pc EXCEPT ![o] = "unlocked"] /\ UNCHANGED <<links, state, about_to_yield>>
    BY <1>5 DEF Unlock, GoTo, me
  <2>2. pc'[o] = "unlocked"
    BY <1>2, <2>1 DEF Types, TypeOK
  <2> QED BY <1>1, <1>2, <1>3, <1>4, <2>1, <2>2 DEF Doomed
<1>6. CASE wait_head # NULL
  <2> DEFINE w == wait_head
  <2>1. /\ state' = [state EXCEPT ![w] = "READY"]
        /\ links' = Q!RqEnqueue(links, w, priority[w])
        /\ o \in about_to_yield'
    BY <1>6 DEF Unlock, me
  <2>2. /\ state[w] = "BLOCKED" /\ w \in AllTasks /\ w # o /\ ~IsLinked(links, w)
        /\ priority[w] \in Priorities /\ links \in LinkRecords
    BY <1>2, <1>6, Domains DEF Boosted, Waiting, Types, TypeOK, LinkRecords
  <2> HIDE DEF w
  <2>3. Put(links, links', w, priority[w])
    BY <2>1, <2>2, EnqueuePuts DEF Boosted
  <2>4. ~IsLinked(links', o) /\ links'.run_queue[base_priority[o]] = o
    BY <1>2, <1>3, <2>2, <2>3, Domains DEF Put
  <2>5. state'[o] = "RUNNING"
    BY <1>2, <2>1, <2>2 DEF Types, TypeOK
  <2> QED BY <1>1, <1>2, <1>4, <2>1, <2>4, <2>5 DEF Doomed
<1> QED BY <1>5, <1>6

\* The comparison that follows no null pointer finds the owner lower if any task.
LEMMA CompareFinds ==
  ASSUME Types, Looks, Compare, ~links'.fault
  PROVE  /\ UNCHANGED <<links, state, priority, base_priority, current_task, about_to_yield,
                       owner, wait_head>>
         /\ AppCode /\ me \in Tasks /\ me \in AllTasks /\ pc[me] = "compare" /\ me = current_task
         /\ \/ pc' = [pc EXCEPT ![me] = "check"] /\ seen' = [seen EXCEPT ![me] = NULL]
            \/ /\ pc' = [pc EXCEPT ![me] = "raise"] /\ seen' = [seen EXCEPT ![me] = owner]
               /\ owner \in Tasks /\ priority[owner] < priority[me]
<1> USE DEF schedVars, mutexVars
<1>1. /\ UNCHANGED <<state, priority, base_priority, current_task, about_to_yield, owner, wait_head>>
      /\ AppCode /\ me \in Tasks /\ me \in AllTasks /\ pc[me] = "compare" /\ me = current_task
  BY Domains DEF Compare, Executes, AppCode, me
<1>2. links \in LinkRecords /\ owner \in Tasks \cup {NULL} /\ seen \in [Tasks -> Tasks \cup {NULL}]
      /\ priority \in [AllTasks -> Priorities]
  BY DEF Types, TypeOK, LinkRecords
<1>3. PICK o \in Reread :
        IF o = NULL
        THEN /\ GoTo("crashed")
             /\ links' = [links EXCEPT !.fault = TRUE]
             /\ UNCHANGED seen
        ELSE /\ GoTo(IF IsLower(o) THEN "raise" ELSE "check")
             /\ seen' = [seen EXCEPT ![me] = IF IsLower(o) THEN o ELSE NULL]
             /\ UNCHANGED links
  BY DEF Compare
<1>4. o # NULL /\ o \in Tasks
  BY <1>1, <1>2, <1>3 DEF Reread, LinkRecords
<1>5. CASE IsLower(o)
  <2>1. priority[o] < priority[me]
    BY <1>5 DEF IsLower
  <2>2. o = owner
    <3> SUFFICES ASSUME o # owner PROVE FALSE
      OBVIOUS
    <3>1. o = seen[me] /\ priority[me] <= priority[o]
      BY <1>1, <1>3 DEF Looks, Reread
    <3>2. priority[o] \in Int /\ priority[me] \in Int
      BY <1>1, <1>2, <1>4, Domains DEF Priorities
    <3> QED BY <2>1, <3>1, <3>2
  <2> QED BY <1>1, <1>3, <1>4, <1>5, <2>1, <2>2 DEF GoTo
<1>6. CASE ~IsLower(o)
  BY <1>1, <1>3, <1>4, <1>6 DEF GoTo
<1> QED BY <1>5, <1>6

\* After a boost, every step leaves the kernel as described, or it follows a null pointer.
LEMMA BoostedStep ==
  ASSUME Types, MutexInv, Boosted, Looks, [Next]_vars, ~links'.fault
  PROVE  Boosted' \/ (Unlock /\ Doomed')
<1> USE DEF schedVars, mutexVars, callVars
<1>0. /\ priority \in [AllTasks -> Priorities] /\ pc \in [Tasks -> Locations] /\ Waiting
      /\ owner \in Tasks /\ owner # NULL
      /\ pc[owner] = "inside" /\ state[owner] \in {"READY", "RUNNING"} /\ owner \in AllTasks
  BY OwnerRuns, Domains DEF Types, TypeOK, Boosted
<1>1. CASE UNCHANGED vars
  BY <1>0, <1>1, BoostedSame DEF vars
<1>2. ASSUME NEW t \in Tasks, NEW p \in BasePriorities, TaskCreate(t, p) PROVE Boosted'
  BY <1>2, BoostedCreate
<1>3. CASE TaskYield
  <2>1. /\ SchedYield(links, state) /\ UNCHANGED <<priority, base_priority, owner, wait_head>>
        /\ pc[me] \in {"outside", "inside", "unlocked"}
        /\ pc' = [pc EXCEPT ![me] = IF @ = "unlocked" THEN "outside" ELSE @]
    BY <1>3 DEF TaskYield, me
  <2>2. \A t \in Tasks : /\ pc'[t] = "waiting" <=> pc[t] = "waiting"
                         /\ pc'[t] = "raise" => pc[t] = "raise"
    BY <1>0, <2>1
  <2> QED BY <2>1, <2>2, BoostedYield
<1>4. CASE YieldAfter
  <2>1. SchedYield(links, state) /\ UNCHANGED <<priority, base_priority, owner, wait_head, pc>>
    BY <1>4 DEF YieldAfter
  <2> QED BY <2>1, BoostedYield
<1>5. CASE TickPreempt
  <2>1. SchedYield(links, state) /\ UNCHANGED <<priority, base_priority, owner, wait_head, pc>>
    BY <1>5 DEF TickPreempt
  <2> QED BY <2>1, BoostedYield
<1>6. CASE TickEnter \/ TickReturn \/ TickResume
  <2>1. UNCHANGED <<links, state, priority, base_priority, current_task, about_to_yield,
                    owner, wait_head, pc>>
    BY <1>6 DEF TickEnter, TickReturn, TickResume
  <2> QED BY <1>0, <2>1, BoostedSame
<1>7. CASE (\E ms \in LockTimeouts : LockCall(ms)) \/ Cas \/ BoostTest \/ GiveUp \/ GoOn
  <2>1. /\ UNCHANGED <<links, state, priority, base_priority, current_task, about_to_yield,
                       owner, wait_head>>
        /\ pc[me] \in {"outside", "cas", "boost", "check"}
        /\ \E l \in {"cas", "own", "boost", "compare", "check", "outside", "block"} :
             pc' = [pc EXCEPT ![me] = l]
    BY <1>7 DEF LockCall, Cas, BoostTest, GiveUp, GoOn, Executes, GoTo
  <2>2. \A t \in Tasks : /\ pc'[t] = "waiting" <=> pc[t] = "waiting"
                         /\ pc'[t] = "raise" => pc[t] = "raise"
    BY <1>0, <2>1
  <2> QED BY <1>0, <2>1, <2>2, BoostedSame
<1>8. CASE Own
  <2>1. me \in Tasks /\ pc[me] = "own"
    BY <1>8 DEF Own, Executes, AppCode, me
  <2> QED BY <1>0, <2>1 DEF MutexInv, MutualExclusion
<1>9. CASE Compare
  <2>1. /\ UNCHANGED <<links, state, priority, base_priority, current_task, about_to_yield,
                       owner, wait_head>>
        /\ AppCode /\ me \in Tasks /\ me \in AllTasks /\ pc[me] = "compare" /\ me = current_task
        /\ \/ pc' = [pc EXCEPT ![me] = "check"]
           \/ pc' = [pc EXCEPT ![me] = "raise"] /\ priority[owner] < priority[me]
    BY <1>9, CompareFinds
  <2>2. state[me] = "RUNNING" /\ state[owner] # "RUNNING"
    BY <1>0, <2>1 DEF Boosted, OneRuns, AppCode
  <2>3. \A t \in Tasks :
           /\ pc'[t] = "waiting" <=> pc[t] = "waiting"
           /\ pc'[t] = "raise" => \/ pc[t] = "raise"
                                  \/ /\ state[t] \in {"READY", "RUNNING"} /\ state[owner] # "RUNNING"
                                     /\ priority[owner] < priority[t]
    BY <1>0, <2>1, <2>2
  <2> QED BY <1>0, <2>1, <2>3, BoostedSame
<1>10. CASE Raise
  BY <1>10, BoostedRaise
<1>11. CASE Block
  BY <1>11, BoostedBlock
<1>12. CASE Unlock
  BY <1>12, BoostedUnlock
<1> QED BY <1>1, <1>2, <1>3, <1>4, <1>5, <1>6, <1>7, <1>8, <1>9, <1>10, <1>11, <1>12 DEF Next

\* The task that has unlocked the mutex stays current and linked nowhere, until the scheduler
\* follows its null pointer.
LEMMA DoomedStep ==
  ASSUME Types, Doomed, [Next]_vars
  PROVE  UNCHANGED current_task /\ (~links'.fault => Doomed')
<1> USE DEF schedVars, mutexVars, callVars
<1> DEFINE o == current_task
           b == base_priority[o]
<1>0. /\ o \in Tasks /\ o \in AllTasks /\ b \in Priorities /\ o # NULL /\ owner = NULL
      /\ links.prev[o] = NULL /\ links.run_queue[b] = o /\ priority[o] = b
      /\ state[o] = "RUNNING" /\ (o \in about_to_yield \/ pc[o] = "unlocked")
      /\ links \in LinkRecords
      /\ priority \in [AllTasks -> Priorities] /\ base_priority \in [AllTasks -> Priorities]
      /\ state \in [AllTasks -> {"NEW", "READY", "RUNNING", "BLOCKED"}]
  BY Domains DEF Doomed, Types, TypeOK, IsLinked, LinkRecords
<1>1. ASSUME UNCHANGED <<links, state, priority, base_priority, current_task, about_to_yield,
                         owner, pc>>
      PROVE  UNCHANGED current_task /\ (~links'.fault => Doomed')
  BY <1>1 DEF Doomed
<1>2. ASSUME NEW t \in Tasks, NEW p \in BasePriorities, TaskCreate(t, p)
      PROVE  UNCHANGED current_task /\ (~links'.fault => Doomed')
  <2>1. /\ state[t] = "NEW" /\ o \notin about_to_yield
        /\ state' = [state EXCEPT ![t] = "READY"]
        /\ priority' = [priority EXCEPT ![t] = p]
        /\ base_priority' = [base_priority EXCEPT ![t] = p]
        /\ links' = Q!RqEnqueue(links, t, p)
        /\ UNCHANGED <<current_task, about_to_yield, owner, pc>>
    BY <1>2 DEF TaskCreate
  <2>2. t # o /\ t \in AllTasks /\ p \in Priorities
    BY <1>0, <2>1, KMutexAssumption, Domains
  <2>3. state'[o] = "RUNNING" /\ priority'[o] = b /\ base_priority'[o] = b
    BY <1>0, <2>1, <2>2
  <2>4. ASSUME ~links'.fault PROVE links'.prev[o] = NULL /\ links'.run_queue[b] = o
    <3>1. CASE links.run_queue[p] = NULL
      <4>1. /\ links'.prev = [links.prev EXCEPT ![t] = t]
            /\ links'.run_queue = [links.run_queue EXCEPT ![p] = t]
        <5> DEFINE M == Q!RqEnqueue(links, t, p)
        <5>1. links \in LinkRecords
          BY <1>0
        <5>2. /\ M.next = [links.next EXCEPT ![t] = t] /\ M.prev = [links.prev EXCEPT ![t] = t]
              /\ M.run_queue = [links.run_queue EXCEPT ![p] = t]
              /\ M.bitmap = links.bitmap \cup {p} /\ M.fault = links.fault
              /\ M \in LinkRecords
          BY <2>2, <3>1, <5>1, EnqueuedAlone
        <5>3. links' = M
          BY <2>1
        <5> HIDE DEF M
        <5> QED BY <5>2, <5>3
      <4> QED BY <1>0, <2>2, <3>1, <4>1 DEF LinkRecords
    <3>2. CASE links.run_queue[p] # NULL
      <4> DEFINE h == links.run_queue[p]
      <4>1. h \in AllTasks
        BY <1>0, <2>2, <3>2 DEF LinkRecords, Pointers
      <4>2. links' = [Q!LinkAtTail(links, t, p) EXCEPT !.bitmap = @ \cup {p}]
        BY <2>1, <3>2 DEF Q!RqEnqueue
      <4>3. links.prev[h] # NULL
        BY <1>0, <2>4, <4>2 DEF Q!LinkAtTail, LinkRecords
      <4>4. /\ links'.prev = [links.prev EXCEPT ![t] = links.prev[h], ![h] = t]
            /\ links'.run_queue = links.run_queue
        BY <1>0, <4>2, <4>3 DEF Q!LinkAtTail, LinkRecords
      <4>5. h # o
        BY <1>0, <4>3
      <4> QED BY <1>0, <2>2, <4>4, <4>5 DEF LinkRecords
    <3> QED BY <3>1, <3>2
  <2> QED BY <1>0, <2>1, <2>3, <2>4 DEF Doomed, IsLinked
<1>3. ASSUME SchedYield(links, state) PROVE links'.fault /\ UNCHANGED current_task
  <2> DEFINE L2 == Q!RqEnqueue(links, o, priority[o])
  <2>1. L2.fault
    <3>1. L2 = [Q!LinkAtTail(links, o, b) EXCEPT !.bitmap = @ \cup {b}]
      BY <1>0 DEF Q!RqEnqueue
    <3>2. Q!LinkAtTail(links, o, b) = [links EXCEPT !.fault = TRUE]
      BY <1>0 DEF Q!LinkAtTail
    <3> HIDE DEF L2
    <3> QED BY <1>0, <3>1, <3>2 DEF LinkRecords
  <2>2. links' = [L2 EXCEPT !.fault = TRUE] /\ UNCHANGED current_task
    BY <1>0, <1>3, <2>1 DEF SchedYield
  <2>3. L2 \in LinkRecords
    <3>1. L2 = [[links EXCEPT !.fault = TRUE] EXCEPT !.bitmap = @ \cup {b}]
      BY <1>0 DEF Q!RqEnqueue, Q!LinkAtTail
    <3> HIDE DEF L2
    <3> QED BY <1>0, <3>1 DEF LinkRecords
  <2> HIDE DEF L2
  <2> QED BY <2>2, <2>3 DEF LinkRecords
<1>4. CASE UNCHANGED vars
  BY <1>1, <1>4 DEF vars
<1>5. CASE TaskYield \/ YieldAfter \/ TickPreempt
  BY <1>3, <1>5 DEF TaskYield, YieldAfter, TickPreempt
<1>6. CASE TickEnter \/ TickReturn \/ TickResume
  BY <1>1, <1>6 DEF TickEnter, TickReturn, TickResume
<1>7. ASSUME AppCode, pc[me] # "unlocked" PROVE FALSE
  BY <1>0, <1>7 DEF AppCode, me
<1>8. CASE \/ \E ms \in LockTimeouts : LockCall(ms)
           \/ Cas \/ Own \/ BoostTest \/ Compare \/ Raise \/ GiveUp \/ GoOn \/ Block
  <2>1. \E l \in {"outside", "cas", "own", "boost", "compare", "raise", "check", "block"} :
          Executes(l)
    BY <1>8 DEF LockCall, Cas, Own, BoostTest, Compare, Raise, GiveUp, GoOn, Block
  <2> QED BY <1>7, <2>1 DEF Executes
<1>9. CASE Unlock
  BY <1>7, <1>9 DEF Unlock
<1> QED BY <1>2, <1>4, <1>5, <1>6, <1>8, <1>9 DEF Next

\* Initially the idle task is linked in level 0.
LEMMA BeforeInit == Init => Before
<1> SUFFICES ASSUME Init PROVE Before
  OBVIOUS
<1> DEFINE E == Q!EmptyLinks
<1>1. /\ E \in LinkRecords /\ E.run_queue = [p \in Priorities |-> NULL] /\ E.bitmap = {}
      /\ E.next = [t \in AllTasks |-> NULL] /\ E.prev = [t \in AllTasks |-> NULL] /\ ~E.fault
  BY Domains DEF Q!EmptyLinks, LinkRecords
<1>2. links = Q!RqEnqueue(E, Idle, 0)
  BY DEF Init
<1> HIDE DEF E
<1>3. Doubly(E) /\ \A t \in AllTasks : ~IsLinked(E, t)
  BY <1>1, Domains DEF Doubly, IsLinked
<1>4. ~Q!RqEnqueue(E, Idle, 0).fault
  <2>1. Q!RqEnqueue(E, Idle, 0).fault = E.fault
    <3>1. E \in LinkRecords /\ E.run_queue[0] = NULL
      BY <1>1, Domains
    <3>2. Idle \in AllTasks /\ 0 \in Priorities
      BY Domains
    <3> DEFINE M == Q!RqEnqueue(E, Idle, 0)
    <3>3. /\ M.next = [E.next EXCEPT ![Idle] = Idle] /\ M.prev = [E.prev EXCEPT ![Idle] = Idle]
          /\ M.run_queue = [E.run_queue EXCEPT ![0] = Idle]
          /\ M.bitmap = E.bitmap \cup {0} /\ M.fault = E.fault
          /\ M \in LinkRecords
      BY <3>1, <3>2, EnqueuedAlone
    <3> QED BY <3>3
  <2> QED BY <1>1, <2>1
<1>5. Put(E, links, Idle, 0)
  BY <1>1, <1>2, <1>3, <1>4, Domains, EnqueuePuts
<1>6. Doubly(links) /\ \A t \in AllTasks : IsLinked(links, t) <=> t = Idle
  BY <1>3, <1>5 DEF Put
<1>7. LinkedReady(links, state)
  BY <1>6 DEF Init, LinkedReady
<1>8. \A t \in Tasks : pc[t] # "raise"
  BY DEF Init
<1> QED BY <1>6, <1>7, <1>8 DEF Before

\* What the scheduler's invariant says of the running task.
LEMMA AgreeRuns == ASSUME Agree PROVE OneRuns
BY SameDomains DEF Agree, SP!IndInv, SP!OneRunner, OneRuns

\* Until a priority is raised a switch goes to a task than which none that is ready is higher.
LEMMA YieldHighest ==
  ASSUME Types, Agree, SchedYield(links, state), UNCHANGED wait_head
  PROVE  \A t \in AllTasks : state'[t] = "READY" => priority[t] <= priority[current_task']
<1>1. SP!SchedYield
  BY YieldAgrees
<1>2. SP!TypeOK /\ SP!RunQueueConsistent /\ SP!OneRunner /\ SP!IdleRunnable
  BY DEF Agree, SP!IndInv
<1> QED BY <1>1, <1>2, SP!SchedYieldCorrect, SchedulerAssumed, SameDomains

\* Before the first boost a switch does not take the owner while a task is about to raise
\* its priority.
LEMMA BeforeYield ==
  ASSUME Types, Agree, Before, SchedYield(links, state), ~links'.fault,
         UNCHANGED <<priority, base_priority, owner, wait_head>>,
         \A t \in Tasks : pc'[t] = "raise" => pc[t] = "raise"
  PROVE  Before'
<1>1. OneRuns /\ Doubly(links) /\ LinkedReady(links, state)
  BY AgreeRuns DEF Before
<1>2. /\ Doubly(links') /\ \A u \in AllTasks : IsLinked(links', u) <=> state'[u] = "READY"
      /\ current_task' \in AllTasks /\ state'[current_task'] = "RUNNING"
      /\ \A u \in AllTasks : /\ state'[u] = "RUNNING" => u = current_task'
                             /\ state[u] \in {"READY", "RUNNING"} => state'[u] \in {"READY", "RUNNING"}
  BY <1>1, YieldKeeps
<1>3. \A t \in AllTasks : state'[t] = "READY" => priority[t] <= priority[current_task']
  BY YieldHighest
<1>4. LinkedReady(links', state')
  BY <1>2 DEF LinkedReady
<1>5. ASSUME NEW t \in Tasks, pc'[t] = "raise"
      PROVE  /\ owner' \in Tasks /\ state'[owner'] = "READY" /\ priority'[owner'] < priority'[t]
             /\ state'[t] \in {"READY", "RUNNING"}
  <2>1. /\ owner \in Tasks /\ state[owner] = "READY" /\ priority[owner] < priority[t]
        /\ state[t] \in {"READY", "RUNNING"}
    BY <1>5 DEF Before
  <2>2. /\ t \in AllTasks /\ owner \in AllTasks
        /\ priority[t] \in Int /\ priority[owner] \in Int
    BY <2>1, Domains DEF Types, TypeOK, Priorities
  <2>3. state'[t] \in {"READY", "RUNNING"} /\ state'[owner] \in {"READY", "RUNNING"}
    BY <1>2, <2>1, <2>2
  <2>4. state'[owner] # "RUNNING"
    <3> SUFFICES ASSUME owner = current_task' PROVE FALSE
      BY <1>2, <2>2
    <3>1. t # owner
      BY <2>1, <2>2
    <3>2. state'[t] = "READY"
      BY <1>2, <2>2, <2>3, <3>1
    <3>3. priority[t] <= priority[owner]
      BY <1>3, <2>2, <3>2
    <3> QED BY <2>1, <2>2, <3>3
  <2> QED BY <2>1, <2>3, <2>4
<1> QED BY <1>2, <1>4, <1>5 DEF Before

\* A step that changes neither the links nor what they hold.
LEMMA BeforeSame ==
  ASSUME Before, UNCHANGED <<links, state, priority, owner>>,
         \A t \in Tasks : pc'[t] = "raise" =>
           \/ pc[t] = "raise"
           \/ /\ owner \in Tasks /\ state[owner] = "READY" /\ priority[owner] < priority[t]
              /\ state[t] \in {"READY", "RUNNING"}
  PROVE  Before'
BY DEF Before

\* Until the first boost.
LEMMA BeforeStep ==
  ASSUME Types, MutexInv, Agree, Before, Looks, [Next]_vars, ~raised', ~links'.fault
  PROVE  Before'
<1> USE DEF schedVars, mutexVars, callVars
<1>0. /\ priority \in [AllTasks -> Priorities] /\ pc \in [Tasks -> Locations]
      /\ state \in [AllTasks -> {"NEW", "READY", "RUNNING", "BLOCKED"}]
      /\ links \in LinkRecords /\ owner \in Tasks \cup {NULL}
      /\ Waiting /\ OneRuns /\ Doubly(links) /\ LinkedReady(links, state)
  BY AgreeWaits, AgreeRuns DEF Types, TypeOK, LinkRecords, Before
<1>1. CASE UNCHANGED vars
  BY <1>1, BeforeSame DEF vars
<1>2. ASSUME NEW t \in Tasks, NEW p \in BasePriorities, TaskCreate(t, p) PROVE Before'
  <2>1. /\ state[t] = "NEW"
        /\ state' = [state EXCEPT ![t] = "READY"]
        /\ priority' = [priority EXCEPT ![t] = p]
        /\ links' = Q!RqEnqueue(links, t, p)
        /\ UNCHANGED <<owner, pc>>
    BY <1>2 DEF TaskCreate
  <2>2. t \in AllTasks /\ p \in Priorities /\ ~IsLinked(links, t)
    BY <1>0, <2>1, Domains, KMutexAssumption DEF LinkedReady
  <2>3. Put(links, links', t, p)
    BY <1>0, <2>1, <2>2, EnqueuePuts
  <2>4. /\ \A u \in AllTasks : state'[u] = IF u = t THEN "READY" ELSE state[u]
        /\ \A u \in AllTasks : u # t => priority'[u] = priority[u]
    BY <1>0, <2>1, <2>2
  <2>5. Doubly(links') /\ LinkedReady(links', state')
    BY <1>0, <2>3, <2>4 DEF Put, LinkedReady
  <2>6. ASSUME NEW u \in Tasks, pc'[u] = "raise"
        PROVE  /\ owner' \in Tasks /\ state'[owner'] = "READY" /\ priority'[owner'] < priority'[u]
               /\ state'[u] \in {"READY", "RUNNING"}
    <3>1. /\ owner \in Tasks /\ state[owner] = "READY" /\ priority[owner] < priority[u]
          /\ state[u] \in {"READY", "RUNNING"}
      BY <2>1, <2>6 DEF Before
    <3>2. u # t /\ owner # t /\ u \in AllTasks /\ owner \in AllTasks
      BY <2>1, <3>1, Domains
    <3> QED BY <2>1, <2>4, <3>1, <3>2
  <2> QED BY <2>5, <2>6 DEF Before
<1>3. CASE TaskYield
  <2>1. /\ SchedYield(links, state) /\ UNCHANGED <<priority, base_priority, owner, wait_head>>
        /\ pc' = [pc EXCEPT ![me] = IF @ = "unlocked" THEN "outside" ELSE @]
    BY <1>3 DEF TaskYield, me
  <2>2. \A t \in Tasks : pc'[t] = "raise" => pc[t] = "raise"
    BY <1>0, <2>1
  <2> QED BY <2>1, <2>2, BeforeYield
<1>4. CASE YieldAfter
  <2>1. SchedYield(links, state) /\ UNCHANGED <<priority, base_priority, owner, wait_head, pc>>
    BY <1>4 DEF YieldAfter
  <2> QED BY <2>1, BeforeYield
<1>5. CASE TickPreempt
  <2>1. SchedYield(links, state) /\ UNCHANGED <<priority, base_priority, owner, wait_head, pc>>
    BY <1>5 DEF TickPreempt
  <2> QED BY <2>1, BeforeYield
<1>6. CASE TickEnter \/ TickReturn \/ TickResume
  <2>1. UNCHANGED <<links, state, priority, owner, pc>>
    BY <1>6 DEF TickEnter, TickReturn, TickResume
  <2> QED BY <2>1, BeforeSame
<1>7. CASE (\E ms \in LockTimeouts : LockCall(ms)) \/ Cas \/ BoostTest \/ GiveUp \/ GoOn
  <2>1. /\ UNCHANGED <<links, state, priority, owner>>
        /\ \E l \in {"cas", "own", "boost", "compare", "check", "outside", "block"} :
             pc' = [pc EXCEPT ![me] = l]
    BY <1>7 DEF LockCall, Cas, BoostTest, GiveUp, GoOn, Executes, GoTo
  <2>2. \A t \in Tasks : pc'[t] = "raise" => pc[t] = "raise"
    BY <1>0, <2>1
  <2> QED BY <2>1, <2>2, BeforeSame
<1>8. CASE Own
  <2>1. me \in Tasks /\ pc[me] = "own" /\ UNCHANGED <<links, state, priority>>
        /\ pc' = [pc EXCEPT ![me] = "inside"]
    BY <1>8 DEF Own, Executes, AppCode, GoTo, me
  <2>2. \A t \in Tasks : pc[t] # "raise"
    BY <2>1 DEF Before, MutexInv, MutualExclusion
  <2>3. \A t \in Tasks : pc'[t] # "raise"
    BY <1>0, <2>1, <2>2
  <2> QED BY <2>1, <2>3 DEF Before
<1>9. CASE Compare
  <2>1. /\ UNCHANGED <<links, state, priority, owner>>
        /\ AppCode /\ me \in Tasks /\ me \in AllTasks /\ pc[me] = "compare" /\ me = current_task
        /\ \/ pc' = [pc EXCEPT ![me] = "check"]
           \/ /\ pc' = [pc EXCEPT ![me] = "raise"]
              /\ owner \in Tasks /\ priority[owner] < priority[me]
    BY <1>9, CompareFinds
  <2>2. state[me] = "RUNNING"
    BY <1>0, <2>1 DEF OneRuns, AppCode
  <2>3. owner \in Tasks => state[owner] = "READY"
    BY <1>0, <2>1, OwnerRuns DEF OneRuns
  <2> QED BY <1>0, <2>1, <2>2, <2>3, BeforeSame
<1>10. CASE Raise
  BY <1>10 DEF Raise
<1>11. CASE Block
  <2>1. AppCode /\ UNCHANGED <<priority, owner>>
    BY <1>11 DEF Block, Executes
  <2>2. state[me] = "RUNNING" /\ me \in Tasks
    BY <2>1, Facts
  <2>3. /\ links'.prev = links.prev /\ me # Idle
        /\ \A u \in AllTasks : state'[u] = IF u = me THEN "BLOCKED" ELSE state[u]
        /\ \A u \in Tasks : pc'[u] = IF u = me THEN "waiting" ELSE pc[u]
        /\ Doubly(links')
    BY <1>0, <1>11, <2>2, BlockLinks
  <2>4. LinkedReady(links', state')
    BY <1>0, <2>2, <2>3 DEF LinkedReady, IsLinked
  <2>5. ASSUME NEW u \in Tasks, pc'[u] = "raise"
        PROVE  /\ owner' \in Tasks /\ state'[owner'] = "READY" /\ priority'[owner'] < priority'[u]
               /\ state'[u] \in {"READY", "RUNNING"}
    <3>1. u # me /\ pc[u] = "raise"
      BY <2>3, <2>5
    <3>2. /\ owner \in Tasks /\ state[owner] = "READY" /\ priority[owner] < priority[u]
          /\ state[u] \in {"READY", "RUNNING"}
      BY <3>1 DEF Before
    <3> QED BY <2>1, <2>2, <2>3, <3>1, <3>2, Domains
  <2> QED BY <2>3, <2>4, <2>5 DEF Before
<1>12. CASE Unlock
  <2>1. AppCode /\ owner = me /\ me \in Tasks /\ state[me] = "RUNNING" /\ owner' = NULL
    BY <1>12, Facts DEF Unlock, IsOwner
  <2>2. \A t \in Tasks : pc[t] # "raise"
    BY <2>1 DEF Before
  <2>3. CASE wait_head = NULL
    <3>1. pc' = [pc EXCEPT ![me] = "unlocked"] /\ UNCHANGED <<links, state>>
      BY <1>12, <2>3 DEF Unlock, GoTo
    <3>2. \A t \in Tasks : pc'[t] # "raise"
      BY <1>0, <2>2, <3>1
    <3> QED BY <1>0, <3>1, <3>2 DEF Before
  <2>4. CASE wait_head # NULL
    <3> DEFINE w == wait_head
    <3>1. /\ state' = [state EXCEPT ![w] = "READY"]
          /\ links' = Q!RqEnqueue(links, w, priority[w])
          /\ pc' = [pc EXCEPT ![w] = "cas", ![me] = "outside"]
      BY <1>12, <2>4 DEF Unlock
    <3>2. /\ state[w] = "BLOCKED" /\ w \in AllTasks /\ priority[w] \in Priorities
      BY <1>0, <2>4, Domains DEF Waiting, Types, TypeOK
    <3>3. ~IsLinked(links, w)
      BY <1>0, <3>2 DEF LinkedReady
    <3> HIDE DEF w
    <3>4. Put(links, links', w, priority[w])
      BY <1>0, <3>1, <3>2, <3>3, EnqueuePuts
    <3>5. \A t \in Tasks : pc'[t] # "raise"
      BY <1>0, <2>2, <3>1
    <3>6. \A u \in AllTasks : state'[u] = IF u = w THEN "READY" ELSE state[u]
      BY <1>0, <3>1, <3>2
    <3>7. Doubly(links') /\ LinkedReady(links', state')
      BY <1>0, <3>4, <3>6 DEF Put, LinkedReady
    <3> QED BY <3>5, <3>7 DEF Before
  <2> QED BY <2>3, <2>4
<1> QED BY <1>1, <1>2, <1>3, <1>4, <1>5, <1>6, <1>7, <1>8, <1>9, <1>10, <1>11, <1>12 DEF Next

\* The first boost.
LEMMA FirstBoost ==
  ASSUME Types, MutexInv, Agree, Before, Looks, Raise
  PROVE  Boosted'
<1> USE DEF schedVars, mutexVars, callVars
<1>1. /\ me \in Tasks /\ me \in AllTasks /\ pc[me] = "raise" /\ AppCode /\ me # Idle
      /\ pc' = [pc EXCEPT ![me] = "check"]
      /\ UNCHANGED <<state, base_priority, current_task, about_to_yield, owner, wait_head>>
  BY Domains DEF Raise, Executes, AppCode, GoTo, me
<1>2. /\ owner \in Tasks /\ owner \in AllTasks /\ owner # NULL /\ state[owner] = "READY"
      /\ priority[owner] < priority[me]
  BY <1>1, Domains DEF Before
<1>3. UNCHANGED links /\ priority' = [priority EXCEPT ![owner] = priority[me]]
  <2>1. Reread = {owner}
    BY <1>1 DEF Looks, Reread
  <2> QED BY <1>2, <2>1 DEF Raise, Inherited
<1>4. /\ Waiting /\ OneRuns /\ Doubly(links) /\ LinkedReady(links, state)
      /\ links \in LinkRecords /\ priority \in [AllTasks -> Priorities]
      /\ pc \in [Tasks -> Locations]
      /\ priority[owner] \in Priorities /\ priority[me] \in Priorities
      /\ base_priority[owner] = priority[owner] /\ pc[owner] = "inside"
  <2>1. Waiting /\ OneRuns
    BY AgreeWaits, AgreeRuns
  <2>2. pc[owner] = "inside" /\ base_priority[owner] = priority[owner]
    BY <1>2, <2>1, OwnerRuns DEF Agree, Lists
  <2> QED BY <1>1, <1>2, <2>1, <2>2 DEF Before, Types, TypeOK, LinkRecords
<1>5. state[me] = "RUNNING" /\ state[Idle] # "RUNNING"
  BY <1>1, <1>4, Domains, Facts DEF OneRuns, me
<1>6. IsLinked(links, owner) /\ \A t \in AllTasks : IsLinked(links, t) <=> state[t] = "READY"
  BY <1>2, <1>4, <1>5 DEF LinkedReady
<1>7. Shaped(links, priority, priority[owner], owner, priority[owner])
  BY <1>2, <1>4, <1>5, ShapeBefore
<1>8. Shaped(links, priority', priority[owner], owner, priority[owner])
  BY <1>2, <1>3, <1>4, <1>6, <1>7, ShapeRaise
<1>9. \A t \in Tasks : pc'[t] = IF t = me THEN "check" ELSE pc[t]
  BY <1>1, <1>4
<1>10. priority'[owner] = priority[me]
  BY <1>2, <1>3, <1>4
<1>11. Waiting' /\ OneRuns'
  BY <1>1, <1>3, <1>4, <1>9 DEF Waiting, OneRuns
<1>12. \A t \in Tasks : pc'[t] = "raise" =>
         state'[t] \in {"READY", "RUNNING"} /\ state'[owner'] # "RUNNING" /\ priority[owner] < priority'[t]
  <2> SUFFICES ASSUME NEW t \in Tasks, pc'[t] = "raise"
               PROVE  /\ state'[t] \in {"READY", "RUNNING"} /\ state'[owner'] # "RUNNING"
                      /\ priority[owner] < priority'[t]
    OBVIOUS
  <2>1. pc[t] = "raise" /\ t # owner /\ t \in AllTasks
    BY <1>4, <1>9, Domains
  <2>2. priority'[t] = priority[t]
    BY <1>3, <1>4, <2>1
  <2>3. state[t] \in {"READY", "RUNNING"} /\ priority[owner] < priority[t]
    BY <2>1 DEF Before
  <2> QED BY <1>1, <1>2, <2>2, <2>3
<1> QED BY <1>1, <1>2, <1>3, <1>4, <1>6, <1>8, <1>10, <1>11, <1>12 DEF Boosted

\* The inductive invariant: what holds before the first boost, what after it, and that no
\* priority is below the one the task was created with.
NotLowered == \A t \in Tasks : priority[t] >= base_priority[t]

BoostIndInv ==
  /\ Types /\ MutexInv /\ OnlyOwnerBoosted /\ NotLowered
  /\ ~raised => Agree \/ Crashed
  /\ BoostInv

\* A store goes to the owner.
LEMMA RaiseSees ==
  ASSUME BoostIndInv, Raise
  PROVE  owner \in Tasks /\ seen[me] = owner
<1>1. Alive /\ AppCode /\ me \in Tasks /\ pc[me] = "raise" /\ me = current_task
  BY DEF Raise, Executes, AppCode, TaskCode, me
<1>2. ~Doomed
  BY <1>1 DEF Doomed, AppCode
<1> QED BY <1>1, <1>2 DEF BoostIndInv, BoostInv, Alive, Looks

\* No started task becomes new again.
LEMMA StartedStays ==
  ASSUME Types, [Next]_vars
  PROVE  Started(state) \subseteq Started(state')
<1> USE DEF schedVars
<1>0. state \in [AllTasks -> {"NEW", "READY", "RUNNING", "BLOCKED"}] /\ Tasks \subseteq AllTasks
  BY Domains DEF Types, TypeOK
<1>1. CASE SchedYield(links, state)
  BY <1>1, YieldTypes
<1>2. CASE \E t \in AllTasks, v \in {"READY", "BLOCKED"} : state' = [state EXCEPT ![t] = v]
  BY <1>0, <1>2 DEF Started
<1>3. CASE UNCHANGED state
  BY <1>3 DEF Started
<1>4. CASE \E t \in Tasks, p \in BasePriorities : TaskCreate(t, p)
  BY <1>0, <1>2, <1>4 DEF TaskCreate
<1>5. CASE TaskYield \/ YieldAfter \/ TickPreempt
  BY <1>1, <1>5 DEF TaskYield, YieldAfter, TickPreempt
<1>6. CASE TickEnter \/ TickReturn \/ TickResume
  BY <1>3, <1>6 DEF TickEnter, TickReturn, TickResume
<1>7. CASE (\E ms \in LockTimeouts : LockCall(ms)) \/ Cas \/ Own \/ BoostTest \/ Compare \/ Raise \/ GiveUp \/ GoOn
  BY <1>3, <1>7 DEF LockCall, Cas, Own, BoostTest, Compare, Raise, GiveUp, GoOn
<1>8. CASE Block
  <2>1. me \in AllTasks /\ state' = [state EXCEPT ![me] = "BLOCKED"]
    BY <1>0, <1>8 DEF Block, Executes, AppCode, me
  <2> QED BY <1>2, <2>1
<1>9. CASE Unlock
  <2>1. wait_head \in Tasks \cup {NULL}
    BY DEF Types, TypeOK
  <2>2. CASE wait_head = NULL
    BY <1>3, <1>9, <2>2 DEF Unlock
  <2>3. CASE wait_head # NULL
    <3>1. wait_head \in AllTasks /\ state' = [state EXCEPT ![wait_head] = "READY"]
      BY <1>0, <1>9, <2>1, <2>3 DEF Unlock
    <3> QED BY <1>2, <3>1
  <2> QED BY <2>2, <2>3
<1>10. CASE UNCHANGED vars
  BY <1>3, <1>10 DEF vars
<1> QED BY <1>4, <1>5, <1>6, <1>7, <1>8, <1>9, <1>10 DEF Next

\* What a task has seen keeps its meaning, if an unlock leaves the owner no lower than the
\* tasks before the comparison and none before the store.
LEMMA LooksStep ==
  ASSUME Types, MutexInv, Looks, [Next]_vars, ~links'.fault,
         Unlock => \A t \in Tasks : /\ pc[t] # "raise"
                                    /\ pc[t] = "compare" => priority[t] <= base_priority[me]
  PROVE  Looks'
<1> USE DEF schedVars, mutexVars, callVars
<1>0. /\ priority \in [AllTasks -> Priorities] /\ base_priority \in [AllTasks -> Priorities]
      /\ pc \in [Tasks -> Locations] /\ seen \in [Tasks -> Tasks \cup {NULL}]
      /\ owner \in Started(state) \cup {NULL} /\ Started(state) \subseteq Tasks
      /\ NULL \notin Tasks /\ Tasks \subseteq AllTasks
      /\ current_task \in Started(state) \cup {Idle}
  BY Domains DEF Types, TypeOK, Started
<1>1. Started(state) \subseteq Started(state')
  BY StartedStays
<1>2. ASSUME UNCHANGED <<priority, owner, seen>>,
             \A t \in Tasks : pc'[t] \in {"raise", "compare"} => pc[t] = pc'[t]
      PROVE  Looks'
  BY <1>0, <1>1, <1>2 DEF Looks
<1>3. CASE UNCHANGED vars
  BY <1>2, <1>3 DEF vars
<1>4. ASSUME NEW t \in Tasks, NEW p \in BasePriorities, TaskCreate(t, p) PROVE Looks'
  <2>1. /\ state[t] = "NEW" /\ priority' = [priority EXCEPT ![t] = p]
        /\ UNCHANGED <<owner, seen, pc>>
    BY <1>4 DEF TaskCreate
  <2>2. \A u \in Started(state) : u # t /\ priority'[u] = priority[u]
    BY <1>0, <2>1 DEF Started
  <2> QED BY <1>0, <1>1, <2>1, <2>2 DEF Looks
<1>5. CASE TaskYield
  <2>1. /\ me \in Tasks /\ UNCHANGED <<priority, owner, seen>>
        /\ pc' = [pc EXCEPT ![me] = IF @ = "unlocked" THEN "outside" ELSE @]
    BY <1>5 DEF TaskYield, AppCode, me
  <2>2. \A t \in Tasks : pc'[t] \in {"raise", "compare"} => pc[t] = pc'[t]
    BY <1>0, <2>1
  <2> QED BY <1>2, <2>1, <2>2
<1>6. CASE YieldAfter \/ TickEnter \/ TickReturn \/ TickPreempt \/ TickResume
  BY <1>2, <1>6 DEF YieldAfter, TickEnter, TickReturn, TickPreempt, TickResume
<1>7. CASE (\E ms \in LockTimeouts : LockCall(ms)) \/ Cas \/ GiveUp \/ GoOn \/ Block
  <2>1. /\ me \in Tasks /\ UNCHANGED <<priority, owner, seen>>
        /\ \E l \in {"cas", "own", "boost", "outside", "block", "waiting"} :
             pc' = [pc EXCEPT ![me] = l]
    BY <1>7 DEF LockCall, Cas, GiveUp, GoOn, Block, Executes, AppCode, GoTo, me
  <2>2. \A t \in Tasks : pc'[t] \in {"raise", "compare"} => pc[t] = pc'[t]
    BY <1>0, <2>1
  <2> QED BY <1>2, <2>1, <2>2
<1>8. CASE Own
  <2>1. /\ me \in Tasks /\ pc[me] = "own" /\ UNCHANGED <<priority, seen>>
        /\ pc' = [pc EXCEPT ![me] = "inside"]
    BY <1>8 DEF Own, Executes, AppCode, GoTo, me
  <2>2. owner = NULL
    BY <1>0, <2>1 DEF MutexInv, MutualExclusion
  <2>3. \A t \in Tasks : pc[t] # "raise"
    BY <1>0, <2>2 DEF Looks
  <2>4. \A t \in Tasks : pc'[t] = IF t = me THEN "inside" ELSE pc[t]
    BY <1>0, <2>1
  <2> QED BY <1>0, <1>1, <2>1, <2>2, <2>3, <2>4 DEF Looks
<1>9. CASE BoostTest
  <2>1. /\ me \in Tasks /\ me \in Started(state) /\ UNCHANGED <<priority, owner>>
        /\ pc' = [pc EXCEPT ![me] = IF owner = NULL THEN "check" ELSE "compare"]
        /\ seen' = [seen EXCEPT ![me] = owner]
    <3>1. me \in Tasks /\ me = current_task
      BY <1>9 DEF BoostTest, Executes, AppCode, me
    <3>2. me \in Started(state)
      BY <1>0, <3>1, Domains
    <3> QED BY <1>9, <3>1, <3>2 DEF BoostTest, GoTo
  <2>2. \A t \in Tasks : /\ pc'[t] = IF t # me THEN pc[t]
                                     ELSE IF owner = NULL THEN "check" ELSE "compare"
                         /\ seen'[t] = IF t = me THEN owner ELSE seen[t]
    BY <1>0, <2>1
  <2> QED BY <1>0, <1>1, <2>1, <2>2 DEF Looks
<1>10. CASE Compare
  <2>1. /\ me \in Tasks /\ UNCHANGED <<priority, owner>>
        /\ \/ pc' = [pc EXCEPT ![me] = "check"] /\ seen' = [seen EXCEPT ![me] = NULL]
           \/ /\ pc' = [pc EXCEPT ![me] = "raise"] /\ seen' = [seen EXCEPT ![me] = owner]
              /\ owner \in Tasks
    BY <1>10, CompareFinds
  <2>2. \A t \in Tasks : t # me => pc'[t] = pc[t] /\ seen'[t] = seen[t]
    BY <1>0, <2>1
  <2>3. pc'[me] = "check" \/ (pc'[me] = "raise" /\ seen'[me] = owner /\ owner \in Tasks)
    BY <1>0, <2>1
  <2> QED BY <1>0, <1>1, <2>1, <2>2, <2>3 DEF Looks
<1>11. CASE Raise
  <2>1. /\ me \in Tasks /\ pc[me] = "raise" /\ UNCHANGED owner
        /\ pc' = [pc EXCEPT ![me] = "check"] /\ seen' = [seen EXCEPT ![me] = NULL]
    BY <1>11 DEF Raise, Executes, AppCode, GoTo, me
  <2>2. owner \in Tasks /\ Reread = {owner}
    BY <2>1 DEF Looks, Reread
  <2>3. priority' = [priority EXCEPT ![owner] = priority[me]]
    BY <1>0, <1>11, <2>2 DEF Raise, Inherited
  <2>4. pc[owner] = "inside"
    BY <2>2 DEF MutexInv, MutualExclusion
  <2>5. \A t \in Tasks : /\ pc'[t] = IF t = me THEN "check" ELSE pc[t]
                         /\ t # me => seen'[t] = seen[t]
                         /\ t # owner => priority'[t] = priority[t]
    BY <1>0, <2>1, <2>2, <2>3
  <2> QED BY <1>0, <1>1, <2>1, <2>2, <2>4, <2>5 DEF Looks
<1>12. CASE Unlock
  <2>1. /\ me \in Tasks /\ owner = me /\ pc[me] \in {"outside", "inside"} /\ owner' = NULL
        /\ priority' = PrioritiesRestored /\ UNCHANGED seen
        /\ pc' = [pc EXCEPT ![me] = "unlocked"]
             \/ pc' = [pc EXCEPT ![wait_head] = "cas", ![me] = "outside"]
    BY <1>12 DEF Unlock, AppCode, IsOwner, GoTo, me
  <2>2. /\ \A t \in Tasks : pc'[t] \in {"raise", "compare"} => pc[t] = pc'[t]
        /\ priority'[me] = base_priority[me]
        /\ \A t \in Tasks : t # me => priority'[t] = priority[t]
    BY <1>0, <2>1 DEF PrioritiesRestored
  <2>3. ASSUME NEW t \in Tasks, pc'[t] = "compare"
        PROVE  seen[t] \in Started(state) /\ priority'[t] <= priority'[seen[t]]
    <3>1. /\ pc[t] = "compare" /\ t # me /\ priority'[t] = priority[t]
          /\ seen[t] \in Started(state)
          /\ seen[t] = owner \/ priority[t] <= priority[seen[t]]
          /\ priority[t] <= base_priority[me]
      BY <1>12, <2>1, <2>2, <2>3 DEF Looks
    <3>2. CASE seen[t] = me
      BY <2>2, <3>1, <3>2
    <3>3. CASE seen[t] # me
      BY <1>0, <2>1, <2>2, <3>1, <3>3
    <3> QED BY <3>2, <3>3
  <2> QED BY <1>0, <1>1, <1>12, <2>1, <2>2, <2>3 DEF Looks
<1> QED BY <1>3, <1>4, <1>5, <1>6, <1>7, <1>8, <1>9, <1>10, <1>11, <1>12 DEF Next

\* Before the first boost, a task before the comparison is preempted by no lower task.
LEMMA LeadingStep ==
  ASSUME Types, MutexInv, Agree, Before, Leading, [Next]_vars, ~raised', ~links'.fault
  PROVE  Leading'
<1> USE DEF schedVars, mutexVars, callVars
<1>0. /\ priority \in [AllTasks -> Priorities] /\ pc \in [Tasks -> Locations]
      /\ state \in [AllTasks -> {"NEW", "READY", "RUNNING", "BLOCKED"}]
      /\ current_task \in AllTasks /\ Tasks \subseteq AllTasks
      /\ Waiting /\ OneRuns
      /\ \A u \in AllTasks : priority[u] \in Int
  BY AgreeWaits, AgreeRuns, Domains DEF Types, TypeOK, Priorities
<1>1. ASSUME UNCHANGED <<priority, current_task>>,
             \A t \in Tasks : pc'[t] = "compare" =>
               pc[t] = "compare" /\ state'[t] \in {state[t], "READY", "RUNNING"}
      PROVE  Leading'
  BY <1>1 DEF Leading
<1>2. ASSUME SchedYield(links, state), UNCHANGED <<priority, wait_head>>,
             \A t \in Tasks : pc'[t] = "compare" => pc[t] = "compare"
      PROVE  Leading'
  <2>1. LinkedReady(links, state) /\ Doubly(links)
    BY DEF Before
  <2>2. /\ current_task' \in AllTasks
        /\ \A u \in AllTasks : /\ state'[u] = "RUNNING" => u = current_task'
                               /\ state[u] \in {"READY", "RUNNING"} => state'[u] \in {"READY", "RUNNING"}
    BY <1>0, <1>2, <2>1, YieldKeeps
  <2>3. \A t \in AllTasks : state'[t] = "READY" => priority[t] <= priority[current_task']
    BY <1>2, YieldHighest
  <2>4. ASSUME NEW t \in Tasks, pc'[t] = "compare"
        PROVE  state'[t] \in {"READY", "RUNNING"} /\ priority'[t] <= priority'[current_task']
    <3>1. state'[t] \in {"READY", "RUNNING"} /\ t \in AllTasks
      BY <1>0, <1>2, <2>2, <2>4 DEF Leading
    <3>2. CASE state'[t] = "READY"
      BY <1>2, <2>3, <3>1, <3>2
    <3>3. CASE state'[t] = "RUNNING"
      BY <1>0, <1>2, <2>2, <3>1, <3>3
    <3> QED BY <3>1, <3>2, <3>3
  <2> QED BY <2>4 DEF Leading
<1>3. CASE UNCHANGED vars
  BY <1>1, <1>3 DEF vars
<1>4. ASSUME NEW t \in Tasks, NEW p \in BasePriorities, TaskCreate(t, p) PROVE Leading'
  <2>1. /\ state[t] = "NEW" /\ priority' = [priority EXCEPT ![t] = p]
        /\ state' = [state EXCEPT ![t] = "READY"]
        /\ UNCHANGED <<pc, current_task>>
    BY <1>4 DEF TaskCreate
  <2>2. current_task # t
    BY <2>1, Domains DEF Types, Started
  <2>3. \A u \in AllTasks : u # t => priority'[u] = priority[u] /\ state'[u] = state[u]
    BY <1>0, <2>1
  <2>4. \A u \in Tasks : pc'[u] = "compare" => u # t /\ u \in AllTasks
    BY <1>0, <2>1 DEF Leading
  <2> QED BY <1>0, <2>1, <2>2, <2>3, <2>4 DEF Leading
<1>5. CASE TaskYield
  <2>1. /\ me \in Tasks /\ UNCHANGED <<priority, wait_head>> /\ SchedYield(links, state)
        /\ pc' = [pc EXCEPT ![me] = IF @ = "unlocked" THEN "outside" ELSE @]
    BY <1>5 DEF TaskYield, AppCode, me
  <2>2. \A t \in Tasks : pc'[t] = "compare" => pc[t] = "compare"
    BY <1>0, <2>1
  <2> QED BY <1>2, <2>1, <2>2
<1>6. CASE YieldAfter \/ TickPreempt
  BY <1>2, <1>6 DEF YieldAfter, TickPreempt
<1>7. CASE TickEnter \/ TickReturn \/ TickResume
  BY <1>1, <1>7 DEF TickEnter, TickReturn, TickResume
<1>8. CASE (\E ms \in LockTimeouts : LockCall(ms)) \/ Cas \/ Own \/ Compare \/ GiveUp \/ GoOn
  <2>1. /\ me \in Tasks /\ UNCHANGED <<priority, current_task, state>>
        /\ \E l \in {"cas", "own", "boost", "crashed", "raise", "check", "inside", "outside", "block"} :
             pc' = [pc EXCEPT ![me] = l]
    BY <1>8 DEF LockCall, Cas, Own, Compare, GiveUp, GoOn, Executes, AppCode, GoTo, me
  <2>2. \A t \in Tasks : pc'[t] = "compare" => pc[t] = "compare"
    BY <1>0, <2>1
  <2> QED BY <1>1, <2>1, <2>2
<1>9. CASE BoostTest
  <2>1. /\ me \in Tasks /\ me = current_task /\ AppCode /\ UNCHANGED <<priority, current_task, state>>
        /\ \E l \in Locations : pc' = [pc EXCEPT ![me] = l]
    BY <1>9 DEF BoostTest, Executes, AppCode, GoTo, me, Locations
  <2>2. state[me] = "RUNNING" /\ priority[me] <= priority[me]
    BY <1>0, <2>1, Facts
  <2>3. \A t \in Tasks : t # me => pc'[t] = pc[t]
    BY <1>0, <2>1
  <2> QED BY <2>1, <2>2, <2>3 DEF Leading
<1>10. CASE Raise
  BY <1>10 DEF Raise
<1>11. CASE Block
  <2>1. /\ me \in Tasks /\ UNCHANGED <<priority, current_task>>
        /\ state' = [state EXCEPT ![me] = "BLOCKED"] /\ pc' = [pc EXCEPT ![me] = "waiting"]
    BY <1>11 DEF Block, Executes, AppCode, GoTo, me
  <2>2. \A t \in Tasks : pc'[t] = "compare" => pc[t] = "compare" /\ state'[t] = state[t]
    BY <1>0, <2>1
  <2> QED BY <1>1, <2>1, <2>2
<1>12. CASE Unlock
  <2>1. /\ me \in Tasks /\ owner = me /\ UNCHANGED current_task /\ priority' = PrioritiesRestored
    BY <1>12 DEF Unlock, AppCode, IsOwner, me
  <2>2. UNCHANGED priority
    <3>1. base_priority[me] = priority[me]
      BY <2>1 DEF Agree, Lists
    <3>2. \A t \in AllTasks : (IF t = owner THEN base_priority[t] ELSE priority[t]) = priority[t]
      BY <2>1, <3>1
    <3> QED BY <1>0, <2>1, <3>2 DEF PrioritiesRestored
  <2>3. CASE wait_head = NULL
    <3>1. UNCHANGED state /\ pc' = [pc EXCEPT ![me] = "unlocked"]
      BY <1>12, <2>3 DEF Unlock, GoTo
    <3>2. \A t \in Tasks : pc'[t] = "compare" => pc[t] = "compare"
      BY <1>0, <2>1, <3>1
    <3> QED BY <1>1, <2>1, <2>2, <3>1, <3>2
  <2>4. CASE wait_head # NULL
    <3>1. /\ state' = [state EXCEPT ![wait_head] = "READY"]
          /\ pc' = [pc EXCEPT ![wait_head] = "cas", ![me] = "outside"]
      BY <1>12, <2>4 DEF Unlock
    <3>2. \A t \in Tasks : pc'[t] = "compare" =>
            pc[t] = "compare" /\ state'[t] \in {state[t], "READY", "RUNNING"}
      BY <1>0, <2>1, <3>1
    <3> QED BY <1>1, <2>1, <2>2, <3>2
  <2> QED BY <2>3, <2>4
<1> QED BY <1>3, <1>4, <1>5, <1>6, <1>7, <1>8, <1>9, <1>10, <1>11, <1>12 DEF Next

\* The links are in one of the two forms.
LEMMA BoostInvStep ==
  ASSUME BoostIndInv, [Next]_vars
  PROVE  BoostInv'
<1> USE DEF BoostIndInv
<1>1. SUFFICES ASSUME ~links'.fault
               PROVE  IF raised' THEN (Boosted' /\ Looks') \/ Doomed'
                      ELSE Before' /\ Looks' /\ Leading'
  BY DEF BoostInv
<1>2. ~links.fault
  BY <1>1, FaultStops DEF vars
<1>3. CASE Doomed /\ raised
  <2>1. raised'
    BY <1>3, RaisedStays
  <2> QED BY <1>1, <1>3, <2>1, DoomedStep
<1>4. CASE raised /\ Boosted /\ Looks
  <2>1. raised'
    BY <1>4, RaisedStays
  <2>2. Boosted' \/ (Unlock /\ Doomed')
    BY <1>1, <1>4, BoostedStep
  <2>3. CASE Unlock
    <3>1. owner' = NULL /\ NULL \notin Tasks
      BY <2>3, Domains DEF Unlock
    <3> QED BY <2>1, <2>2, <3>1 DEF Boosted
  <2>4. CASE ~Unlock
    <3>1. Looks'
      BY <1>1, <1>4, <2>4, LooksStep
    <3> QED BY <2>1, <2>2, <2>4, <3>1
  <2> QED BY <2>3, <2>4
<1>5. CASE ~raised
  <2>1. Agree /\ Before /\ Looks /\ Leading
    BY <1>2, <1>5 DEF BoostInv, Crashed
  <2>2. ASSUME Unlock, NEW t \in Tasks
        PROVE  pc[t] # "raise" /\ (pc[t] = "compare" => priority[t] <= base_priority[me])
    <3>1. AppCode /\ owner = me /\ me \in Tasks /\ state[me] = "RUNNING" /\ me = current_task
      BY <2>1, <2>2, Facts DEF Unlock, IsOwner, me
    <3>2. base_priority[me] = priority[me]
      BY <2>1, <3>1 DEF Agree, Lists
    <3> QED BY <2>1, <3>1, <3>2 DEF Before, Leading
  <2>3. Looks'
    BY <1>1, <2>1, <2>2, LooksStep
  <2>4. CASE ~raised'
    BY <1>1, <2>1, <2>3, <2>4, BeforeStep, LeadingStep
  <2>5. CASE raised'
    <3>1. Raise
      BY <1>5, <2>5 DEF Next, vars, mutexVars, TaskCreate, TaskYield, YieldAfter, TickEnter,
         TickReturn, TickPreempt, TickResume, LockCall, Cas, Own, BoostTest, Compare, GiveUp,
         GoOn, Block, Unlock
    <3> QED BY <2>1, <2>3, <2>5, <3>1, FirstBoost
  <2> QED BY <2>4, <2>5
<1> QED BY <1>2, <1>3, <1>4, <1>5 DEF BoostInv

\* A boost raises the owner above its own priority.
LEMMA NotLoweredStep ==
  ASSUME BoostIndInv, BoostInv', [Next]_vars
  PROVE  NotLowered'
<1> USE DEF schedVars, mutexVars, callVars, BoostIndInv
<1>0. /\ priority \in [AllTasks -> Priorities] /\ base_priority \in [AllTasks -> Priorities]
      /\ \A p \in Priorities : p \in Int
  BY DEF Types, TypeOK, Priorities
<1>1. CASE UNCHANGED <<priority, base_priority>>
  BY <1>1 DEF NotLowered
<1>2. ASSUME NEW t \in Tasks, NEW p \in BasePriorities, TaskCreate(t, p) PROVE NotLowered'
  <2>1. /\ priority' = [priority EXCEPT ![t] = p]
        /\ base_priority' = [base_priority EXCEPT ![t] = p]
    BY <1>2 DEF TaskCreate
  <2>2. \A u \in Tasks : /\ u # t => /\ priority'[u] = priority[u]
                                     /\ base_priority'[u] = base_priority[u]
                         /\ u = t => priority'[u] = p /\ base_priority'[u] = p
    BY <1>0, <2>1, Domains
  <2>3. p >= p
    BY KMutexAssumption
  <2> QED BY <2>2, <2>3 DEF NotLowered
<1>3. CASE Raise
  <2>1. Alive /\ UNCHANGED <<base_priority, owner>>
    BY <1>3 DEF Raise, Executes, AppCode, TaskCode
  <2>2. seen[me] = owner /\ owner # NULL
    BY <1>3, RaiseSees, Domains
  <2>3. UNCHANGED links /\ raised' /\ priority' = [priority EXCEPT ![owner] = priority[me]]
    BY <1>3, <2>2 DEF Raise, Reread, Inherited
  <2>4. Boosted'
    BY <2>1, <2>2, <2>3 DEF BoostInv, Alive, Doomed
  <2>5. owner \in Tasks /\ base_priority'[owner] < priority'[owner]
    BY <2>1, <2>4 DEF Boosted
  <2>6. base_priority'[owner] \in Int /\ priority'[owner] \in Int
    <3>1. priority'[owner] = priority[me] /\ me \in AllTasks
      BY <1>0, <2>3, <2>5, Domains DEF Types, TypeOK, me
    <3> QED BY <1>0, <2>1, <2>5, <3>1, Domains
  <2>7. \A u \in Tasks : u # owner => priority'[u] = priority[u]
    BY <1>0, <2>3, Domains
  <2> QED BY <2>1, <2>5, <2>6, <2>7 DEF NotLowered
<1>4. CASE Unlock
  <2>1. \A t \in Tasks : priority'[t] = base_priority[t] \/ priority'[t] = priority[t]
    BY <1>4, Domains DEF Unlock, PrioritiesRestored
  <2>2. UNCHANGED base_priority /\ \A t \in Tasks : base_priority[t] >= base_priority[t]
    BY <1>0, <1>4, Domains DEF Unlock
  <2> QED BY <2>1, <2>2 DEF NotLowered
<1>5. CASE UNCHANGED vars
  BY <1>1, <1>5 DEF vars
<1>6. CASE TaskYield \/ YieldAfter \/ TickEnter \/ TickReturn \/ TickPreempt \/ TickResume
  BY <1>1, <1>6 DEF TaskYield, YieldAfter, TickEnter, TickReturn, TickPreempt, TickResume
<1>7. CASE \/ \E ms \in LockTimeouts : LockCall(ms)
           \/ Cas \/ Own \/ BoostTest \/ Compare \/ GiveUp \/ GoOn \/ Block
  BY <1>1, <1>7 DEF LockCall, Cas, Own, BoostTest, Compare, GiveUp, GoOn, Block
<1> QED BY <1>2, <1>3, <1>4, <1>5, <1>6, <1>7 DEF Next

\* The invariant holds initially.
LEMMA BoostInit == Init => BoostIndInv
<1> SUFFICES ASSUME Init PROVE BoostIndInv
  OBVIOUS
<1>1. Types /\ MutexInv /\ Agree /\ Before
  BY TypesInit, MutexInit, AgreeInit, BeforeInit
<1>2. OnlyOwnerBoosted /\ NotLowered /\ ~raised
  BY Domains DEF Init, OnlyOwnerBoosted, NotLowered
<1>3. Looks /\ Leading
  <2>1. \A t \in Tasks : pc[t] = "outside"
    BY DEF Init
  <2> QED BY <2>1 DEF Looks, Leading
<1> QED BY <1>1, <1>2, <1>3 DEF BoostIndInv, BoostInv

\* Every step keeps it.
LEMMA BoostNext == BoostIndInv /\ [Next]_vars => BoostIndInv'
<1> SUFFICES ASSUME BoostIndInv, [Next]_vars PROVE BoostIndInv'
  OBVIOUS
<1>1. BoostInv'
  BY BoostInvStep
<1>2. NotLowered'
  BY <1>1, NotLoweredStep
<1>3. Types' /\ MutexInv' /\ OnlyOwnerBoosted'
  BY TypesStep, MutexStep, BoostStep, RaiseSees DEF BoostIndInv
<1>4. (~raised => Agree \/ Crashed)'
  BY AgreeOrCrashed DEF BoostIndInv
<1> QED BY <1>1, <1>2, <1>3, <1>4 DEF BoostIndInv

\* No boost outlives the ownership it was given for, whatever the interleaving of the reads
\* and the store of the priority inheritance with an unlock, and whatever became of the run
\* queues.
THEOREM BoostsBelongToOwner == Spec => []OnlyOwnerBoosted
<1>1. BoostIndInv => OnlyOwnerBoosted
  BY DEF BoostIndInv
<1> QED BY BoostInit, BoostNext, <1>1, PTL DEF Spec

\* A priority is above the one the task was created with only while the task holds the mutex,
\* and never below it: the store of the priority inheritance always finds the owner that the
\* comparison found, although the two are not atomic.
THEOREM BoostsEndWithOwnership == Spec => []BoostEndsWithOwnership
<1>1. BoostIndInv => BoostEndsWithOwnership
  <2> SUFFICES ASSUME BoostIndInv, NEW t \in Tasks
               PROVE  /\ priority[t] >= base_priority[t]
                      /\ priority[t] > base_priority[t] => owner = t
    BY DEF BoostEndsWithOwnership
  <2>1. priority[t] >= base_priority[t]
    BY DEF BoostIndInv, NotLowered
  <2>2. priority[t] # base_priority[t] => owner = t
    BY DEF BoostIndInv, OnlyOwnerBoosted
  <2>3. priority[t] \in Int /\ base_priority[t] \in Int
    BY Domains DEF BoostIndInv, Types, TypeOK, Priorities
  <2> QED BY <2>1, <2>2, <2>3
<1> QED BY BoostInit, BoostNext, <1>1, PTL DEF Spec

\* The store of the priority inheritance goes to the owner that the comparison found lower,
\* for owners that neither sleep nor block inside the mutex.
THEOREM RaisesFindOwner == Spec => RaiseFindsOwner
<1>1. BoostIndInv => (Raise => seen[me] # NULL /\ owner = seen[me])
  BY RaiseSees, Domains
<1>2. BoostIndInv /\ [Next]_vars => [Raise => seen[me] # NULL /\ owner = seen[me]]_vars
  BY <1>1
<1> QED BY BoostInit, BoostNext, <1>2, PTL DEF Spec, RaiseFindsOwner

==============================================================================
