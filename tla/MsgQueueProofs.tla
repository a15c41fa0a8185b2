--------------------------- MODULE MsgQueueProofs ---------------------------
(***************************************************************************)
(* Proofs about MsgQueue for every finite set of tasks, every capacity and *)
(* every set of time-outs.                                                 *)
(***************************************************************************)
EXTENDS MsgQueue, FiniteSetTheorems, TLAPS

(***************************************************************************)
(* Lemmas about the operators of the model.                                *)
(***************************************************************************)

\* The index after i, without the modulus.
LEMMA AdvanceWraps ==
  ASSUME NEW i \in Slots
  PROVE  /\ Advance(i) = IF i + 1 = Capacity THEN 0 ELSE i + 1
         /\ Advance(i) \in Slots
<1>1. Capacity \in Nat \ {0} /\ i \in 0 .. Capacity - 1
  BY MsgQueueAssumption DEF Slots
<1>2. CASE i + 1 = Capacity
  <2>1. (i + 1) % Capacity = 0
    BY <1>1, <1>2, SMT
  <2> QED
    BY <1>1, <1>2, <2>1 DEF Advance, Slots
<1>3. CASE i + 1 # Capacity
  <2>1. (i + 1) % Capacity = i + 1
    BY <1>1, <1>3, SMT
  <2> QED
    BY <1>1, <1>3, <2>1 DEF Advance, Slots
<1> QED
  BY <1>2, <1>3

\* The number of tasks at location l of a call o.
N(l, o) == Cardinality(At(l, o))

Held == {"copy", "give"}
Ops  == {"send", "recv"}

\* 1 if the task t is at location l of a call o.
Is(t, l, o) == IF pc[t] = l /\ op[t] = o THEN 1 ELSE 0

\* A set that differs from another in t only.
LEMMA OneElementDiffers ==
  ASSUME NEW S, NEW T, NEW t, IsFiniteSet(S),
         \A u : u # t => (u \in T <=> u \in S)
  PROVE  /\ Cardinality(S) \in Nat
         /\ Cardinality(T) = Cardinality(S) + (IF t \in T THEN 1 ELSE 0)
                                            - (IF t \in S THEN 1 ELSE 0)
<1>1. Cardinality(S) \in Nat
  BY FS_CardinalityType
<1>2. CASE t \in T /\ t \notin S
  <2>1. T = S \cup {t}
    BY <1>2
  <2>2. Cardinality(T) = Cardinality(S) + 1
    BY <1>2, <2>1, FS_AddElement
  <2> QED
    BY <1>1, <1>2, <2>2
<1>3. CASE t \notin T /\ t \in S
  <2>1. T = S \ {t}
    BY <1>3
  <2>2. Cardinality(T) = Cardinality(S) - 1
    BY <1>3, <2>1, FS_RemoveElement
  <2> QED
    BY <1>1, <1>3, <2>2
<1>4. CASE t \in T <=> t \in S
  <2>1. T = S
    BY <1>4
  <2> QED
    BY <1>1, <1>4, <2>1
<1> QED
  BY <1>2, <1>3, <1>4

\* Only tasks at "copy" or "give" count, and a step moves one task to, from or
\* between these locations.
LEMMA OneTaskMoves ==
  ASSUME NEW t \in Tasks,
         \A u \in Tasks \ {t} :
           /\ op'[u] = op[u]
           /\ \A k \in Held : pc'[u] = k <=> pc[u] = k,
         NEW l \in Held, NEW o \in Ops
  PROVE  /\ N(l, o) \in Nat
         /\ N(l, o)' \in Nat
         /\ N(l, o)' = N(l, o) + Is(t, l, o)' - Is(t, l, o)
<1>1. \A u : u # t => (u \in At(l, o)' <=> u \in At(l, o))
  BY DEF At
<1>2. IsFiniteSet(At(l, o)) /\ IsFiniteSet(At(l, o)')
  BY MsgQueueAssumption, FS_Subset DEF At
<1>3. /\ Cardinality(At(l, o)) \in Nat
      /\ Cardinality(At(l, o)') \in Nat
      /\ Cardinality(At(l, o)') = Cardinality(At(l, o))
                                  + (IF t \in At(l, o)' THEN 1 ELSE 0)
                                  - (IF t \in At(l, o) THEN 1 ELSE 0)
  BY <1>1, <1>2, OneElementDiffers, FS_CardinalityType
<1>4. /\ (t \in At(l, o)') <=> (pc'[t] = l /\ op'[t] = o)
      /\ (t \in At(l, o)) <=> (pc[t] = l /\ op[t] = o)
  BY DEF At
<1> QED
  BY <1>3, <1>4 DEF N, Is

\* No other task enters or leaves these locations, or starts a call.
OnlyMoves(t) ==
  \A u \in Tasks \ {t} :
    /\ op'[u] = op[u]
    /\ \A k \in Held : pc'[u] = k <=> pc[u] = k

\* The types the balance is computed from.
Numbers ==
  /\ count \in Int
  /\ tokens["not_full"] \in Int
  /\ tokens["not_empty"] \in Int

\* How a step of one task changes the numbers of lost messages and slots.
LEMMA LossByMove ==
  ASSUME NEW t \in Tasks, OnlyMoves(t), Numbers, Numbers'
  PROVE  /\ LostItems \in Int /\ LostItems' \in Int
         /\ LostRoom \in Int /\ LostRoom' \in Int
         /\ LostItems' = LostItems + (count' - count)
              - (tokens["not_empty"]' - tokens["not_empty"])
              - (Is(t, "copy", "recv")' - Is(t, "copy", "recv"))
              - (Is(t, "give", "send")' - Is(t, "give", "send"))
         /\ LostRoom' = LostRoom - (count' - count)
              - (tokens["not_full"]' - tokens["not_full"])
              - (Is(t, "copy", "send")' - Is(t, "copy", "send"))
              - (Is(t, "give", "recv")' - Is(t, "give", "recv"))
<1>1. \A l \in Held, o \in Ops :
        /\ N(l, o) \in Nat
        /\ N(l, o)' \in Nat
        /\ N(l, o)' = N(l, o) + Is(t, l, o)' - Is(t, l, o)
  BY OneTaskMoves DEF OnlyMoves
<1>2. \A l, o : Is(t, l, o) \in Int /\ Is(t, l, o)' \in Int
  BY DEF Is
<1>3. Capacity \in Int
  BY MsgQueueAssumption
<1>4. /\ LostItems = count - (tokens["not_empty"] + N("copy", "recv") + N("give", "send"))
      /\ LostItems' = count' - (tokens["not_empty"]' + N("copy", "recv")'
                                + N("give", "send")')
      /\ LostRoom = (Capacity - count)
                      - (tokens["not_full"] + N("copy", "send") + N("give", "recv"))
      /\ LostRoom' = (Capacity - count')
                      - (tokens["not_full"]' + N("copy", "send")' + N("give", "recv")')
  BY DEF LostItems, LostRoom, N
<1> HIDE DEF LostItems, LostRoom, N, Is
<1>5. "copy" \in Held /\ "give" \in Held /\ "send" \in Ops /\ "recv" \in Ops
  BY DEF Held, Ops
<1>6. /\ N("copy", "recv") \in Int /\ N("copy", "recv")' \in Int
      /\ N("give", "send") \in Int /\ N("give", "send")' \in Int
      /\ N("copy", "recv")' - N("copy", "recv")
           = Is(t, "copy", "recv")' - Is(t, "copy", "recv")
      /\ N("give", "send")' - N("give", "send")
           = Is(t, "give", "send")' - Is(t, "give", "send")
  BY <1>1, <1>2, <1>5
<1>7. /\ N("copy", "send") \in Int /\ N("copy", "send")' \in Int
      /\ N("give", "recv") \in Int /\ N("give", "recv")' \in Int
      /\ N("copy", "send")' - N("copy", "send")
           = Is(t, "copy", "send")' - Is(t, "copy", "send")
      /\ N("give", "recv")' - N("give", "recv")
           = Is(t, "give", "recv")' - Is(t, "give", "recv")
  BY <1>1, <1>2, <1>5
<1>8. /\ LostItems \in Int /\ LostItems' \in Int
      /\ LostRoom \in Int /\ LostRoom' \in Int
  BY <1>3, <1>4, <1>6, <1>7 DEF Numbers
<1>9. LostItems' = LostItems + (count' - count)
              - (tokens["not_empty"]' - tokens["not_empty"])
              - (Is(t, "copy", "recv")' - Is(t, "copy", "recv"))
              - (Is(t, "give", "send")' - Is(t, "give", "send"))
  BY <1>2, <1>4, <1>6 DEF Numbers
<1>10. LostRoom' = LostRoom - (count' - count)
              - (tokens["not_full"]' - tokens["not_full"])
              - (Is(t, "copy", "send")' - Is(t, "copy", "send"))
              - (Is(t, "give", "recv")' - Is(t, "give", "recv"))
  BY <1>2, <1>3, <1>4, <1>7 DEF Numbers
<1> QED
  BY <1>8, <1>9, <1>10

\* What the balance says of a task that holds a token or has still to give one.
LEMMA BalanceBounds ==
  ASSUME TypeOK, TokenBalance
  PROVE  /\ \A t \in Tasks : pc[t] = "copy" /\ op[t] = "send" => count < Capacity
         /\ \A t \in Tasks : pc[t] = "copy" /\ op[t] = "recv" => count > 0
         /\ \A t \in Tasks : pc[t] = "give" =>
              tokens[GivenBy(op[t])] < Capacity
<1>1. \A l \in Held, o \in Ops : IsFiniteSet(At(l, o))
  BY MsgQueueAssumption, FS_Subset DEF At
<1>2. \A l \in Held, o \in Ops : N(l, o) \in Nat
  BY <1>1, FS_CardinalityType DEF N
<1>3. \A t \in Tasks, l \in Held, o \in Ops : pc[t] = l /\ op[t] = o => N(l, o) > 0
  <2> SUFFICES ASSUME NEW t \in Tasks, NEW l \in Held, NEW o \in Ops,
                      pc[t] = l, op[t] = o
               PROVE  N(l, o) > 0
    OBVIOUS
  <2>1. t \in At(l, o)
    BY DEF At
  <2>2. Cardinality(At(l, o)) # 0
    BY <1>1, <2>1, FS_EmptySet
  <2> QED
    BY <1>2, <2>2 DEF N
<1>4. /\ tokens["not_empty"] + N("copy", "recv") + N("give", "send") <= count
      /\ tokens["not_full"] + N("copy", "send") + N("give", "recv") <= Capacity - count
      /\ N("copy", "recv") \in Nat /\ N("give", "send") \in Nat
      /\ N("copy", "send") \in Nat /\ N("give", "recv") \in Nat
      /\ count \in 0 .. Capacity /\ Capacity \in Nat
      /\ tokens["not_full"] \in 0 .. Capacity /\ tokens["not_empty"] \in 0 .. Capacity
  <2>1. /\ N("copy", "recv") \in Nat /\ N("give", "send") \in Nat
        /\ N("copy", "send") \in Nat /\ N("give", "recv") \in Nat
    BY <1>2 DEF Held, Ops
  <2>2. /\ count \in 0 .. Capacity /\ Capacity \in Nat
        /\ tokens["not_full"] \in 0 .. Capacity /\ tokens["not_empty"] \in 0 .. Capacity
    BY MsgQueueAssumption DEF TypeOK, Sems
  <2>3. /\ count - (tokens["not_empty"] + N("copy", "recv") + N("give", "send")) >= 0
        /\ (Capacity - count)
              - (tokens["not_full"] + N("copy", "send") + N("give", "recv")) >= 0
    BY DEF TokenBalance, LostItems, LostRoom, N
  <2> QED
    BY <2>1, <2>2, <2>3
<1>5. \A t \in Tasks : op[t] \in Ops
  BY DEF TypeOK, Ops
<1> HIDE DEF N
<1>6. ASSUME NEW t \in Tasks, pc[t] = "copy", op[t] = "send" PROVE count < Capacity
  <2>1. N("copy", "send") > 0
    BY <1>3, <1>6 DEF Held, Ops
  <2> QED
    BY <1>4, <2>1
<1>7. ASSUME NEW t \in Tasks, pc[t] = "copy", op[t] = "recv" PROVE count > 0
  <2>1. N("copy", "recv") > 0
    BY <1>3, <1>7 DEF Held, Ops
  <2> QED
    BY <1>4, <2>1
<1>8. ASSUME NEW t \in Tasks, pc[t] = "give" PROVE tokens[GivenBy(op[t])] < Capacity
  <2>1. CASE op[t] = "send"
    <3>1. N("give", "send") > 0
      BY <1>3, <1>8, <2>1 DEF Held, Ops
    <3> QED
      BY <1>4, <2>1, <3>1 DEF GivenBy
  <2>2. CASE op[t] = "recv"
    <3>1. N("give", "recv") > 0
      BY <1>3, <1>8, <2>2 DEF Held, Ops
    <3> QED
      BY <1>4, <2>2, <3>1 DEF GivenBy
  <2> QED
    BY <1>5, <2>1, <2>2 DEF Ops
<1> QED
  BY <1>6, <1>7, <1>8

(***************************************************************************)
(* What each action does to the numbers of lost messages and slots.        *)
(***************************************************************************)

LossUnchanged == LostItems' = LostItems /\ LostRoom' = LostRoom

\* A step outside the sections that use or give a token.
LEMMA LossOfQuietStep ==
  ASSUME TypeOK, NEW t \in Tasks, OnlyMoves(t), UNCHANGED <<count, tokens>>,
         pc[t] \notin Held, pc'[t] \notin Held
  PROVE  LossUnchanged
<1>1. Numbers /\ Numbers'
  BY DEF Numbers, TypeOK, Sems
<1>2. \A l \in Held, o \in Ops : Is(t, l, o) = 0 /\ Is(t, l, o)' = 0
  BY DEF Is
<1> QED
  BY <1>1, <1>2, LossByMove DEF LossUnchanged, Numbers, Held, Ops

\* The other tasks stay where they are.
LEMMA GoToMovesOne ==
  ASSUME TypeOK, NEW t \in Tasks, NEW l, GoTo(t, l), UNCHANGED op
  PROVE  pc'[t] = l /\ op'[t] = op[t] /\ OnlyMoves(t)
BY DEF TypeOK, GoTo, OnlyMoves

LEMMA LossOfCall ==
  ASSUME TypeOK, NEW t \in Tasks, NEW o \in Ops, NEW m, NEW ms, Call(t, o, m, ms)
  PROVE  LossUnchanged
<1>1. pc'[t] = "load" /\ OnlyMoves(t)
  BY DEF TypeOK, Call, GoTo, OnlyMoves
<1> QED
  BY <1>1, LossOfQuietStep DEF Call, ringVars, semVars, Held

LEMMA LossOfTake ==
  ASSUME TypeOK, NEW t \in Tasks, Load(t) \/ GiveUp(t) \/ GoOn(t) \/ Block(t)
  PROVE  LossUnchanged
<1>1. CASE Load(t)
  <2>1. GoTo(t, "cas") /\ UNCHANGED <<op, count, tokens>> /\ pc[t] = "load"
    BY <1>1 DEF Load, ringVars, semVars, callVars
  <2> QED
    BY <2>1, GoToMovesOne, LossOfQuietStep DEF Held
<1>2. CASE GiveUp(t)
  <2>1. GoTo(t, "idle") /\ UNCHANGED <<op, count, tokens>> /\ pc[t] = "check"
    BY <1>2 DEF GiveUp, ringVars, semVars
  <2> QED
    BY <2>1, GoToMovesOne, LossOfQuietStep DEF Held
<1>3. CASE GoOn(t)
  <2>1. GoTo(t, "block") /\ UNCHANGED <<op, count, tokens>> /\ pc[t] = "check"
    BY <1>3 DEF GoOn, ringVars, semVars, callVars
  <2> QED
    BY <2>1, GoToMovesOne, LossOfQuietStep DEF Held
<1>4. CASE Block(t)
  <2>1. GoTo(t, "waiting") /\ UNCHANGED <<op, count, tokens>> /\ pc[t] = "block"
    BY <1>4 DEF Block, ringVars, callVars
  <2> QED
    BY <2>1, GoToMovesOne, LossOfQuietStep DEF Held
<1> QED
  BY <1>1, <1>2, <1>3, <1>4

LEMMA LossOfTick ==
  ASSUME TypeOK, Tick
  PROVE  LossUnchanged
BY DEF Tick, ringVars, semVars, callVars, LossUnchanged, LostItems, LostRoom, At

\* A token becomes the right to copy.
LEMMA LossOfCas ==
  ASSUME TypeOK, NEW t \in Tasks, Cas(t)
  PROVE  LossUnchanged
<1>1. UNCHANGED <<op, count>> /\ pc[t] = "cas"
  BY DEF Cas, ringVars
<1>2. CASE HasToken(t)
  <2>1. GoTo(t, "copy") /\ tokens' = [tokens EXCEPT ![TakenBy(op[t])] = seen[t] - 1]
    BY <1>2 DEF Cas
  <2>2. pc'[t] = "copy" /\ op'[t] = op[t] /\ OnlyMoves(t)
    BY <1>1, <2>1, GoToMovesOne
  <2>3. op[t] \in Ops
    BY DEF TypeOK, Ops
  <2>4. tokens[TakenBy(op[t])] = seen[t]
    BY <1>2 DEF HasToken
  <2>5. Numbers
    BY DEF Numbers, TypeOK, Sems
  <2>6. CASE op[t] = "send"
    <3>1. /\ tokens'["not_full"] = tokens["not_full"] - 1
          /\ tokens'["not_empty"] = tokens["not_empty"]
      BY <2>1, <2>4, <2>6 DEF TakenBy, TypeOK, Sems
    <3>2. Numbers'
      BY <1>1, <2>5, <3>1 DEF Numbers
    <3>3. /\ Is(t, "copy", "recv")' = 0 /\ Is(t, "copy", "recv") = 0
          /\ Is(t, "give", "send")' = 0 /\ Is(t, "give", "send") = 0
          /\ Is(t, "copy", "send")' = 1 /\ Is(t, "copy", "send") = 0
          /\ Is(t, "give", "recv")' = 0 /\ Is(t, "give", "recv") = 0
      BY <1>1, <2>2, <2>6 DEF Is
    <3> QED
      BY <1>1, <2>2, <2>5, <3>1, <3>2, <3>3, LossByMove DEF LossUnchanged, Numbers
  <2>7. CASE op[t] = "recv"
    <3>1. /\ tokens'["not_full"] = tokens["not_full"]
          /\ tokens'["not_empty"] = tokens["not_empty"] - 1
      BY <2>1, <2>4, <2>7 DEF TakenBy, TypeOK, Sems
    <3>2. Numbers'
      BY <1>1, <2>5, <3>1 DEF Numbers
    <3>3. /\ Is(t, "copy", "recv")' = 1 /\ Is(t, "copy", "recv") = 0
          /\ Is(t, "give", "send")' = 0 /\ Is(t, "give", "send") = 0
          /\ Is(t, "copy", "send")' = 0 /\ Is(t, "copy", "send") = 0
          /\ Is(t, "give", "recv")' = 0 /\ Is(t, "give", "recv") = 0
      BY <1>1, <2>2, <2>7 DEF Is
    <3> QED
      BY <1>1, <2>2, <2>5, <3>1, <3>2, <3>3, LossByMove DEF LossUnchanged, Numbers
  <2> QED
    BY <2>3, <2>6, <2>7 DEF Ops
<1>3. CASE ~HasToken(t)
  <2>1. GoTo(t, "check") /\ UNCHANGED tokens
    BY <1>3 DEF Cas
  <2> QED
    BY <1>1, <2>1, GoToMovesOne, LossOfQuietStep DEF Held
<1> QED
  BY <1>2, <1>3

\* The message takes the place of the right to write it; the slot it frees that
\* of the right to read it.
LEMMA LossOfCopy ==
  ASSUME TypeOK, NEW t \in Tasks, Write(t) \/ Read(t)
  PROVE  LossUnchanged
<1>1. Numbers
  BY DEF Numbers, TypeOK, Sems
<1>2. CASE Write(t)
  <2>1. /\ GoTo(t, "give") /\ UNCHANGED <<op, tokens>>
        /\ pc[t] = "copy" /\ op[t] = "send" /\ count' = count + 1
    BY <1>2 DEF Write, semVars, callVars
  <2>2. pc'[t] = "give" /\ op'[t] = op[t] /\ OnlyMoves(t)
    BY <2>1, GoToMovesOne
  <2>3. Numbers'
    BY <1>1, <2>1 DEF Numbers
  <2>4. /\ Is(t, "copy", "recv")' = 0 /\ Is(t, "copy", "recv") = 0
        /\ Is(t, "give", "send")' = 1 /\ Is(t, "give", "send") = 0
        /\ Is(t, "copy", "send")' = 0 /\ Is(t, "copy", "send") = 1
        /\ Is(t, "give", "recv")' = 0 /\ Is(t, "give", "recv") = 0
    BY <2>1, <2>2 DEF Is
  <2>5. /\ count' - count = 1
        /\ tokens["not_empty"]' - tokens["not_empty"] = 0
        /\ tokens["not_full"]' - tokens["not_full"] = 0
    BY <1>1, <2>1 DEF Numbers
  <2>6. /\ LostItems \in Int /\ LostRoom \in Int
        /\ LostItems' = LostItems + (1) - 0 - (0 - 0) - (1 - 0)
        /\ LostRoom' = LostRoom - (1) - 0 - (0 - 1) - (0 - 0)
    BY <1>1, <2>2, <2>3, <2>4, <2>5, LossByMove
  <2> QED
    BY <2>6 DEF LossUnchanged
<1>3. CASE Read(t)
  <2>1. /\ GoTo(t, "give") /\ UNCHANGED <<op, tokens>>
        /\ pc[t] = "copy" /\ op[t] = "recv" /\ count' = count - 1
    BY <1>3 DEF Read, semVars, callVars
  <2>2. pc'[t] = "give" /\ op'[t] = op[t] /\ OnlyMoves(t)
    BY <2>1, GoToMovesOne
  <2>3. Numbers'
    BY <1>1, <2>1 DEF Numbers
  <2>4. /\ Is(t, "copy", "recv")' = 0 /\ Is(t, "copy", "recv") = 1
        /\ Is(t, "give", "send")' = 0 /\ Is(t, "give", "send") = 0
        /\ Is(t, "copy", "send")' = 0 /\ Is(t, "copy", "send") = 0
        /\ Is(t, "give", "recv")' = 1 /\ Is(t, "give", "recv") = 0
    BY <2>1, <2>2 DEF Is
  <2>5. /\ count' - count = -1
        /\ tokens["not_empty"]' - tokens["not_empty"] = 0
        /\ tokens["not_full"]' - tokens["not_full"] = 0
    BY <1>1, <2>1 DEF Numbers
  <2>6. /\ LostItems \in Int /\ LostRoom \in Int
        /\ LostItems' = LostItems + (-1) - 0 - (0 - 1) - (0 - 0)
        /\ LostRoom' = LostRoom - (-1) - 0 - (0 - 0) - (1 - 0)
    BY <1>1, <2>2, <2>3, <2>4, <2>5, LossByMove
  <2> QED
    BY <2>6 DEF LossUnchanged
<1> QED
  BY <1>2, <1>3

\* A released task was blocked.
LEMMA ReleasedWaited ==
  ASSUME TypeOK, WaitersConsistent, NEW s \in Sems, NEW u \in Released(s)
  PROVE  /\ u \in Tasks /\ pc[u] = "waiting" /\ TakenBy(op[u]) = s
         /\ waiters[s] # <<>> /\ u = waiters[s][1]
<1>1. waiters[s] \in Seq(Tasks) /\ waiters[s] # <<>> /\ u = Head(waiters[s])
  BY DEF TypeOK, Released
<1>2. 1 \in 1 .. Len(waiters[s]) /\ u = waiters[s][1]
  BY <1>1
<1> QED
  BY <1>1, <1>2 DEF WaitersConsistent, Released

LEMMA GiveMovesOne ==
  ASSUME TypeOK, WaitersConsistent, NEW t \in Tasks, Give(t)
  PROVE  pc'[t] = "idle" /\ op' = op /\ OnlyMoves(t)
<1>1. op[t] \in Ops /\ GivenBy(op[t]) \in Sems
  BY DEF TypeOK, Ops, GivenBy, Sems
<1>2. \A u \in Released(GivenBy(op[t])) : pc[u] = "waiting"
  BY <1>1, ReleasedWaited
<1>3. /\ op' = op
      /\ pc' = [u \in Tasks |-> IF u = t THEN "idle"
                              ELSE IF u \in Released(GivenBy(op[t])) THEN "load"
                              ELSE pc[u]]
  BY DEF Give, callVars
<1> QED
  BY <1>2, <1>3 DEF OnlyMoves, Held

\* k_sem_give passes its token on, except to a task that it releases.
LEMMA LossOfGive ==
  ASSUME TypeOK, TokenBalance, WaitersConsistent, NEW t \in Tasks, Give(t)
  PROVE  /\ LossUnchanged \/ waiters[GivenBy(op[t])] # <<>>
         /\ LostItems \in Int /\ LostItems' \in Int /\ LostItems' >= LostItems
         /\ LostRoom \in Int /\ LostRoom' \in Int /\ LostRoom' >= LostRoom
<1> DEFINE s == GivenBy(op[t])
<1>1. /\ pc'[t] = "idle" /\ op' = op /\ OnlyMoves(t)
      /\ pc[t] = "give" /\ count' = count /\ SemGive(s)
  BY GiveMovesOne DEF Give, ringVars
<1>2. op[t] \in Ops /\ s \in Sems
  BY DEF TypeOK, Ops, GivenBy, Sems
<1>3. Numbers /\ tokens \in [Sems -> Int]
  BY DEF Numbers, TypeOK, Sems
<1>4. tokens[s] < Capacity
  BY <1>1, BalanceBounds
<1>5. \/ waiters[s] # <<>> /\ tokens' = tokens
      \/ waiters[s] = <<>> /\ tokens' = [tokens EXCEPT ![s] = @ + 1]
  BY <1>1, <1>4 DEF SemGive
<1>6. Numbers'
  <2>1. tokens' \in [Sems -> Int]
    BY <1>3, <1>5
  <2> QED
    BY <1>1, <1>3, <2>1 DEF Numbers, Sems
<1>7. CASE op[t] = "send"
  <2>1. s = "not_empty"
    BY <1>7 DEF GivenBy
  <2>2. /\ Is(t, "copy", "recv")' - Is(t, "copy", "recv") = 0
        /\ Is(t, "give", "send")' - Is(t, "give", "send") = -1
        /\ Is(t, "copy", "send")' - Is(t, "copy", "send") = 0
        /\ Is(t, "give", "recv")' - Is(t, "give", "recv") = 0
    BY <1>1, <1>7 DEF Is
  <2>3. count' - count = 0 /\ tokens["not_full"]' - tokens["not_full"] = 0
    BY <1>1, <1>3, <1>5, <2>1 DEF Numbers, Sems
  <2>4. /\ LostItems \in Int /\ LostItems' \in Int
        /\ LostRoom \in Int /\ LostRoom' \in Int
        /\ LostItems' = LostItems + 0
              - (tokens["not_empty"]' - tokens["not_empty"]) - 0 - (-1)
        /\ LostRoom' = LostRoom - 0 - 0 - 0 - 0
    BY <1>1, <1>3, <1>6, <2>2, <2>3, LossByMove
  <2>5. CASE waiters[s] # <<>>
    <3>1. tokens["not_empty"]' - tokens["not_empty"] = 0
      BY <1>3, <1>5, <2>5 DEF Numbers
    <3> QED
      BY <2>4, <2>5, <3>1
  <2>6. CASE waiters[s] = <<>>
    <3>1. tokens["not_empty"]' - tokens["not_empty"] = 1
      BY <1>3, <1>5, <2>1, <2>6 DEF Numbers, Sems
    <3> QED
      BY <2>4, <3>1 DEF LossUnchanged
  <2> QED
    BY <2>5, <2>6
<1>8. CASE op[t] = "recv"
  <2>1. s = "not_full"
    BY <1>8 DEF GivenBy
  <2>2. /\ Is(t, "copy", "recv")' - Is(t, "copy", "recv") = 0
        /\ Is(t, "give", "send")' - Is(t, "give", "send") = 0
        /\ Is(t, "copy", "send")' - Is(t, "copy", "send") = 0
        /\ Is(t, "give", "recv")' - Is(t, "give", "recv") = -1
    BY <1>1, <1>8 DEF Is
  <2>3. count' - count = 0 /\ tokens["not_empty"]' - tokens["not_empty"] = 0
    BY <1>1, <1>3, <1>5, <2>1 DEF Numbers, Sems
  <2>4. /\ LostItems \in Int /\ LostItems' \in Int
        /\ LostRoom \in Int /\ LostRoom' \in Int
        /\ LostItems' = LostItems + 0 - 0 - 0 - 0
        /\ LostRoom' = LostRoom - 0
              - (tokens["not_full"]' - tokens["not_full"]) - 0 - (-1)
    BY <1>1, <1>3, <1>6, <2>2, <2>3, LossByMove
  <2>5. CASE waiters[s] # <<>>
    <3>1. tokens["not_full"]' - tokens["not_full"] = 0
      BY <1>3, <1>5, <2>5 DEF Numbers
    <3> QED
      BY <2>4, <2>5, <3>1
  <2>6. CASE waiters[s] = <<>>
    <3>1. tokens["not_full"]' - tokens["not_full"] = 1
      BY <1>3, <1>5, <2>1, <2>6 DEF Numbers, Sems
    <3> QED
      BY <2>4, <3>1 DEF LossUnchanged
  <2> QED
    BY <2>5, <2>6
<1> QED
  BY <1>2, <1>7, <1>8 DEF Ops

\* Every step keeps the balance.
LEMMA BalanceStep ==
  ASSUME IndInv, [Next]_msgqVars
  PROVE  TokenBalance'
<1> USE DEF IndInv
<1>1. LossUnchanged \/ (\E t \in Tasks : Give(t))
  <2>1. CASE Next
    <3>1. \A t \in Tasks, m \in Messages, ms \in SendTimeouts :
            Call(t, "send", m, ms) => LossUnchanged
      BY LossOfCall DEF Ops
    <3>2. \A t \in Tasks, ms \in RecvTimeouts : Call(t, "recv", NoItem, ms) => LossUnchanged
      BY LossOfCall DEF Ops
    <3>3. \A t \in Tasks : Step(t) => LossUnchanged \/ Give(t)
      BY LossOfTake, LossOfCas, LossOfCopy DEF Step
    <3> QED
      BY <2>1, <3>1, <3>2, <3>3, LossOfTick DEF Next
  <2>2. CASE UNCHANGED msgqVars
    BY <2>2 DEF msgqVars, LossUnchanged, LostItems, LostRoom, At
  <2> QED
    BY <2>1, <2>2
<1>2. CASE LossUnchanged
  BY <1>2 DEF LossUnchanged, TokenBalance
<1>3. CASE \E t \in Tasks : Give(t)
  <2>1. /\ LostItems \in Int /\ LostItems' \in Int /\ LostItems' >= LostItems
        /\ LostRoom \in Int /\ LostRoom' \in Int /\ LostRoom' >= LostRoom
    BY <1>3, LossOfGive
  <2> QED
    BY <2>1 DEF TokenBalance
<1> QED
  BY <1>1, <1>2, <1>3

(***************************************************************************)
(* The ring indices.                                                       *)
(***************************************************************************)
LEMMA RingStep ==
  ASSUME IndInv, [Next]_msgqVars
  PROVE  RingConsistent'
<1> USE DEF IndInv
<1>1. /\ Capacity \in Nat \ {0}
      /\ head \in 0 .. Capacity - 1 /\ tail \in 0 .. Capacity - 1
      /\ count \in 0 .. Capacity
      /\ tail = IF head + count < Capacity THEN head + count ELSE head + count - Capacity
  BY MsgQueueAssumption DEF TypeOK, Slots, RingConsistent
<1>2. CASE UNCHANGED <<head, tail, count>>
  BY <1>1, <1>2 DEF RingConsistent
<1>3. ASSUME NEW t \in Tasks, Write(t) PROVE RingConsistent'
  <2>1. count < Capacity
    BY <1>3, BalanceBounds DEF Write
  <2>2. tail' = IF tail + 1 = Capacity THEN 0 ELSE tail + 1
    BY <1>3, AdvanceWraps DEF Write, TypeOK
  <2>3. head' = head /\ count' = count + 1
    BY <1>3 DEF Write
  <2> QED
    BY <1>1, <2>1, <2>2, <2>3 DEF RingConsistent
<1>4. ASSUME NEW t \in Tasks, Read(t) PROVE RingConsistent'
  <2>1. count > 0
    BY <1>4, BalanceBounds DEF Read
  <2>2. head' = IF head + 1 = Capacity THEN 0 ELSE head + 1
    BY <1>4, AdvanceWraps DEF Read, TypeOK
  <2>3. tail' = tail /\ count' = count - 1
    BY <1>4 DEF Read
  <2> QED
    BY <1>1, <2>1, <2>2, <2>3 DEF RingConsistent
<1>5. ASSUME NEW t \in Tasks, Step(t), ~Write(t), ~Read(t)
      PROVE  UNCHANGED <<head, tail, count>>
  BY <1>5 DEF Step, Load, Cas, GiveUp, GoOn, Block, Give, ringVars
<1>6. Next => RingConsistent' \/ UNCHANGED <<head, tail, count>>
  BY <1>3, <1>4, <1>5 DEF Next, Call, Tick, ringVars
<1> QED
  BY <1>2, <1>6 DEF msgqVars

(***************************************************************************)
(* The wait lists.                                                         *)
(***************************************************************************)

\* WaitersConsistent, for one semaphore.
WaitersOf(s) ==
  /\ \A i, j \in 1 .. Len(waiters[s]) : waiters[s][i] = waiters[s][j] => i = j
  /\ \A t \in Tasks : (\E i \in 1 .. Len(waiters[s]) : waiters[s][i] = t)
                         <=> (pc[t] = "waiting" /\ TakenBy(op[t]) = s)

LEMMA WaitersSplit ==
  /\ WaitersConsistent <=> \A s \in Sems : WaitersOf(s)
  /\ WaitersConsistent' <=> \A s \in Sems : WaitersOf(s)'
BY DEF WaitersConsistent, WaitersOf

\* No task begins or ends a wait.
SameWaiters ==
  \A u \in Tasks : /\ (pc'[u] = "waiting") = (pc[u] = "waiting")
                   /\ pc[u] = "waiting" => op'[u] = op[u]

LEMMA WaitersQuiet ==
  ASSUME WaitersConsistent, UNCHANGED waiters, SameWaiters
  PROVE  WaitersConsistent'
BY DEF WaitersConsistent, TakenBy, SameWaiters

LEMMA WaitersBlock ==
  ASSUME TypeOK, WaitersConsistent, NEW t \in Tasks, Block(t)
  PROVE  WaitersConsistent'
<1> DEFINE s == TakenBy(op[t])
           q == waiters[s]
           q2 == waiters'[s]
<1>1. s \in Sems /\ q \in Seq(Tasks)
  BY DEF TypeOK, Sems, TakenBy
<1>2. waiters' = [waiters EXCEPT ![s] = Append(q, t)] /\ op' = op /\ pc[t] = "block"
  BY DEF Block, EnqueueWaiter, callVars
<1>3. \A u \in Tasks : pc'[u] = IF u = t THEN "waiting" ELSE pc[u]
  BY DEF Block, GoTo, TypeOK
<1>4. q2 = Append(q, t) /\ \A r \in Sems : r # s => waiters'[r] = waiters[r]
  BY <1>1, <1>2 DEF TypeOK
<1>5. /\ Len(q) \in Nat
      /\ Len(q2) = Len(q) + 1
      /\ \A i \in 1 .. Len(q) : q2[i] = q[i]
      /\ q2[Len(q) + 1] = t
  BY <1>1, <1>4
<1>6. /\ \A i, j \in 1 .. Len(q) : q[i] = q[j] => i = j
      /\ \A u \in Tasks : (\E i \in 1 .. Len(q) : q[i] = u)
                             <=> (pc[u] = "waiting" /\ TakenBy(op[u]) = s)
  BY <1>1 DEF WaitersConsistent
<1>7. \A i \in 1 .. Len(q) : q[i] # t
  BY <1>2, <1>6
<1>8. \A r \in Sems : r # s =>
        /\ \A i, j \in 1 .. Len(waiters[r]) : waiters[r][i] = waiters[r][j] => i = j
        /\ \A u \in Tasks : (\E i \in 1 .. Len(waiters[r]) : waiters[r][i] = u)
                               <=> (pc[u] = "waiting" /\ TakenBy(op[u]) = r)
  BY DEF WaitersConsistent
<1> HIDE DEF q, q2
<1>9. \A i, j \in 1 .. Len(q2) : q2[i] = q2[j] => i = j
  BY <1>5, <1>6, <1>7
<1>10. ASSUME NEW u \in Tasks
       PROVE  (\E i \in 1 .. Len(q2) : q2[i] = u) <=> (u = t \/ \E i \in 1 .. Len(q) : q[i] = u)
  <2>1. ASSUME NEW i \in 1 .. Len(q2), q2[i] = u
        PROVE  u = t \/ \E j \in 1 .. Len(q) : q[j] = u
    BY <1>5, <2>1
  <2>2. CASE u = t
    <3>1. Len(q) + 1 \in 1 .. Len(q2)
      BY <1>5
    <3> QED
      BY <1>5, <2>2, <3>1
  <2>3. ASSUME NEW i \in 1 .. Len(q), q[i] = u PROVE \E j \in 1 .. Len(q2) : q2[j] = u
    <3>1. i \in 1 .. Len(q2) /\ q2[i] = u
      BY <1>5, <2>3
    <3> QED
      BY <3>1
  <2> QED
    BY <2>1, <2>2, <2>3
<1>11. \A u \in Tasks : (\E i \in 1 .. Len(q2) : q2[i] = u)
                             <=> (pc'[u] = "waiting" /\ TakenBy(op'[u]) = s)
  BY <1>2, <1>3, <1>6, <1>10
<1>12. \A r \in Sems : r # s =>
         \A u \in Tasks : (\E i \in 1 .. Len(waiters[r]) : waiters[r][i] = u)
                             <=> (pc'[u] = "waiting" /\ TakenBy(op'[u]) = r)
  BY <1>2, <1>3, <1>8
<1>13. ASSUME NEW r \in Sems PROVE WaitersOf(r)'
  <2>1. CASE r = s
    BY <1>9, <1>11, <2>1 DEF q2, WaitersOf
  <2>2. CASE r # s
    BY <1>4, <1>8, <1>12, <2>2 DEF WaitersOf
  <2> QED
    BY <2>1, <2>2
<1> QED
  BY <1>13, WaitersSplit

LEMMA WaitersGive ==
  ASSUME TypeOK, WaitersConsistent, NEW t \in Tasks, Give(t)
  PROVE  WaitersConsistent'
<1> DEFINE s == GivenBy(op[t])
           q == waiters[s]
           q2 == waiters'[s]
<1>1. s \in Sems /\ q \in Seq(Tasks) /\ pc[t] = "give" /\ op' = op /\ SemGive(s)
  BY DEF TypeOK, Sems, GivenBy, Give, callVars
<1>2. \A u \in Tasks : pc'[u] = IF u = t THEN "idle"
                                ELSE IF u \in Released(s) THEN "load" ELSE pc[u]
  BY DEF Give
<1>3. CASE waiters[s] = <<>>
  <2>1. UNCHANGED waiters /\ Released(s) = {}
    BY <1>1, <1>3 DEF SemGive, Released
  <2>2. SameWaiters
    BY <1>1, <1>2, <2>1 DEF SameWaiters
  <2> QED
    BY <2>1, <2>2, WaitersQuiet
<1>4. CASE waiters[s] # <<>>
  <2>1. waiters' = [waiters EXCEPT ![s] = Tail(q)]
    BY <1>1, <1>4 DEF SemGive
  <2>2. q2 = Tail(q) /\ \A r \in Sems : r # s => waiters'[r] = waiters[r]
    BY <1>1, <2>1 DEF TypeOK
  <2>3. /\ Len(q) \in Nat /\ Len(q) > 0
        /\ Len(q2) = Len(q) - 1
        /\ \A i \in 1 .. Len(q2) : q2[i] = q[i + 1]
        /\ Head(q) = q[1]
    BY <1>1, <1>4, <2>2
  <2>4. /\ \A i, j \in 1 .. Len(q) : q[i] = q[j] => i = j
        /\ \A u \in Tasks : (\E i \in 1 .. Len(q) : q[i] = u)
                               <=> (pc[u] = "waiting" /\ TakenBy(op[u]) = s)
    BY <1>1 DEF WaitersConsistent
  <2>5. \A u \in Tasks : u \in Released(s) <=> u = q[1]
    BY <1>4, <2>3 DEF Released
  <2>6. \A r \in Sems : r # s =>
        /\ \A i, j \in 1 .. Len(waiters[r]) : waiters[r][i] = waiters[r][j] => i = j
        /\ \A u \in Tasks : (\E i \in 1 .. Len(waiters[r]) : waiters[r][i] = u)
                               <=> (pc[u] = "waiting" /\ TakenBy(op[u]) = r)
    BY DEF WaitersConsistent
  <2>7. q[1] \in Tasks /\ pc[q[1]] = "waiting" /\ TakenBy(op[q[1]]) = s
    <3>1. 1 \in 1 .. Len(q)
      BY <2>3
    <3>2. q[1] \in Tasks
      BY <1>1, <3>1
    <3> QED
      BY <2>4, <3>1, <3>2
  <2> HIDE DEF q, q2
  <2>8. \A i, j \in 1 .. Len(q2) : q2[i] = q2[j] => i = j
    <3> SUFFICES ASSUME NEW i \in 1 .. Len(q2), NEW j \in 1 .. Len(q2), q2[i] = q2[j]
                 PROVE  i = j
      OBVIOUS
    <3>1. i + 1 \in 1 .. Len(q) /\ j + 1 \in 1 .. Len(q) /\ q[i + 1] = q[j + 1]
      BY <2>3
    <3>2. i + 1 = j + 1
      BY <2>4, <3>1
    <3> QED
      BY <2>3, <3>2
  <2>9. ASSUME NEW u \in Tasks
        PROVE  (\E i \in 1 .. Len(q2) : q2[i] = u)
                 <=> (u # q[1] /\ \E i \in 1 .. Len(q) : q[i] = u)
    <3>1. ASSUME NEW i \in 1 .. Len(q2), q2[i] = u
          PROVE  u # q[1] /\ \E j \in 1 .. Len(q) : q[j] = u
      <4>1. i + 1 \in 1 .. Len(q) /\ q[i + 1] = u /\ 1 \in 1 .. Len(q) /\ i + 1 # 1
        BY <2>3, <3>1
      <4> QED
        BY <2>4, <4>1
    <3>2. ASSUME NEW i \in 1 .. Len(q), q[i] = u, u # q[1]
          PROVE  \E j \in 1 .. Len(q2) : q2[j] = u
      <4>1. i # 1
        BY <3>2
      <4>2. i - 1 \in 1 .. Len(q2) /\ (i - 1) + 1 = i
        BY <2>3, <4>1
      <4>3. q2[i - 1] = u
        BY <2>3, <3>2, <4>2
      <4> QED
        BY <4>2, <4>3
    <3> QED
      BY <3>1, <3>2
  <2>10. \A u \in Tasks : pc'[u] = "waiting" <=> (pc[u] = "waiting" /\ u # q[1])
    BY <1>1, <1>2, <2>5
  <2>11. \A u \in Tasks : (\E i \in 1 .. Len(q2) : q2[i] = u)
                              <=> (pc'[u] = "waiting" /\ TakenBy(op'[u]) = s)
    BY <1>1, <2>4, <2>9, <2>10
  <2>12. \A r \in Sems : r # s =>
           \A u \in Tasks : (\E i \in 1 .. Len(waiters[r]) : waiters[r][i] = u)
                              <=> (pc'[u] = "waiting" /\ TakenBy(op'[u]) = r)
    BY <1>1, <2>6, <2>7, <2>10
  <2>13. ASSUME NEW r \in Sems PROVE WaitersOf(r)'
    <3>1. CASE r = s
      BY <2>8, <2>11, <3>1 DEF q2, WaitersOf
    <3>2. CASE r # s
      BY <2>2, <2>6, <2>12, <3>2 DEF WaitersOf
    <3> QED
      BY <3>1, <3>2
  <2> QED
    BY <2>13, WaitersSplit
<1> QED
  BY <1>3, <1>4

LEMMA WaitersCall ==
  ASSUME TypeOK, WaitersConsistent,
         NEW t \in Tasks, NEW o, NEW m, NEW ms, Call(t, o, m, ms)
  PROVE  WaitersConsistent'
<1>1. UNCHANGED waiters /\ pc[t] = "idle"
  BY DEF Call, semVars
<1>2. \A u \in Tasks : pc'[u] = IF u = t THEN "load" ELSE pc[u]
  BY DEF Call, GoTo, TypeOK
<1>3. \A u \in Tasks : u # t => op'[u] = op[u]
  BY DEF Call, TypeOK
<1>4. SameWaiters
  BY <1>1, <1>2, <1>3 DEF SameWaiters
<1> QED
  BY <1>1, <1>4, WaitersQuiet

LEMMA WaitersStep ==
  ASSUME IndInv, [Next]_msgqVars
  PROVE  WaitersConsistent'
<1> USE DEF IndInv
<1>1. ASSUME NEW t \in Tasks, Step(t), ~Block(t), ~Give(t)
      PROVE  WaitersConsistent'
  <2>1. /\ UNCHANGED <<waiters, op>>
        /\ pc[t] # "waiting"
        /\ \E l \in Locations \ {"waiting"} : GoTo(t, l)
    BY <1>1 DEF Step, Load, Cas, GiveUp, GoOn, Write, Read, semVars, callVars, Locations
  <2>2. SameWaiters
    BY <2>1 DEF GoTo, TypeOK, SameWaiters
  <2> QED
    BY <2>1, <2>2, WaitersQuiet
<1>2. ASSUME UNCHANGED <<waiters, op, pc>> PROVE WaitersConsistent'
  BY <1>2 DEF WaitersConsistent
<1>3. Tick => UNCHANGED <<waiters, op, pc>>
  BY DEF Tick, semVars, callVars
<1>4. ASSUME Next PROVE WaitersConsistent'
  BY <1>1, <1>2, <1>3, <1>4, WaitersCall, WaitersBlock, WaitersGive DEF Next
<1> QED
  BY <1>2, <1>4 DEF msgqVars

(***************************************************************************)
(* Types.                                                                  *)
(***************************************************************************)
LEMMA TypeCall ==
  ASSUME TypeOK, NEW t \in Tasks, NEW o \in Ops, NEW m \in Messages \cup {NoItem},
         NEW ms \in Timeouts, Call(t, o, m, ms)
  PROVE  TypeOK'
<1>1. 0 \in Timeouts
  BY MsgQueueAssumption DEF Timeouts
<1>2. /\ pc' \in [Tasks -> Locations]
      /\ op' \in [Tasks -> {"send", "recv"}]
      /\ rc' \in [Tasks -> {"K_OK", "K_ERR_BUSY", "K_ERR_TIMEOUT"}]
  BY DEF TypeOK, Call, GoTo, Locations, Ops
<1>3. /\ item' \in [Tasks -> Messages \cup {NoItem}]
      /\ tms' \in [Tasks -> Timeouts]
      /\ left' \in [Tasks -> Timeouts]
  BY <1>1 DEF TypeOK, Call
<1> QED
  BY <1>2, <1>3 DEF TypeOK, Call, ringVars, semVars

LEMMA TypeTake ==
  ASSUME TypeOK, NEW t \in Tasks,
         Load(t) \/ Cas(t) \/ GiveUp(t) \/ GoOn(t) \/ Block(t)
  PROVE  TypeOK'
<1>1. /\ K_NO_WAIT \in Timeouts /\ 0 \in Timeouts
      /\ TakenBy(op[t]) \in Sems
      /\ Capacity \in Nat
  BY MsgQueueAssumption DEF Timeouts, K_NO_WAIT, TakenBy, Sems, TypeOK
<1>2. CASE Load(t)
  <2>1. seen' \in [Tasks -> 0 .. Capacity] /\ pc' \in [Tasks -> Locations]
    BY <1>1, <1>2 DEF TypeOK, Load, GoTo, Locations
  <2> QED
    BY <1>2, <2>1 DEF TypeOK, Load, ringVars, semVars, callVars
<1>3. CASE Cas(t)
  <2>1. seen' \in [Tasks -> 0 .. Capacity]
    <3>1. 0 \in 0 .. Capacity
      BY <1>1
    <3> QED
      BY <1>3, <3>1 DEF TypeOK, Cas
  <2>4. pc' \in [Tasks -> Locations]
    <3>1. \E l \in Locations : GoTo(t, l)
      BY <1>3 DEF Cas, Locations
    <3> QED
      BY <3>1 DEF TypeOK, GoTo
  <2>2. tms' \in [Tasks -> Timeouts] /\ left' \in [Tasks -> Timeouts]
    BY <1>1, <1>3 DEF TypeOK, Cas, EndTake
  <2>3. tokens' \in [Sems -> 0 .. Capacity]
    <3>1. CASE HasToken(t)
      <4>1. seen[t] - 1 \in 0 .. Capacity
        BY <1>1, <3>1 DEF HasToken, TypeOK
      <4> QED
        BY <1>1, <1>3, <3>1, <4>1 DEF TypeOK, Cas
    <3>2. CASE ~HasToken(t)
      BY <1>3, <3>2 DEF TypeOK, Cas
    <3> QED
      BY <3>1, <3>2
  <2> QED
    BY <1>3, <2>1, <2>2, <2>3, <2>4 DEF TypeOK, Cas, ringVars
<1>4. CASE GiveUp(t)
  <2>1. /\ tms' \in [Tasks -> Timeouts] /\ left' \in [Tasks -> Timeouts]
        /\ pc' \in [Tasks -> Locations]
    BY <1>1, <1>4 DEF TypeOK, GiveUp, EndTake, GoTo, Locations
  <2>2. /\ item' \in [Tasks -> Messages \cup {NoItem}]
        /\ rc' \in [Tasks -> {"K_OK", "K_ERR_BUSY", "K_ERR_TIMEOUT"}]
    BY <1>4 DEF TypeOK, GiveUp, ReturnFrom
  <2> QED
    BY <1>4, <2>1, <2>2 DEF TypeOK, GiveUp, ringVars, semVars
<1>5. CASE GoOn(t)
  <2>1. pc' \in [Tasks -> Locations]
    BY <1>5 DEF TypeOK, GoOn, GoTo, Locations
  <2> QED
    BY <1>5, <2>1 DEF TypeOK, GoOn, ringVars, semVars, callVars
<1>6. CASE Block(t)
  <2>1. pc' \in [Tasks -> Locations]
    BY <1>6 DEF TypeOK, Block, GoTo, Locations
  <2>2. Append(waiters[TakenBy(op[t])], t) \in Seq(Tasks)
    BY <1>1 DEF TypeOK
  <2>3. waiters' \in [Sems -> Seq(Tasks)]
    BY <1>1, <1>6, <2>2 DEF TypeOK, Block, EnqueueWaiter
  <2> QED
    BY <1>6, <2>1, <2>3 DEF TypeOK, Block, ringVars, callVars
<1> QED
  BY <1>2, <1>3, <1>4, <1>5, <1>6

LEMMA TypeCopy ==
  ASSUME TypeOK, TokenBalance, NEW t \in Tasks, Write(t) \/ Read(t)
  PROVE  TypeOK'
<1>1. Capacity \in Nat
  BY MsgQueueAssumption
<1>2. CASE Write(t)
  <2>1. count < Capacity
    BY <1>2, BalanceBounds DEF Write
  <2>2. count' \in 0 .. Capacity
    BY <1>1, <1>2, <2>1 DEF TypeOK, Write
  <2>3. tail' \in Slots
    BY <1>2, AdvanceWraps DEF TypeOK, Write
  <2>4. buf' \in [Slots -> Messages \cup {NoItem}] /\ pc' \in [Tasks -> Locations]
    BY <1>2 DEF TypeOK, Write, GoTo, Locations
  <2> QED
    BY <1>2, <2>2, <2>3, <2>4 DEF TypeOK, Write, semVars, callVars
<1>3. CASE Read(t)
  <2>1. count > 0
    BY <1>3, BalanceBounds DEF Read
  <2>2. count' \in 0 .. Capacity
    BY <1>1, <1>3, <2>1 DEF TypeOK, Read
  <2>3. head' \in Slots
    BY <1>3, AdvanceWraps DEF TypeOK, Read
  <2>4. item' \in [Tasks -> Messages \cup {NoItem}] /\ pc' \in [Tasks -> Locations]
    BY <1>3 DEF TypeOK, Read, GoTo, Locations
  <2> QED
    BY <1>3, <2>2, <2>3, <2>4 DEF TypeOK, Read, semVars, callVars
<1> QED
  BY <1>2, <1>3

LEMMA TypeGive ==
  ASSUME TypeOK, TokenBalance, NEW t \in Tasks, Give(t)
  PROVE  TypeOK'
<1>1. Capacity \in Nat /\ GivenBy(op[t]) \in Sems
  BY MsgQueueAssumption DEF GivenBy, Sems
<1>2. SemGive(GivenBy(op[t])) /\ ReturnFrom(t, "K_OK")
  BY DEF Give
<1>3. tokens' \in [Sems -> 0 .. Capacity]
  <2> DEFINE n == IF tokens[GivenBy(op[t])] < Capacity
                  THEN tokens[GivenBy(op[t])] + 1 ELSE tokens[GivenBy(op[t])]
  <2>1. tokens' = tokens \/ tokens' = [tokens EXCEPT ![GivenBy(op[t])] = n]
    BY <1>2 DEF SemGive
  <2>2. n \in 0 .. Capacity
    BY <1>1 DEF TypeOK
  <2>3. tokens \in [Sems -> 0 .. Capacity]
    BY DEF TypeOK
  <2> HIDE DEF n
  <2> QED
    BY <1>1, <2>1, <2>2, <2>3
<1>4. waiters' \in [Sems -> Seq(Tasks)]
  <2>1. waiters[GivenBy(op[t])] # <<>> => Tail(waiters[GivenBy(op[t])]) \in Seq(Tasks)
    BY <1>1 DEF TypeOK
  <2> QED
    BY <1>1, <1>2, <2>1 DEF TypeOK, SemGive
<1>5. pc' \in [Tasks -> Locations]
  BY DEF TypeOK, Give, Locations
<1>6. /\ item' \in [Tasks -> Messages \cup {NoItem}]
      /\ rc' \in [Tasks -> {"K_OK", "K_ERR_BUSY", "K_ERR_TIMEOUT"}]
  BY <1>2 DEF TypeOK, ReturnFrom
<1> QED
  BY <1>3, <1>4, <1>5, <1>6 DEF TypeOK, Give, ringVars, callVars

LEMMA TypeStep ==
  ASSUME IndInv, [Next]_msgqVars
  PROVE  TypeOK'
<1> USE DEF IndInv
<1>1. SendTimeouts \subseteq Timeouts /\ RecvTimeouts \subseteq Timeouts
  BY MsgQueueAssumption DEF Timeouts
<1>2. ASSUME NEW t \in Tasks, NEW m \in Messages, NEW ms \in SendTimeouts,
             Call(t, "send", m, ms)
      PROVE  TypeOK'
  BY <1>1, <1>2, TypeCall DEF Ops
<1>3. ASSUME NEW t \in Tasks, NEW ms \in RecvTimeouts, Call(t, "recv", NoItem, ms)
      PROVE  TypeOK'
  BY <1>1, <1>3, TypeCall DEF Ops
<1>4. ASSUME NEW t \in Tasks, Step(t) PROVE TypeOK'
  BY <1>4, TypeTake, TypeCopy, TypeGive DEF Step
<1>5. CASE Tick
  <2>1. left' \in [Tasks -> Timeouts]
    BY <1>5, MsgQueueAssumption DEF TypeOK, Tick, Timeouts
  <2> QED
    BY <1>5, <2>1 DEF TypeOK, Tick, ringVars, semVars, callVars
<1>6. CASE UNCHANGED msgqVars
  BY <1>6 DEF TypeOK, msgqVars
<1> QED
  BY <1>2, <1>3, <1>4, <1>5, <1>6 DEF Next

(***************************************************************************)
(* The theorems.                                                           *)
(***************************************************************************)
LEMMA InitIndInv ==
  ASSUME Init
  PROVE  IndInv
<1>1. /\ Capacity \in Nat \ {0} /\ 0 \in Timeouts /\ 0 \in Slots
  BY MsgQueueAssumption DEF Timeouts, Slots
<1>2. TypeOK
  <2>1. /\ buf \in [Slots -> Messages \cup {NoItem}] /\ head \in Slots /\ tail \in Slots
        /\ count \in 0 .. Capacity
        /\ tokens \in [Sems -> 0 .. Capacity]
    BY <1>1 DEF Init
  <2>2. waiters \in [Sems -> Seq(Tasks)]
    BY DEF Init
  <2>3. /\ pc \in [Tasks -> Locations] /\ op \in [Tasks -> {"send", "recv"}]
        /\ item \in [Tasks -> Messages \cup {NoItem}]
        /\ rc \in [Tasks -> {"K_OK", "K_ERR_BUSY", "K_ERR_TIMEOUT"}]
    BY DEF Init, Locations
  <2>4. /\ seen \in [Tasks -> 0 .. Capacity]
        /\ tms \in [Tasks -> Timeouts] /\ left \in [Tasks -> Timeouts]
    BY <1>1 DEF Init, K_NO_WAIT
  <2> QED
    BY <2>1, <2>2, <2>3, <2>4 DEF TypeOK
<1>3. TokenBalance
  <2>1. \A l \in Held, o \in Ops : At(l, o) = {}
    BY DEF Init, At, Held
  <2>2. \A l \in Held, o \in Ops : Cardinality(At(l, o)) = 0
    BY <2>1, FS_EmptySet
  <2>3. tokens["not_empty"] = 0 /\ tokens["not_full"] = Capacity /\ count = 0
    BY DEF Init, Sems
  <2> QED
    BY <1>1, <2>2, <2>3 DEF TokenBalance, LostItems, LostRoom, Held, Ops
<1>4. RingConsistent
  BY <1>1 DEF Init, RingConsistent
<1>5. WaitersConsistent
  BY DEF Init, WaitersConsistent
<1> QED
  BY <1>2, <1>3, <1>4, <1>5 DEF IndInv

\* The inductive invariant of the queue (k_sem_take, k_sem_give, k_msgq_send and
\* k_msgq_recv in any interleaving) holds in every reachable state.
THEOREM QueueInductive == Spec => []IndInv
<1>1. Init => IndInv
  BY InitIndInv
<1>2. IndInv /\ [Next]_msgqVars => IndInv'
  <2> SUFFICES ASSUME IndInv, [Next]_msgqVars PROVE IndInv'
    OBVIOUS
  <2>1. TypeOK' /\ TokenBalance' /\ RingConsistent' /\ WaitersConsistent'
    BY TypeStep, BalanceStep, RingStep, WaitersStep
  <2> QED
    BY <2>1 DEF IndInv
<1> QED
  BY <1>1, <1>2, PTL DEF Spec

\* Type correctness: the ring indices stay in the buffer, and the counts of the
\* queue and of its semaphores in their bounds.
THEOREM QueueTypeOK == Spec => []TypeOK
<1>1. IndInv => TypeOK
  BY DEF IndInv
<1> QED
  BY <1>1, QueueInductive, PTL

\* No slot is overwritten before it is read or read before it is written: each
\* token of not_full and not_empty is backed by a slot or message of its own.
THEOREM TokensStayBacked == Spec => []TokenBalance
<1>1. IndInv => TokenBalance
  BY DEF IndInv
<1> QED
  BY <1>1, QueueInductive, PTL

\* head, tail and count of k_msgq_t agree.
THEOREM RingStaysConsistent == Spec => []RingConsistent
<1>1. IndInv => RingConsistent
  BY DEF IndInv
<1> QED
  BY <1>1, QueueInductive, PTL

\* The wait lists of k_sem_t hold exactly the blocked tasks.
THEOREM WaitersStayConsistent == Spec => []WaitersConsistent
<1>1. IndInv => WaitersConsistent
  BY DEF IndInv
<1> QED
  BY <1>1, QueueInductive, PTL

\* The only place where k_sem_give loses a token is the release of a waiter.
THEOREM TokensLostAtReleaseOnly == Spec => LossOnlyAtRelease
<1>1. ASSUME IndInv, [Next]_msgqVars, LostItems' # LostItems \/ LostRoom' # LostRoom
      PROVE  \E s \in Sems : Len(waiters'[s]) < Len(waiters[s])
  <2>1. \E t \in Tasks : Give(t)
    <3>1. CASE UNCHANGED msgqVars
      BY <1>1, <3>1 DEF msgqVars, LostItems, LostRoom, At
    <3>2. CASE Next
      BY <1>1, <3>2, LossOfCall, LossOfTake, LossOfCas, LossOfCopy, LossOfTick
      DEF Next, Step, IndInv, LossUnchanged, Ops
    <3> QED
      BY <1>1, <3>1, <3>2
  <2>2. PICK t \in Tasks : Give(t)
    BY <2>1
  <2>3. waiters[GivenBy(op[t])] # <<>>
    BY <1>1, <2>2, LossOfGive DEF IndInv, LossUnchanged
  <2>4. GivenBy(op[t]) \in Sems
    BY DEF GivenBy, Sems
  <2>5. waiters[GivenBy(op[t])] \in Seq(Tasks) /\ waiters \in [Sems -> Seq(Tasks)]
    BY <1>1, <2>4 DEF IndInv, TypeOK
  <2>6. waiters'[GivenBy(op[t])] = Tail(waiters[GivenBy(op[t])])
    BY <2>2, <2>3, <2>4, <2>5 DEF Give, SemGive
  <2>7. Len(waiters'[GivenBy(op[t])]) < Len(waiters[GivenBy(op[t])])
    BY <2>3, <2>5, <2>6
  <2> QED
    BY <2>4, <2>7
<1> QED
  BY <1>1, QueueInductive, PTL DEF Spec, LossOnlyAtRelease

(***************************************************************************)
(* The queue implements BoundedChannel.                                    *)
(***************************************************************************)

\* The slot of the i-th message from the head h.
SlotOf(h, i) == IF h + i - 1 < Capacity THEN h + i - 1 ELSE h + i - 1 - Capacity

LEMMA SlotOfIsModulus ==
  ASSUME NEW h \in Slots, NEW i \in 1 .. Capacity
  PROVE  /\ (h + i - 1) % Capacity = SlotOf(h, i)
         /\ SlotOf(h, i) \in Slots
<1>1. Capacity \in Nat \ {0} /\ h \in 0 .. Capacity - 1 /\ i \in 1 .. Capacity
  BY MsgQueueAssumption DEF Slots
<1>2. CASE h + i - 1 < Capacity
  <2>1. (h + i - 1) % Capacity = h + i - 1
    BY <1>1, <1>2, SMT
  <2> QED
    BY <1>1, <1>2, <2>1 DEF SlotOf, Slots
<1>3. CASE h + i - 1 >= Capacity
  <2>1. (h + i - 1) % Capacity = h + i - 1 - Capacity
    BY <1>1, <1>3, SMT
  <2> QED
    BY <1>1, <1>3, <2>1 DEF SlotOf, Slots
<1> QED
  BY <1>1, <1>2, <1>3

Items == Messages \cup {NoItem}

\* Contents of the ring b with n messages from the head h.
ContentsOf(b, h, n) == [i \in 1 .. n |-> b[(h + i - 1) % Capacity]]

LEMMA ContentsBySlot ==
  ASSUME NEW b \in [Slots -> Items], NEW h \in Slots, NEW n \in 0 .. Capacity
  PROVE  /\ ContentsOf(b, h, n) \in Seq(Items)
         /\ Len(ContentsOf(b, h, n)) = n
         /\ \A i \in 1 .. n : ContentsOf(b, h, n)[i] = b[SlotOf(h, i)]
<1>1. Capacity \in Nat /\ n \in Nat /\ \A i \in 1 .. n : i \in 1 .. Capacity
  BY MsgQueueAssumption
<1>2. \A i \in 1 .. n : /\ (h + i - 1) % Capacity = SlotOf(h, i)
                        /\ SlotOf(h, i) \in Slots
  BY <1>1, SlotOfIsModulus
<1>3. \A i \in 1 .. n : b[SlotOf(h, i)] \in Items
  BY <1>2
<1>4. ContentsOf(b, h, n) = [i \in 1 .. n |-> b[SlotOf(h, i)]]
  BY <1>2 DEF ContentsOf
<1>5. ContentsOf(b, h, n) \in [1 .. n -> Items]
  BY <1>3, <1>4
<1>6. ContentsOf(b, h, n) \in Seq(Items)
  BY <1>1, <1>5
<1>7. Len(ContentsOf(b, h, n)) = n
  BY <1>1, <1>4
<1> QED
  BY <1>4, <1>6, <1>7

\* A write into the slot behind the last message appends it.
LEMMA WriteAppends ==
  ASSUME NEW b \in [Slots -> Items], NEW h \in Slots, NEW n \in 0 .. Capacity,
         n < Capacity, NEW x \in Items
  PROVE  ContentsOf([b EXCEPT ![SlotOf(h, n + 1)] = x], h, n + 1)
           = Append(ContentsOf(b, h, n), x)
<1> DEFINE b2 == [b EXCEPT ![SlotOf(h, n + 1)] = x]
           c == ContentsOf(b, h, n)
           c2 == ContentsOf(b2, h, n + 1)
<1>1. /\ Capacity \in Nat \ {0} /\ n \in Nat /\ n + 1 \in 0 .. Capacity
      /\ h \in 0 .. Capacity - 1
  BY MsgQueueAssumption DEF Slots
<1>2. b2 \in [Slots -> Items]
  OBVIOUS
<1>3. /\ c \in Seq(Items) /\ Len(c) = n
      /\ \A i \in 1 .. n : c[i] = b[SlotOf(h, i)]
  BY ContentsBySlot
<1> HIDE DEF b2
<1>4. /\ c2 \in Seq(Items) /\ Len(c2) = n + 1
      /\ \A i \in 1 .. n + 1 : c2[i] = b2[SlotOf(h, i)]
  BY <1>1, <1>2, ContentsBySlot
<1>5. \A i \in 1 .. n + 1 : SlotOf(h, i) \in Slots
  BY <1>1, SlotOfIsModulus
<1>6. \A i \in 1 .. n : SlotOf(h, i) # SlotOf(h, n + 1)
  BY <1>1 DEF SlotOf
<1>7. \A i \in 1 .. n : c2[i] = c[i]
  <2> SUFFICES ASSUME NEW i \in 1 .. n PROVE c2[i] = c[i]
    OBVIOUS
  <2>1. i \in 1 .. n + 1
    BY <1>1
  <2>2. b2[SlotOf(h, i)] = b[SlotOf(h, i)]
    BY <1>5, <1>6, <2>1 DEF b2
  <2> QED
    BY <1>3, <1>4, <2>1, <2>2
<1>8. c2[n + 1] = x
  <2>1. n + 1 \in 1 .. n + 1
    BY <1>1
  <2>2. b2[SlotOf(h, n + 1)] = x
    BY <1>5, <2>1 DEF b2
  <2> QED
    BY <1>4, <2>1, <2>2
<1> HIDE DEF c, c2
<1>9. c2 = Append(c, x)
  BY <1>1, <1>3, <1>4, <1>7, <1>8
<1> QED
  BY <1>9 DEF c, c2, b2

\* Advancing the head drops the first message.
LEMMA ReadDropsHead ==
  ASSUME NEW b \in [Slots -> Items], NEW h \in Slots, NEW n \in 0 .. Capacity, n > 0
  PROVE  /\ ContentsOf(b, h, n) # <<>>
         /\ Head(ContentsOf(b, h, n)) = b[h]
         /\ ContentsOf(b, Advance(h), n - 1) = Tail(ContentsOf(b, h, n))
<1> DEFINE c == ContentsOf(b, h, n)
           c2 == ContentsOf(b, Advance(h), n - 1)
<1>1. /\ Capacity \in Nat \ {0} /\ n \in Nat /\ n - 1 \in 0 .. Capacity
      /\ h \in 0 .. Capacity - 1 /\ n <= Capacity
      /\ Advance(h) \in Slots
      /\ Advance(h) = IF h + 1 = Capacity THEN 0 ELSE h + 1
  BY MsgQueueAssumption, AdvanceWraps DEF Slots
<1>2. /\ c \in Seq(Items) /\ Len(c) = n
      /\ \A i \in 1 .. n : c[i] = b[SlotOf(h, i)]
  BY ContentsBySlot
<1>3. /\ c2 \in Seq(Items) /\ Len(c2) = n - 1
      /\ \A i \in 1 .. n - 1 : c2[i] = b[SlotOf(Advance(h), i)]
  BY <1>1, ContentsBySlot
<1>4. \A i \in 1 .. n - 1 : SlotOf(Advance(h), i) = SlotOf(h, i + 1)
  BY <1>1 DEF SlotOf
<1>5. SlotOf(h, 1) = h
  BY <1>1 DEF SlotOf
<1>6. c[1] = b[h]
  <2>1. 1 \in 1 .. n
    BY <1>1
  <2> QED
    BY <1>2, <1>5, <2>1
<1>7. \A i \in 1 .. n - 1 : c2[i] = c[i + 1]
  <2> SUFFICES ASSUME NEW i \in 1 .. n - 1 PROVE c2[i] = c[i + 1]
    OBVIOUS
  <2>1. i + 1 \in 1 .. n
    BY <1>1
  <2> QED
    BY <1>2, <1>3, <1>4, <2>1
<1> HIDE DEF c, c2
<1>8. c # <<>> /\ Head(c) = b[h]
  BY <1>1, <1>2, <1>6
<1>9. Tail(c) \in Seq(Items) /\ Len(Tail(c)) = n - 1
  BY <1>1, <1>2, <1>8
<1>10. \A i \in 1 .. n - 1 : Tail(c)[i] = c[i + 1]
  BY <1>1, <1>2, <1>8
<1>11. c2 = Tail(c)
  BY <1>1, <1>3, <1>7, <1>9, <1>10
<1> QED
  BY <1>8, <1>11 DEF c, c2

\* The part of the channel's state that lies in the ring.
LEMMA SameContents ==
  ASSUME UNCHANGED <<buf, head, count>>
  PROVE  Contents' = Contents
BY DEF Contents

\* The phase of a task at location l.
PhaseAt(l) == IF l = "idle" THEN "idle" ELSE IF l = "give" THEN "done" ELSE "pending"

LEMMA PhaseByTask ==
  /\ Phase = [u \in Tasks |-> PhaseAt(pc[u])]
  /\ Phase' = [u \in Tasks |-> PhaseAt(pc'[u])]
BY DEF Phase, PhaseAt

LEMMA PhaseAfterGoTo ==
  ASSUME TypeOK, NEW t \in Tasks, NEW l, GoTo(t, l)
  PROVE  /\ Phase[t] = PhaseAt(pc[t])
         /\ Phase' = [Phase EXCEPT ![t] = PhaseAt(l)]
<1>1. pc'[t] = l /\ \A u \in Tasks : u # t => pc'[u] = pc[u]
  BY DEF TypeOK, GoTo
<1>2. \A u \in Tasks : PhaseAt(pc'[u]) = IF u = t THEN PhaseAt(l) ELSE PhaseAt(pc[u])
  BY <1>1
<1> QED
  BY <1>2, PhaseByTask

\* Steps inside k_sem_take other than its failure are invisible to the caller.
LEMMA TakeStutters ==
  ASSUME TypeOK, NEW t \in Tasks, Load(t) \/ Cas(t) \/ GoOn(t) \/ Block(t)
  PROVE  UNCHANGED Channel!chanVars
<1>1. /\ UNCHANGED <<buf, head, count, op, item, rc>>
      /\ pc[t] \notin {"idle", "give"}
      /\ \E l \in Locations \ {"idle", "give"} : GoTo(t, l)
  BY DEF Load, Cas, GoOn, Block, ringVars, semVars, callVars, Locations
<1>2. Phase' = Phase
  <2>1. PICK l \in Locations \ {"idle", "give"} : GoTo(t, l)
    BY <1>1
  <2>2. PhaseAt(pc[t]) = PhaseAt(l)
    BY <1>1 DEF PhaseAt
  <2>3. Phase' = [Phase EXCEPT ![t] = Phase[t]]
    BY <2>1, <2>2, PhaseAfterGoTo
  <2> QED
    BY <2>3 DEF Phase
<1> QED
  BY <1>1, <1>2, SameContents DEF Channel!chanVars

LEMMA CallIsCall ==
  ASSUME TypeOK, NEW t \in Tasks, NEW o, NEW m, NEW ms, Call(t, o, m, ms)
  PROVE  Channel!Call(t, o, m)
<1>1. GoTo(t, "load") /\ pc[t] = "idle" /\ UNCHANGED <<buf, head, count>>
  BY DEF Call, ringVars
<1>2. Phase[t] = "idle" /\ Phase' = [Phase EXCEPT ![t] = "pending"]
  BY <1>1, PhaseAfterGoTo DEF PhaseAt
<1> QED
  BY <1>1, <1>2, SameContents DEF Channel!Call, Call

LEMMA GiveUpIsGiveUp ==
  ASSUME TypeOK, NEW t \in Tasks, GiveUp(t)
  PROVE  Channel!GiveUp(t)
<1>1. /\ GoTo(t, "idle") /\ pc[t] = "check" /\ UNCHANGED <<buf, head, count, op>>
      /\ item' = [item EXCEPT ![t] = NoItem]
  BY DEF GiveUp, ringVars, ReturnFrom
<1>2. \E e \in Channel!ErrorCodes : rc' = [rc EXCEPT ![t] = e]
  BY DEF GiveUp, ReturnFrom, Channel!ErrorCodes
<1>3. Phase[t] = "pending" /\ Phase' = [Phase EXCEPT ![t] = "idle"]
  BY <1>1, PhaseAfterGoTo DEF PhaseAt
<1> QED
  BY <1>1, <1>2, <1>3, SameContents DEF Channel!GiveUp

LEMMA WriteIsPut ==
  ASSUME IndInv, NEW t \in Tasks, Write(t)
  PROVE  Channel!Put(t)
<1> USE DEF IndInv
<1>1. /\ GoTo(t, "give") /\ pc[t] = "copy" /\ op[t] = "send"
      /\ UNCHANGED <<head, op, item, rc>>
      /\ buf' = [buf EXCEPT ![tail] = item[t]] /\ count' = count + 1
  BY DEF Write, callVars
<1>2. count < Capacity
  BY <1>1, BalanceBounds
<1>3. /\ buf \in [Slots -> Items] /\ head \in Slots /\ count \in 0 .. Capacity
      /\ item[t] \in Items
  BY DEF TypeOK, Items
<1>4. tail = SlotOf(head, count + 1)
  BY <1>3, MsgQueueAssumption DEF RingConsistent, SlotOf, Slots
<1>5. ContentsOf(buf', head', count') = Append(ContentsOf(buf, head, count), item[t])
  BY <1>1, <1>2, <1>3, <1>4, WriteAppends
<1>6. Contents' = Append(Contents, item[t])
  BY <1>5 DEF Contents, ContentsOf
<1>7. Len(Contents) < Capacity
  <2>1. Len(ContentsOf(buf, head, count)) = count
    BY <1>3, ContentsBySlot
  <2> QED
    BY <1>2, <2>1 DEF Contents, ContentsOf
<1>8. Phase[t] = "pending" /\ Phase' = [Phase EXCEPT ![t] = "done"]
  BY <1>1, PhaseAfterGoTo DEF PhaseAt
<1> QED
  BY <1>1, <1>6, <1>7, <1>8 DEF Channel!Put

LEMMA ReadIsGet ==
  ASSUME IndInv, NEW t \in Tasks, Read(t)
  PROVE  Channel!Get(t)
<1> USE DEF IndInv
<1>1. /\ GoTo(t, "give") /\ pc[t] = "copy" /\ op[t] = "recv"
      /\ UNCHANGED <<buf, op, rc>>
      /\ item' = [item EXCEPT ![t] = buf[head]]
      /\ head' = Advance(head) /\ count' = count - 1
  BY DEF Read, callVars
<1>2. count > 0
  BY <1>1, BalanceBounds
<1>3. buf \in [Slots -> Items] /\ head \in Slots /\ count \in 0 .. Capacity
  BY DEF TypeOK, Items
<1>4. /\ ContentsOf(buf, head, count) # <<>>
      /\ Head(ContentsOf(buf, head, count)) = buf[head]
      /\ ContentsOf(buf', head', count') = Tail(ContentsOf(buf, head, count))
  BY <1>1, <1>2, <1>3, ReadDropsHead
<1>5. Contents # <<>> /\ Head(Contents) = buf[head] /\ Contents' = Tail(Contents)
  BY <1>4 DEF Contents, ContentsOf
<1>6. Phase[t] = "pending" /\ Phase' = [Phase EXCEPT ![t] = "done"]
  BY <1>1, PhaseAfterGoTo DEF PhaseAt
<1> QED
  BY <1>1, <1>5, <1>6 DEF Channel!Get

LEMMA GiveIsReturn ==
  ASSUME TypeOK, WaitersConsistent, NEW t \in Tasks, Give(t)
  PROVE  Channel!Return(t)
<1>1. /\ pc[t] = "give" /\ UNCHANGED <<buf, head, count, op>>
      /\ item' = [item EXCEPT ![t] = NoItem] /\ rc' = [rc EXCEPT ![t] = "K_OK"]
      /\ pc' = [u \in Tasks |-> IF u = t THEN "idle"
                              ELSE IF u \in Released(GivenBy(op[t])) THEN "load"
                              ELSE pc[u]]
  BY DEF Give, ringVars, callVars, ReturnFrom
<1>2. \A u \in Released(GivenBy(op[t])) : pc[u] = "waiting"
  BY ReleasedWaited DEF GivenBy, Sems
<1>3. \A u \in Tasks : PhaseAt(pc'[u]) = IF u = t THEN "idle" ELSE PhaseAt(pc[u])
  BY <1>1, <1>2 DEF PhaseAt
<1>4. Phase[t] = "done"
  BY <1>1, PhaseByTask DEF PhaseAt
<1>5. Phase' = [Phase EXCEPT ![t] = "idle"]
  BY <1>3, PhaseByTask
<1> QED
  BY <1>1, <1>4, <1>5, SameContents DEF Channel!Return

LEMMA StepRefines ==
  ASSUME IndInv, [Next]_msgqVars
  PROVE  [Channel!Next]_(Channel!chanVars)
<1> USE DEF IndInv
<1>1. ASSUME NEW t \in Tasks, NEW m \in Messages, NEW ms, Call(t, "send", m, ms)
      PROVE  Channel!Next
  BY <1>1, CallIsCall DEF Channel!Next
<1>2. ASSUME NEW t \in Tasks, NEW ms, Call(t, "recv", NoItem, ms)
      PROVE  Channel!Next
  BY <1>2, CallIsCall DEF Channel!Next
<1>3. ASSUME NEW t \in Tasks, GiveUp(t) \/ Write(t) \/ Read(t) \/ Give(t)
      PROVE  Channel!Next
  BY <1>3, GiveUpIsGiveUp, WriteIsPut, ReadIsGet, GiveIsReturn DEF Channel!Next
<1>4. ASSUME Tick \/ UNCHANGED msgqVars PROVE UNCHANGED Channel!chanVars
  <2>1. UNCHANGED <<buf, head, count, pc, op, item, rc>>
    BY <1>4 DEF Tick, msgqVars, ringVars, callVars
  <2> QED
    BY <2>1, SameContents DEF Channel!chanVars, Phase
<1> QED
  BY <1>1, <1>2, <1>3, <1>4, TakeStutters DEF Next, Step

LEMMA InitRefines ==
  ASSUME Init
  PROVE  Channel!Init
<1>1. Contents = <<>>
  BY DEF Init, Contents
<1>2. Phase = [t \in Tasks |-> "idle"]
  BY DEF Init, Phase
<1> QED
  BY <1>1, <1>2 DEF Init, Channel!Init

\* k_msgq_send and k_msgq_recv implement the bounded first-in first-out channel,
\* for any number of tasks and any capacity: messages are delivered once,
\* unchanged and in order, and a call that returns an error has had no effect.
THEOREM QueueImplementsChannel == Spec => ChannelRefinement
<1>1. Init => Channel!Init
  BY InitRefines
<1>2. IndInv /\ [Next]_msgqVars => [Channel!Next]_(Channel!chanVars)
  BY StepRefines
<1> QED
  BY <1>1, <1>2, QueueInductive, PTL DEF Spec, ChannelRefinement, Channel!Spec

==============================================================================
