--------------------------- MODULE SchedulerProofs ---------------------------
(***************************************************************************)
(* Proofs about Scheduler for every set of tasks, every number of priority *)
(* levels and every slice length.                                          *)
(***************************************************************************)
EXTENDS Scheduler, TLAPS

(***************************************************************************)
(* The queue invariants as a relation between the values they connect.     *)
(***************************************************************************)

\* RunQueueConsistent for the states st, priorities pr, queues rq, bitmap bm.
Consistent(st, pr, rq, bm) ==
  /\ \A p \in Priorities : \A i \in 1 .. Len(rq[p]) :
       /\ pr[rq[p][i]] = p
       /\ st[rq[p][i]] = "READY" \/ (rq[p][i] = Idle /\ st[rq[p][i]] = "RUNNING")
  /\ \A t \in AllTasks : st[t] = "READY" =>
       \E i \in 1 .. Len(rq[pr[t]]) : rq[pr[t]][i] = t
  /\ \A p \in Priorities : \A i, j \in 1 .. Len(rq[p]) : rq[p][i] = rq[p][j] => i = j
  /\ bm = {p \in Priorities : rq[p] # <<>>}

\* The types of those values.
QueueTypes(st, pr, rq) ==
  /\ st \in [AllTasks -> TaskStates]
  /\ pr \in [AllTasks -> Priorities]
  /\ rq \in [Priorities -> Seq(AllTasks)]

\* Making a task that is not linked anywhere ready: rq_enqueue keeps the queues
\* consistent (also when the idle task is linked already).
LEMMA EnqueueConsistent ==
  ASSUME NEW st, NEW pr, NEW rq, NEW bm, NEW t \in AllTasks,
         QueueTypes(st, pr, rq), Consistent(st, pr, rq, bm),
         st[t] # "READY",
         rq[pr[t]] = <<t>> \/ \A i \in 1 .. Len(rq[pr[t]]) : rq[pr[t]][i] # t
  PROVE  LET st2 == [st EXCEPT ![t] = "READY"]
             rq2 == RqEnqueue(rq, t, pr[t])
             bm2 == BitmapSet(bm, pr[t])
         IN  QueueTypes(st2, pr, rq2) /\ Consistent(st2, pr, rq2, bm2)
<1> DEFINE p  == pr[t]
           q  == rq[p]
           st2 == [st EXCEPT ![t] = "READY"]
           rq2 == RqEnqueue(rq, t, p)
           bm2 == BitmapSet(bm, p)
<1>1. p \in Priorities /\ q \in Seq(AllTasks) /\ "READY" \in TaskStates
  BY DEF QueueTypes, TaskStates
<1>2. CASE q = <<t>>
  <2>1. rq2 = rq
    BY <1>2 DEF RqEnqueue
  <2>2. q # <<>> /\ Len(q) = 1 /\ q[1] = t
    BY <1>2
  <2>3. bm2 = bm
    BY <1>1, <2>2 DEF Consistent, BitmapSet
  <2>4. Consistent(st2, pr, rq, bm)
    BY <1>1, <2>2 DEF Consistent, QueueTypes
  <2> QED
    BY <1>1, <2>1, <2>3, <2>4 DEF QueueTypes
<1>3. CASE q # <<t>>
  <2>1. rq2 = [rq EXCEPT ![p] = Append(q, t)]
    BY <1>3 DEF RqEnqueue
  <2>2. /\ rq2 \in [Priorities -> Seq(AllTasks)]
        /\ rq2[p] = Append(q, t)
        /\ \A r \in Priorities : r # p => rq2[r] = rq[r]
    BY <1>1, <2>1 DEF QueueTypes
  <2>3. /\ Len(rq2[p]) = Len(q) + 1
        /\ rq2[p] # <<>>
        /\ \A i \in 1 .. Len(q) : rq2[p][i] = q[i]
        /\ rq2[p][Len(q) + 1] = t
    BY <1>1, <2>2
  <2>4. QueueTypes(st2, pr, rq2)
    BY <1>1, <2>2 DEF QueueTypes
  <2>5. \A r \in Priorities : \A i \in 1 .. Len(rq2[r]) :
          /\ pr[rq2[r][i]] = r
          /\ \/ st2[rq2[r][i]] = "READY"
             \/ rq2[r][i] = Idle /\ st2[rq2[r][i]] = "RUNNING"
    <3> SUFFICES ASSUME NEW r \in Priorities, NEW i \in 1 .. Len(rq2[r])
                 PROVE  /\ pr[rq2[r][i]] = r
                        /\ \/ st2[rq2[r][i]] = "READY"
                           \/ rq2[r][i] = Idle /\ st2[rq2[r][i]] = "RUNNING"
      OBVIOUS
    <3> DEFINE waits(u, l) == /\ pr[u] = l
                              /\ st[u] = "READY" \/ (u = Idle /\ st[u] = "RUNNING")
    <3>4. \A u \in AllTasks : st2[u] = IF u = t THEN "READY" ELSE st[u]
      BY DEF QueueTypes
    <3>5. \A l \in Priorities : \A k \in 1 .. Len(rq[l]) :
            rq[l][k] \in AllTasks /\ waits(rq[l][k], l)
      BY DEF Consistent, QueueTypes
    <3> HIDE DEF rq2, st2, waits
    <3>1. CASE r # p
      <4>1. rq2[r] = rq[r]
        BY <2>2, <3>1
      <4>2. rq2[r][i] \in AllTasks /\ waits(rq2[r][i], r)
        BY <3>5, <4>1
      <4> QED
        BY <3>4, <4>2 DEF waits
    <3>2. CASE r = p /\ i = Len(q) + 1
      BY <2>3, <3>2, <3>4
    <3>3. CASE r = p /\ i # Len(q) + 1
      <4>1. i \in 1 .. Len(q)
        BY <1>1, <2>3, <3>3
      <4>2. rq2[r][i] = rq[r][i] /\ i \in 1 .. Len(rq[r])
        BY <2>3, <3>3, <4>1
      <4>3. rq2[r][i] \in AllTasks /\ waits(rq2[r][i], r)
        BY <3>5, <4>2
      <4> QED
        BY <3>4, <4>3 DEF waits
    <3> QED
      BY <3>1, <3>2, <3>3
  <2>6. \A u \in AllTasks : st2[u] = "READY" =>
          \E i \in 1 .. Len(rq2[pr[u]]) : rq2[pr[u]][i] = u
    <3> SUFFICES ASSUME NEW u \in AllTasks, st2[u] = "READY"
                 PROVE  \E i \in 1 .. Len(rq2[pr[u]]) : rq2[pr[u]][i] = u
      OBVIOUS
    <3>1. CASE u = t
      BY <1>1, <2>3, <3>1
    <3>2. CASE u # t
      <4>1. PICK i \in 1 .. Len(rq[pr[u]]) : rq[pr[u]][i] = u
        BY <3>2 DEF Consistent, QueueTypes
      <4>2. pr[u] \in Priorities
        BY DEF QueueTypes
      <4>3. CASE pr[u] = p
        BY <1>1, <2>3, <4>1, <4>3
      <4>4. CASE pr[u] # p
        BY <2>2, <4>1, <4>2, <4>4
      <4> QED
        BY <4>3, <4>4
    <3> QED
      BY <3>1, <3>2
  <2>7. \A r \in Priorities : \A i, j \in 1 .. Len(rq2[r]) :
          rq2[r][i] = rq2[r][j] => i = j
    <3> SUFFICES ASSUME NEW r \in Priorities,
                        NEW i \in 1 .. Len(rq2[r]), NEW j \in 1 .. Len(rq2[r]),
                        rq2[r][i] = rq2[r][j]
                 PROVE  i = j
      OBVIOUS
    <3>1. CASE r # p
      BY <2>2, <3>1 DEF Consistent
    <3>2. CASE r = p
      <4>1. \A k \in 1 .. Len(q) : q[k] # t
        BY <1>3
      <4>2. \A k, l \in 1 .. Len(q) : q[k] = q[l] => k = l
        BY <1>1 DEF Consistent
      <4>3. i \in 1 .. Len(q) + 1 /\ j \in 1 .. Len(q) + 1 /\ Len(q) \in Nat
        BY <1>1, <2>3, <3>2
      <4>4. rq2[p][i] = rq2[p][j]
        BY <3>2
      <4>5. \A k \in 1 .. Len(q) : rq2[p][k] # rq2[p][Len(q) + 1]
        BY <2>3, <4>1
      <4>6. CASE i = Len(q) + 1 \/ j = Len(q) + 1
        <5>1. i # j => i \in 1 .. Len(q) \/ j \in 1 .. Len(q)
          BY <4>3, <4>6
        <5> QED
          BY <4>4, <4>5, <4>6, <5>1
      <4>7. CASE i \in 1 .. Len(q) /\ j \in 1 .. Len(q)
        <5>1. q[i] = q[j]
          BY <2>3, <3>2, <4>7
        <5> QED
          BY <4>2, <4>7, <5>1
      <4> QED
        BY <4>3, <4>6, <4>7
    <3> QED
      BY <3>1, <3>2
  <2>8. bm2 = {r \in Priorities : rq2[r] # <<>>}
    BY <1>1, <2>2, <2>3 DEF Consistent, BitmapSet
  <2> QED
    BY <2>4, <2>5, <2>6, <2>7, <2>8 DEF Consistent
<1> QED
  BY <1>2, <1>3

\* Giving the processor to the head of a level that holds a task: rq_remove
\* keeps the queues consistent, and the task is linked nowhere afterwards.
LEMMA DequeueConsistent ==
  ASSUME NEW st, NEW pr, NEW rq, NEW bm, NEW hp \in Priorities,
         QueueTypes(st, pr, rq), Consistent(st, pr, rq, bm), hp \in bm
  PROVE  LET next == Head(rq[hp])
             st2  == [st EXCEPT ![next] = "RUNNING"]
             rq2  == RqRemoveHead(rq, hp)
             bm2  == BitmapRemoveHead(bm, rq, hp)
         IN  /\ next \in AllTasks
             /\ pr[next] = hp
             /\ st[next] = "READY" \/ (next = Idle /\ st[next] = "RUNNING")
             /\ QueueTypes(st2, pr, rq2)
             /\ Consistent(st2, pr, rq2, bm2)
<1> DEFINE q    == rq[hp]
           next == Head(rq[hp])
           st2  == [st EXCEPT ![next] = "RUNNING"]
           rq2  == RqRemoveHead(rq, hp)
           bm2  == BitmapRemoveHead(bm, rq, hp)
<1>1. /\ q \in Seq(AllTasks) /\ q # <<>> /\ "RUNNING" \in TaskStates
      /\ Len(q) \in Nat \ {0} /\ next = q[1] /\ next \in AllTasks
  BY DEF QueueTypes, Consistent, TaskStates
<1>2. /\ pr[next] = hp
      /\ st[next] = "READY" \/ (next = Idle /\ st[next] = "RUNNING")
  BY <1>1 DEF Consistent
<1>3. /\ rq2 \in [Priorities -> Seq(AllTasks)]
      /\ rq2[hp] = Tail(q)
      /\ \A r \in Priorities : r # hp => rq2[r] = rq[r]
  BY <1>1 DEF QueueTypes, RqRemoveHead
<1>4. /\ Len(rq2[hp]) = Len(q) - 1
      /\ \A i \in 1 .. Len(rq2[hp]) : i + 1 \in 1 .. Len(q) /\ rq2[hp][i] = q[i + 1]
  BY <1>1, <1>3
<1>5. QueueTypes(st2, pr, rq2)
  BY <1>1, <1>3 DEF QueueTypes
<1>6. \A r \in Priorities : \A i \in 1 .. Len(rq2[r]) :
        /\ rq2[r][i] # next
        /\ pr[rq2[r][i]] = r
        /\ st[rq2[r][i]] = "READY" \/ (rq2[r][i] = Idle /\ st[rq2[r][i]] = "RUNNING")
  <2> SUFFICES ASSUME NEW r \in Priorities, NEW i \in 1 .. Len(rq2[r])
               PROVE  /\ rq2[r][i] # next
                      /\ pr[rq2[r][i]] = r
                      /\ \/ st[rq2[r][i]] = "READY"
                         \/ rq2[r][i] = Idle /\ st[rq2[r][i]] = "RUNNING"
    OBVIOUS
  <2>1. CASE r # hp
    <3>1. rq2[r] = rq[r]
      BY <1>3, <2>1
    <3>2. pr[rq2[r][i]] = r
      BY <3>1 DEF Consistent
    <3> QED
      BY <1>2, <2>1, <3>1, <3>2 DEF Consistent
  <2>2. CASE r = hp
    <3>1. i + 1 \in 1 .. Len(q) /\ rq2[r][i] = q[i + 1] /\ i + 1 # 1
      BY <1>4, <2>2
    <3>4. \A k, l \in 1 .. Len(q) : q[k] = q[l] => k = l
      BY DEF Consistent
    <3>5. 1 \in 1 .. Len(q)
      BY <1>1
    <3>2. q[i + 1] # q[1]
      BY <3>1, <3>4, <3>5
    <3>3. /\ pr[q[i + 1]] = hp
          /\ \/ st[q[i + 1]] = "READY"
             \/ q[i + 1] = Idle /\ st[q[i + 1]] = "RUNNING"
      BY <3>1 DEF Consistent
    <3> HIDE DEF q, next, rq2
    <3> QED
      BY <1>1, <2>2, <3>1, <3>2, <3>3
  <2> QED
    BY <2>1, <2>2
<1>7. \A u \in AllTasks : st2[u] = "READY" =>
        \E i \in 1 .. Len(rq2[pr[u]]) : rq2[pr[u]][i] = u
  <2> SUFFICES ASSUME NEW u \in AllTasks, st2[u] = "READY"
               PROVE  \E i \in 1 .. Len(rq2[pr[u]]) : rq2[pr[u]][i] = u
    OBVIOUS
  <2>1. u # next /\ st[u] = "READY" /\ pr[u] \in Priorities
    BY <1>1 DEF QueueTypes
  <2>2. PICK i \in 1 .. Len(rq[pr[u]]) : rq[pr[u]][i] = u
    BY <2>1 DEF Consistent
  <2>3. CASE pr[u] # hp
    BY <1>3, <2>1, <2>2, <2>3
  <2>4. CASE pr[u] = hp
    <3>1. i # 1 /\ i - 1 \in 1 .. Len(rq2[hp])
      BY <1>1, <1>4, <2>1, <2>2, <2>4
    <3>2. rq2[hp][i - 1] = u
      BY <1>4, <2>2, <2>4, <3>1
    <3> QED
      BY <2>4, <3>1, <3>2
  <2> QED
    BY <2>3, <2>4
<1>8. \A r \in Priorities : \A i, j \in 1 .. Len(rq2[r]) :
        rq2[r][i] = rq2[r][j] => i = j
  <2> SUFFICES ASSUME NEW r \in Priorities,
                      NEW i \in 1 .. Len(rq2[r]), NEW j \in 1 .. Len(rq2[r]),
                      rq2[r][i] = rq2[r][j]
               PROVE  i = j
    OBVIOUS
  <2>1. CASE r # hp
    <3>1. rq2[r] = rq[r]
      BY <1>3, <2>1
    <3> QED
      BY <3>1 DEF Consistent
  <2>2. CASE r = hp
    <3>1. /\ i + 1 \in 1 .. Len(q) /\ j + 1 \in 1 .. Len(q)
          /\ q[i + 1] = q[j + 1]
      BY <1>4, <2>2
    <3>2. i + 1 = j + 1
      BY <3>1 DEF Consistent
    <3> QED
      BY <3>2
  <2> QED
    BY <2>1, <2>2
<1>9. bm2 = {r \in Priorities : rq2[r] # <<>>}
  <2>1. rq2[hp] = <<>> <=> Len(q) = 1
    <3>1. rq2[hp] \in Seq(AllTasks)
      BY <1>3
    <3>2. rq2[hp] = <<>> <=> Len(rq2[hp]) = 0
      BY <3>1
    <3> QED
      BY <1>1, <1>4, <3>2
  <2> QED
    BY <1>3, <2>1 DEF Consistent, BitmapRemoveHead
<1>10. Consistent(st2, pr, rq2, bm2)
  <2>1. \A r \in Priorities : \A i \in 1 .. Len(rq2[r]) :
          st2[rq2[r][i]] = st[rq2[r][i]]
    BY <1>3, <1>6 DEF QueueTypes
  <2> QED
    BY <1>6, <1>7, <1>8, <1>9, <2>1 DEF Consistent
<1> QED
  BY <1>1, <1>2, <1>5, <1>10

\* Level 0 holds at most the idle task.
LEMMA IdleLevel ==
  ASSUME TypeOK, RunQueueConsistent, IdleRunnable
  PROVE  \A i \in 1 .. Len(run_queue[0]) :
           run_queue[0][i] = Idle /\ run_queue[0] = <<Idle>>
<1> SUFFICES ASSUME NEW i \in 1 .. Len(run_queue[0])
             PROVE  run_queue[0][i] = Idle /\ run_queue[0] = <<Idle>>
  OBVIOUS
<1>1. 0 \in Priorities /\ run_queue[0] \in Seq(AllTasks)
  BY SchedulerAssumption DEF TypeOK, Priorities
<1>2. \A k \in 1 .. Len(run_queue[0]) : run_queue[0][k] = Idle
  BY <1>1 DEF RunQueueConsistent, QueuedAreReady, IdleRunnable, AllTasks
<1>3. \A k, l \in 1 .. Len(run_queue[0]) : k = l
  BY <1>1, <1>2 DEF RunQueueConsistent, QueuedOnce
<1>4. Len(run_queue[0]) = 1
  <2> DEFINE n == Len(run_queue[0])
  <2>1. n \in Nat /\ i \in 1 .. n
    BY <1>1
  <2>2. \A k, l \in 1 .. n : k = l
    BY <1>3
  <2> HIDE DEF n
  <2>3. n >= 1
    BY <2>1
  <2>4. n < 2
    <3> SUFFICES ASSUME n >= 2 PROVE FALSE
      BY <2>1
    <3>1. 1 \in 1 .. n /\ 2 \in 1 .. n
      BY <2>1
    <3> QED
      BY <2>2, <3>1
  <2>5. n = 1
    BY <2>1, <2>3, <2>4
  <2> QED
    BY <2>5 DEF n
<1> QED
  BY <1>1, <1>2, <1>4

\* The definition of RunQueueConsistent and its parametric form agree.
LEMMA ConsistentIsRunQueueConsistent ==
  /\ TypeOK => (RunQueueConsistent
                 <=> Consistent(state, priority, run_queue, prio_bitmap))
  /\ TypeOK' => (RunQueueConsistent'
                 <=> Consistent(state', priority', run_queue', prio_bitmap'))
BY DEF RunQueueConsistent, QueuedAreReady, ReadyAreQueued, QueuedOnce, BitmapExact,
       Consistent, TypeOK

\* sched_yield_from_isr: the queues stay consistent, exactly the new current
\* task is running, it has the highest priority, and no task enters or leaves
\* any state but READY and RUNNING.
LEMMA SchedYieldCorrect ==
  ASSUME TypeOK, RunQueueConsistent, OneRunner, IdleRunnable, SchedYield
  PROVE  /\ QueueTypes(state', priority, run_queue')
         /\ prio_bitmap' \in SUBSET Priorities
         /\ slice_ticks' \in 0 .. TIME_SLICE_TICKS
         /\ Consistent(state', priority, run_queue', prio_bitmap')
         /\ current_task' \in AllTasks
         /\ \A t \in AllTasks : state'[t] = "RUNNING" <=> t = current_task'
         /\ \A t \in AllTasks : state'[t] = "READY" =>
              priority[t] <= priority[current_task']
         /\ \A t \in AllTasks :
              \/ state'[t] = state[t]
              \/ {state[t], state'[t]} \subseteq {"READY", "RUNNING"}
<1> DEFINE old == current_task
           p   == priority[old]
           st  == IF Requeued THEN [state EXCEPT ![old] = "READY"] ELSE state
           rq  == IF Requeued THEN RqEnqueue(run_queue, old, p) ELSE run_queue
           bm  == IF Requeued THEN BitmapSet(prio_bitmap, p) ELSE prio_bitmap
<1>1. /\ QueueTypes(state, priority, run_queue)
      /\ Consistent(state, priority, run_queue, prio_bitmap)
      /\ old \in AllTasks /\ p \in Priorities
  BY ConsistentIsRunQueueConsistent DEF TypeOK, QueueTypes
<1>2. QueueTypes(st, priority, rq) /\ Consistent(st, priority, rq, bm)
  <2>1. CASE ~Requeued
    BY <1>1, <2>1
  <2>2. CASE Requeued
    <3>1. run_queue[p] = <<old>> \/ \A i \in 1 .. Len(run_queue[p]) : run_queue[p][i] # old
      <4> SUFFICES ASSUME NEW i \in 1 .. Len(run_queue[p]), run_queue[p][i] = old
                   PROVE  run_queue[p] = <<old>>
        OBVIOUS
      <4>1. old = Idle
        BY <1>1, <2>2 DEF Consistent, Requeued
      <4>2. p = 0
        BY <4>1 DEF IdleRunnable
      <4> QED
        BY <4>1, <4>2, IdleLevel
    <3>2. state[old] # "READY"
      BY <2>2 DEF Requeued
    <3> HIDE DEF old
    <3> QED
      BY <1>1, <2>2, <3>1, <3>2, EnqueueConsistent
  <2> QED
    BY <2>1, <2>2
<1>3. \A t \in AllTasks : st[t] # "RUNNING"
  BY <1>1 DEF OneRunner, Requeued, TypeOK
<1>4. \A t \in AllTasks :
        \/ st[t] = state[t]
        \/ st[t] = "READY" /\ state[t] = "RUNNING"
  BY <1>1 DEF Requeued, TypeOK
<1>5. bm # {}
  <2>1. st[Idle] = "READY"
    BY <1>3, <1>4 DEF IdleRunnable, AllTasks
  <2> QED
    BY <1>2, <2>1 DEF Consistent, QueueTypes, AllTasks
<1>6. slice_ticks' \in 0 .. TIME_SLICE_TICKS
  BY SchedulerAssumption DEF SchedYield
<1>7. PICK hp \in Priorities :
        /\ IsPrioHighest(hp, bm)
        /\ current_task' = Head(rq[hp])
        /\ state' = [st EXCEPT ![Head(rq[hp])] = "RUNNING"]
        /\ run_queue' = RqRemoveHead(rq, hp)
        /\ prio_bitmap' = BitmapRemoveHead(bm, rq, hp)
  BY <1>5 DEF SchedYield
<1> HIDE DEF st, rq, bm
<1>8. hp \in bm
  BY <1>7 DEF IsPrioHighest
<1>9. /\ current_task' \in AllTasks
      /\ priority[current_task'] = hp
      /\ st[current_task'] = "READY" \/ st[current_task'] = "RUNNING"
      /\ QueueTypes(state', priority, run_queue')
      /\ Consistent(state', priority, run_queue', prio_bitmap')
  <2> DEFINE next == Head(rq[hp])
  <2>1. /\ next \in AllTasks
        /\ priority[next] = hp
        /\ st[next] = "READY" \/ (next = Idle /\ st[next] = "RUNNING")
        /\ QueueTypes([st EXCEPT ![next] = "RUNNING"], priority, RqRemoveHead(rq, hp))
        /\ Consistent([st EXCEPT ![next] = "RUNNING"], priority,
                      RqRemoveHead(rq, hp), BitmapRemoveHead(bm, rq, hp))
    BY <1>2, <1>8, DequeueConsistent
  <2> QED
    BY <1>7, <2>1
<1>10. \A t \in AllTasks : state'[t] = IF t = current_task' THEN "RUNNING" ELSE st[t]
  BY <1>2, <1>7 DEF QueueTypes
<1>11. prio_bitmap' \in SUBSET Priorities
  BY <1>9 DEF Consistent
<1>12. ASSUME NEW t \in AllTasks, state'[t] = "READY"
       PROVE  priority[t] <= priority[current_task']
  <2>1. st[t] = "READY"
    BY <1>10, <1>12
  <2>2. priority[t] \in bm
    BY <1>2, <2>1 DEF Consistent, QueueTypes
  <2> QED
    BY <1>7, <1>9, <2>2 DEF IsPrioHighest
<1> QED
  BY <1>3, <1>4, <1>6, <1>9, <1>10, <1>11, <1>12

(***************************************************************************)
(* The inductive invariant.                                                *)
(***************************************************************************)

\* The sequence q with e inserted behind its n-th element.
Inserted(q, n, e) == SubSeq(q, 1, n) \o <<e>> \o SubSeq(q, n + 1, Len(q))

\* Reading a sequence into which an element has been inserted.
LEMMA InsertProperties ==
  ASSUME NEW S, NEW q \in Seq(S), NEW n \in 0 .. Len(q), NEW e \in S
  PROVE  /\ Inserted(q, n, e) \in Seq(S)
         /\ Len(Inserted(q, n, e)) = Len(q) + 1
         /\ \A i \in 1 .. n : Inserted(q, n, e)[i] = q[i]
         /\ Inserted(q, n, e)[n + 1] = e
         /\ \A i \in n + 2 .. Len(q) + 1 : Inserted(q, n, e)[i] = q[i - 1]
<1> DEFINE a == SubSeq(q, 1, n)
           b == SubSeq(q, n + 1, Len(q))
           m == a \o <<e>>
<1>1. /\ Len(q) \in Nat /\ n \in Nat /\ n <= Len(q)
      /\ \A i \in 1 .. Len(q) : q[i] \in S
  OBVIOUS
<1>2. a \in Seq(S) /\ Len(a) = n /\ \A i \in 1 .. n : a[i] = q[i]
  BY <1>1
<1>3. /\ b \in Seq(S) /\ Len(b) = Len(q) - n
      /\ \A i \in 1 .. Len(q) - n : b[i] = q[n + i]
  BY <1>1
<1> HIDE DEF a, b
<1>4. /\ m \in Seq(S) /\ Len(m) = n + 1 /\ m[n + 1] = e
      /\ \A i \in 1 .. n : m[i] = q[i]
  BY <1>1, <1>2
<1> HIDE DEF m
<1>5. /\ m \o b \in Seq(S) /\ Len(m \o b) = Len(q) + 1
      /\ \A i \in 1 .. n + 1 : (m \o b)[i] = m[i]
      /\ \A i \in n + 2 .. Len(q) + 1 : (m \o b)[i] = b[i - (n + 1)]
  BY <1>1, <1>3, <1>4
<1>6. \A i \in n + 2 .. Len(q) + 1 :
        i - (n + 1) \in 1 .. Len(q) - n /\ n + (i - (n + 1)) = i - 1
  BY <1>1
<1>7. \A i \in n + 2 .. Len(q) + 1 : (m \o b)[i] = q[i - 1]
  BY <1>3, <1>5, <1>6
<1>8. /\ \A i \in 1 .. n : (m \o b)[i] = q[i]
      /\ (m \o b)[n + 1] = e
  BY <1>1, <1>4, <1>5
<1> QED
  BY <1>5, <1>7, <1>8 DEF m, a, b, Inserted

\* A task that is neither ready nor running becomes ready and is linked.
LEMMA MakeReady ==
  ASSUME TypeOK, RunQueueConsistent, NEW t \in AllTasks,
         state[t] \notin {"READY", "RUNNING"},
         state' = [state EXCEPT ![t] = "READY"],
         run_queue' = RqEnqueue(run_queue, t, priority[t]),
         prio_bitmap' = BitmapSet(prio_bitmap, priority[t]),
         priority' = priority
  PROVE  /\ QueueTypes(state', priority', run_queue')
         /\ Consistent(state', priority', run_queue', prio_bitmap')
<1>1. /\ QueueTypes(state, priority, run_queue)
      /\ Consistent(state, priority, run_queue, prio_bitmap)
  BY ConsistentIsRunQueueConsistent DEF TypeOK, QueueTypes
<1>2. \A i \in 1 .. Len(run_queue[priority[t]]) : run_queue[priority[t]][i] # t
  BY <1>1 DEF Consistent, QueueTypes
<1> QED
  BY <1>1, <1>2, EnqueueConsistent

\* The current application task leaves the processor's states; it is not linked.
LEMMA LeaveRunning ==
  ASSUME TypeOK, RunQueueConsistent, OneRunner, AppCode, NEW s \in TaskStates,
         s # "READY",
         state' = [state EXCEPT ![current_task] = s],
         UNCHANGED <<priority, run_queue, prio_bitmap>>
  PROVE  /\ QueueTypes(state', priority', run_queue')
         /\ Consistent(state', priority', run_queue', prio_bitmap')
<1>1. /\ QueueTypes(state, priority, run_queue)
      /\ Consistent(state, priority, run_queue, prio_bitmap)
  BY ConsistentIsRunQueueConsistent DEF TypeOK, QueueTypes
<1>2. current_task \in AllTasks /\ current_task # Idle /\ state[current_task] = "RUNNING"
  BY SchedulerAssumption DEF AppCode, OneRunner, AllTasks
<1>3. \A p \in Priorities : \A i \in 1 .. Len(run_queue[p]) :
        run_queue[p][i] # current_task /\ run_queue[p][i] \in AllTasks
  BY <1>1, <1>2 DEF Consistent, QueueTypes
<1>4. \A t \in AllTasks : t # current_task => state'[t] = state[t]
  BY <1>1 DEF QueueTypes
<1>5. state'[current_task] = s
  BY <1>1, <1>2 DEF QueueTypes
<1>6. QueueTypes(state', priority', run_queue')
  BY <1>1, <1>2 DEF QueueTypes
<1>7. \A p \in Priorities : \A i \in 1 .. Len(run_queue[p]) :
        /\ priority[run_queue[p][i]] = p
        /\ \/ state'[run_queue[p][i]] = "READY"
           \/ run_queue[p][i] = Idle /\ state'[run_queue[p][i]] = "RUNNING"
  BY <1>1, <1>3, <1>4 DEF Consistent
<1>8. \A t \in AllTasks : state'[t] = "READY" => state[t] = "READY"
  BY <1>4, <1>5
<1> QED
  BY <1>1, <1>6, <1>7, <1>8 DEF Consistent

\* A step that calls sched_yield_from_isr.
LEMMA YieldStep ==
  ASSUME IndInv, SchedYield, UNCHANGED <<priority, sleep_queue, wake_in>>
  PROVE  /\ QueueTypes(state', priority', run_queue')
         /\ Consistent(state', priority', run_queue', prio_bitmap')
         /\ prio_bitmap' \in SUBSET Priorities
         /\ slice_ticks' \in 0 .. TIME_SLICE_TICKS
         /\ current_task' \in AllTasks
         /\ SleepersQueued' /\ SleepOrder' /\ OneRunner' /\ IdleRunnable'
<1> USE DEF IndInv
<1>1. /\ QueueTypes(state', priority, run_queue')
      /\ prio_bitmap' \in SUBSET Priorities
      /\ slice_ticks' \in 0 .. TIME_SLICE_TICKS
      /\ Consistent(state', priority, run_queue', prio_bitmap')
      /\ current_task' \in AllTasks
      /\ \A t \in AllTasks : state'[t] = "RUNNING" <=> t = current_task'
      /\ \A t \in AllTasks :
           \/ state'[t] = state[t]
           \/ {state[t], state'[t]} \subseteq {"READY", "RUNNING"}
  BY SchedYieldCorrect
<1>2. SleepersQueued'
  BY <1>1 DEF SleepQueueConsistent, SleepersQueued
<1>3. SleepOrder'
  BY DEF SleepQueueConsistent, SleepOrder
<1>4. OneRunner'
  BY <1>1 DEF OneRunner
<1>5. IdleRunnable'
  BY <1>1 DEF IdleRunnable, AllTasks
<1> QED
  BY <1>1, <1>2, <1>3, <1>4, <1>5

\* The processor is with one task and in task code: its state is RUNNING.
LEMMA AppCodeRunning ==
  ASSUME IndInv, AppCode
  PROVE  /\ current_task \in Tasks /\ current_task \in AllTasks /\ current_task # Idle
         /\ isr = "none" /\ state[current_task] = "RUNNING"
BY SchedulerAssumption DEF IndInv, OneRunner, AppCode, TaskCode, AllTasks

\* The initial state satisfies the inductive invariant.
LEMMA InitIndInv == Init => IndInv
<1> SUFFICES ASSUME Init PROVE IndInv
  OBVIOUS
<1> USE SchedulerAssumption DEF Init
<1>1. 0 \in Priorities /\ Idle \in AllTasks /\ <<Idle>> \in Seq(AllTasks)
  BY DEF Priorities, AllTasks
<1>2. TypeOK
  BY <1>1 DEF TypeOK, TaskStates
<1>3. /\ Len(run_queue[0]) = 1 /\ run_queue[0][1] = Idle /\ run_queue[0] # <<>>
      /\ \A p \in Priorities : p # 0 => run_queue[p] = <<>> /\ Len(run_queue[p]) = 0
  BY <1>1
<1>4. QueuedAreReady /\ ReadyAreQueued /\ QueuedOnce /\ BitmapExact
  BY <1>1, <1>3
  DEF QueuedAreReady, ReadyAreQueued, QueuedOnce, BitmapExact, AllTasks
<1>5. SleepQueueConsistent
  BY DEF SleepQueueConsistent, SleepersQueued, SleepOrder, NothingOverdue
<1>6. OneRunner /\ IdleRunnable
  BY <1>1 DEF OneRunner, IdleRunnable, AllTasks
<1> QED
  BY <1>2, <1>4, <1>5, <1>6 DEF IndInv, RunQueueConsistent

\* task_create keeps the inductive invariant.
LEMMA TaskCreateIndInv ==
  ASSUME IndInv, NEW t \in Tasks, NEW p \in 1 .. MaxPriority, TaskCreate(t, p)
  PROVE  IndInv'
<1> USE DEF IndInv
<1>1. /\ t \in AllTasks /\ p \in Priorities /\ p # 0 /\ t # Idle
      /\ state[t] = "NEW"
  BY SchedulerAssumption DEF AllTasks, Priorities, TaskCreate
<1> DEFINE pr == [priority EXCEPT ![t] = p]
<1>2. /\ QueueTypes(state, priority, run_queue)
      /\ Consistent(state, priority, run_queue, prio_bitmap)
  BY ConsistentIsRunQueueConsistent DEF TypeOK, QueueTypes
<1>3. \A q \in Priorities : \A i \in 1 .. Len(run_queue[q]) :
        run_queue[q][i] # t /\ run_queue[q][i] \in AllTasks
  BY <1>1, <1>2 DEF Consistent, QueueTypes
<1>4. QueueTypes(state, pr, run_queue) /\ pr[t] = p
  BY <1>1, <1>2 DEF QueueTypes
<1>5. \A u \in AllTasks : u # t => pr[u] = priority[u]
  BY <1>2 DEF QueueTypes
<1>6. Consistent(state, pr, run_queue, prio_bitmap)
  <2>1. \A q \in Priorities : \A i \in 1 .. Len(run_queue[q]) :
          pr[run_queue[q][i]] = priority[run_queue[q][i]]
    BY <1>3, <1>5
  <2>2. \A u \in AllTasks : state[u] = "READY" => pr[u] = priority[u]
    BY <1>1, <1>5
  <2> HIDE DEF pr
  <2> QED
    BY <1>2, <2>1, <2>2 DEF Consistent
<1>7. /\ state' = [state EXCEPT ![t] = "READY"] /\ priority' = pr
      /\ run_queue' = RqEnqueue(run_queue, t, p)
      /\ prio_bitmap' = BitmapSet(prio_bitmap, p)
      /\ UNCHANGED <<sleep_queue, wake_in, current_task, slice_ticks,
                     about_to_yield, isr, rearm_pending, alarm_armed>>
  BY DEF TaskCreate
<1> HIDE DEF pr
<1>8. /\ QueueTypes(state', priority', run_queue')
      /\ Consistent(state', priority', run_queue', prio_bitmap')
  BY <1>1, <1>3, <1>4, <1>6, <1>7, EnqueueConsistent
<1>9. TypeOK' /\ RunQueueConsistent'
  <2>1. TypeOK'
    BY <1>7, <1>8 DEF TypeOK, QueueTypes, Consistent
  <2> QED
    BY <1>8, <2>1, ConsistentIsRunQueueConsistent
<1>10. SleepQueueConsistent'
  BY <1>1, <1>7 DEF SleepQueueConsistent, SleepersQueued, SleepOrder, NothingOverdue, TypeOK
<1>11. OneRunner'
  BY <1>1, <1>7 DEF OneRunner, TypeOK
<1>12. IdleRunnable'
  BY <1>1, <1>4, <1>5, <1>7 DEF IdleRunnable, TypeOK, AllTasks
<1> QED
  BY <1>9, <1>10, <1>11, <1>12

\* task_yield, called at once or after a masked section, keeps it.
LEMMA YieldIndInv ==
  ASSUME IndInv, TaskYield \/ YieldAfter
  PROVE  IndInv'
<1> USE DEF IndInv
<1>1. /\ SchedYield
      /\ UNCHANGED <<priority, sleep_queue, wake_in, isr, rearm_pending, alarm_armed>>
      /\ about_to_yield' \in SUBSET Tasks
  BY DEF TaskYield, YieldAfter, TypeOK
<1>2. /\ QueueTypes(state', priority', run_queue')
      /\ Consistent(state', priority', run_queue', prio_bitmap')
      /\ prio_bitmap' \in SUBSET Priorities
      /\ slice_ticks' \in 0 .. TIME_SLICE_TICKS
      /\ current_task' \in AllTasks
      /\ SleepersQueued' /\ SleepOrder' /\ OneRunner' /\ IdleRunnable'
  BY <1>1, YieldStep
<1>3. TypeOK'
  BY <1>1, <1>2 DEF TypeOK, QueueTypes
<1>4. RunQueueConsistent'
  BY <1>2, <1>3, ConsistentIsRunQueueConsistent
<1>5. NothingOverdue'
  BY <1>1 DEF NothingOverdue, SleepQueueConsistent
<1> QED
  BY <1>2, <1>3, <1>4, <1>5 DEF SleepQueueConsistent

\* Exit and blocking keep it.
LEMMA LeaveIndInv ==
  ASSUME IndInv, TaskExit \/ TaskBlock
  PROVE  IndInv'
<1> USE DEF IndInv
<1>1. PICK s \in {"DEAD", "BLOCKED"} :
        /\ AppCode
        /\ state' = [state EXCEPT ![current_task] = s]
        /\ about_to_yield' = about_to_yield \cup {current_task}
        /\ UNCHANGED <<priority, run_queue, prio_bitmap, sleep_queue, wake_in,
                       current_task, slice_ticks, isr, rearm_pending, alarm_armed>>
  BY DEF TaskExit, TaskBlock
<1>2. /\ current_task \in Tasks /\ current_task \in AllTasks /\ current_task # Idle
      /\ state[current_task] = "RUNNING"
  BY <1>1, AppCodeRunning
<1>3. /\ QueueTypes(state', priority', run_queue')
      /\ Consistent(state', priority', run_queue', prio_bitmap')
  <2>1. s \in TaskStates /\ s # "READY"
    BY DEF TaskStates
  <2> QED
    BY <1>1, <2>1, LeaveRunning
<1>4. TypeOK'
  BY <1>1, <1>2, <1>3 DEF TypeOK, QueueTypes
<1>5. RunQueueConsistent'
  BY <1>3, <1>4, ConsistentIsRunQueueConsistent
<1>6. SleepQueueConsistent'
  BY <1>1, <1>2 DEF SleepQueueConsistent, SleepersQueued, SleepOrder, NothingOverdue, TypeOK
<1>7. OneRunner' /\ IdleRunnable'
  BY <1>1, <1>2 DEF OneRunner, IdleRunnable, TypeOK, AllTasks
<1> QED
  BY <1>4, <1>5, <1>6, <1>7

\* Waking a blocked task keeps it.
LEMMA TaskWakeIndInv ==
  ASSUME IndInv, NEW w \in Tasks, TaskWake(w)
  PROVE  IndInv'
<1> USE DEF IndInv
<1>1. /\ AppCode /\ state[w] = "BLOCKED" /\ w \in AllTasks
      /\ state' = [state EXCEPT ![w] = "READY"]
      /\ run_queue' = RqEnqueue(run_queue, w, priority[w])
      /\ prio_bitmap' = BitmapSet(prio_bitmap, priority[w])
      /\ about_to_yield' = about_to_yield \cup {current_task}
      /\ UNCHANGED <<priority, sleep_queue, wake_in, current_task, slice_ticks,
                     isr, rearm_pending, alarm_armed>>
  BY DEF TaskWake, AllTasks
<1>2. current_task \in Tasks /\ current_task # w /\ state[current_task] = "RUNNING"
  BY <1>1, AppCodeRunning
<1>3. /\ QueueTypes(state', priority', run_queue')
      /\ Consistent(state', priority', run_queue', prio_bitmap')
  <2>1. state[w] \notin {"READY", "RUNNING"} /\ priority' = priority
    BY <1>1
  <2> QED
    BY <1>1, <2>1, MakeReady
<1>4. TypeOK'
  <2>1. prio_bitmap' \in SUBSET Priorities
    BY <1>3 DEF Consistent
  <2> QED
    BY <1>1, <1>2, <1>3, <2>1 DEF TypeOK, QueueTypes
<1>5. RunQueueConsistent'
  BY <1>3, <1>4, ConsistentIsRunQueueConsistent
<1>6. SleepQueueConsistent'
  BY <1>1 DEF SleepQueueConsistent, SleepersQueued, SleepOrder, NothingOverdue, TypeOK
<1>7. OneRunner' /\ IdleRunnable'
  BY <1>1, <1>2 DEF OneRunner, IdleRunnable, TypeOK, AllTasks
<1> QED
  BY <1>4, <1>5, <1>6, <1>7

\* task_sleep_ticks: the task is inserted into the sleep queue where the order
\* of the deadlines wants it.
LEMMA TaskSleepIndInv ==
  ASSUME IndInv, NEW ticks \in 1 .. MaxSleep, TaskSleep(ticks)
  PROVE  IndInv'
<1> USE DEF IndInv
<1> DEFINE q == sleep_queue
           c == current_task
           r == sleep_queue'
<1>1. PICK n \in 0 .. Len(q) :
        /\ \A i \in 1 .. n : wake_in[q[i]] <= ticks
        /\ n < Len(q) => wake_in[q[n + 1]] > ticks
        /\ r = SubSeq(q, 1, n) \o <<c>> \o SubSeq(q, n + 1, Len(q))
  BY DEF TaskSleep
<1>2. /\ AppCode
      /\ state' = [state EXCEPT ![c] = "SLEEPING"]
      /\ wake_in' = [wake_in EXCEPT ![c] = ticks]
      /\ about_to_yield' = about_to_yield \cup {c}
      /\ UNCHANGED <<priority, run_queue, prio_bitmap, current_task, slice_ticks,
                     isr, rearm_pending, alarm_armed>>
  BY DEF TaskSleep
<1>3. /\ c \in Tasks /\ c \in AllTasks /\ c # Idle /\ state[c] = "RUNNING"
      /\ isr = "none" /\ ticks \in Int /\ ticks > 0
  BY <1>2, AppCodeRunning, SchedulerAssumption
<1>4. q \in Seq(AllTasks) /\ Len(q) \in Nat /\ n \in Nat /\ n <= Len(q)
  BY DEF TypeOK
<1>5. \A i \in 1 .. Len(q) :
        /\ q[i] \in AllTasks /\ q[i] # c
        /\ wake_in'[q[i]] = wake_in[q[i]] /\ wake_in[q[i]] \in Int
  <2>1. \A i \in 1 .. Len(q) : q[i] \in AllTasks
    BY <1>4
  <2>2. \A i \in 1 .. Len(q) : state[q[i]] = "SLEEPING"
    BY <2>1 DEF SleepQueueConsistent, SleepersQueued
  <2> QED
    BY <1>2, <1>3, <2>1, <2>2 DEF TypeOK
<1>6. wake_in'[c] = ticks
  BY <1>2, <1>3 DEF TypeOK
<1>7. /\ r \in Seq(AllTasks)
      /\ Len(r) = Len(q) + 1
      /\ \A i \in 1 .. n : r[i] = q[i]
      /\ r[n + 1] = c
      /\ \A i \in n + 2 .. Len(q) + 1 : r[i] = q[i - 1]
  <2>1. r = Inserted(q, n, c)
    BY <1>1 DEF Inserted
  <2>2. q \in Seq(AllTasks) /\ c \in AllTasks /\ n \in 0 .. Len(q)
    BY <1>3, <1>4
  <2> HIDE DEF r, q, c
  <2> DEFINE z == Inserted(q, n, c)
  <2>3. z \in Seq(AllTasks) /\ Len(z) = Len(q) + 1
    BY <2>2, InsertProperties
  <2>4. \A i \in 1 .. n : z[i] = q[i]
    BY <2>2, InsertProperties
  <2>5. z[n + 1] = c
    BY <2>2, InsertProperties
  <2>6. \A i \in n + 2 .. Len(q) + 1 : z[i] = q[i - 1]
    BY <2>2, InsertProperties
  <2>7. r = z
    BY <2>1
  <2> HIDE DEF z
  <2> QED
    BY <2>3, <2>4, <2>5, <2>6, <2>7
<1>8. /\ QueueTypes(state', priority', run_queue')
      /\ Consistent(state', priority', run_queue', prio_bitmap')
  <2>1. "SLEEPING" \in TaskStates
    BY DEF TaskStates
  <2> QED
    BY <1>2, <2>1, LeaveRunning
<1>9. TypeOK'
  BY <1>2, <1>3, <1>7, <1>8 DEF TypeOK, QueueTypes
<1>10. RunQueueConsistent'
  BY <1>8, <1>9, ConsistentIsRunQueueConsistent
<1>11. \A i, j \in 1 .. Len(q) :
         i < j => q[i] # q[j] /\ wake_in[q[i]] <= wake_in[q[j]]
  BY DEF SleepQueueConsistent, SleepOrder
<1>12. \A i \in n + 1 .. Len(q) : wake_in[q[i]] > ticks
  <2> SUFFICES ASSUME NEW i \in n + 1 .. Len(q)
               PROVE  wake_in[q[i]] > ticks
    OBVIOUS
  <2>1. /\ n < Len(q) /\ n + 1 \in 1 .. Len(q) /\ i \in 1 .. Len(q)
        /\ n + 1 < i \/ n + 1 = i
    BY <1>4
  <2>2. wake_in[q[n + 1]] > ticks
    BY <1>1, <2>1
  <2>3. wake_in[q[n + 1]] <= wake_in[q[i]]
    BY <1>5, <1>11, <2>1
  <2> QED
    BY <1>3, <1>5, <2>1, <2>2, <2>3
<1> HIDE DEF r, q, c
<1>13. \A i \in 1 .. Len(r) :
         \/ i \in 1 .. n /\ i \in 1 .. Len(q) /\ r[i] = q[i]
         \/ i = n + 1 /\ r[i] = c
         \/ i \in n + 2 .. Len(q) + 1 /\ i - 1 \in n + 1 .. Len(q)
            /\ i - 1 \in 1 .. Len(q) /\ r[i] = q[i - 1]
  BY <1>4, <1>7
<1>14. \A i, j \in 1 .. Len(r) :
         i < j => r[i] # r[j] /\ wake_in'[r[i]] <= wake_in'[r[j]]
  <2> SUFFICES ASSUME NEW i \in 1 .. Len(r), NEW j \in 1 .. Len(r), i < j
               PROVE  r[i] # r[j] /\ wake_in'[r[i]] <= wake_in'[r[j]]
    OBVIOUS
  <2>1. CASE i \in 1 .. n /\ i \in 1 .. Len(q) /\ r[i] = q[i]
    <3>1. CASE j \in 1 .. n /\ j \in 1 .. Len(q) /\ r[j] = q[j]
      BY <1>5, <1>11, <2>1, <3>1
    <3>2. CASE j = n + 1 /\ r[j] = c
      BY <1>1, <1>5, <1>6, <2>1, <3>2 DEF q
    <3>3. CASE /\ j \in n + 2 .. Len(q) + 1 /\ j - 1 \in n + 1 .. Len(q)
               /\ j - 1 \in 1 .. Len(q) /\ r[j] = q[j - 1]
      <4>1. i < j - 1
        BY <1>4, <2>1, <3>3
      <4> QED
        BY <1>5, <1>11, <2>1, <3>3, <4>1
    <3> QED
      BY <1>13, <3>1, <3>2, <3>3
  <2>2. CASE i = n + 1 /\ r[i] = c
    <3>1. j \notin 1 .. n /\ j # n + 1
      BY <1>4, <2>2
    <3>2. /\ j - 1 \in n + 1 .. Len(q) /\ j - 1 \in 1 .. Len(q) /\ r[j] = q[j - 1]
      BY <1>13, <3>1
    <3> QED
      BY <1>3, <1>5, <1>6, <1>12, <2>2, <3>2
  <2>3. CASE /\ i \in n + 2 .. Len(q) + 1 /\ i - 1 \in n + 1 .. Len(q)
             /\ i - 1 \in 1 .. Len(q) /\ r[i] = q[i - 1]
    <3>1. j \notin 1 .. n /\ j # n + 1 /\ i - 1 < j - 1
      BY <1>4, <2>3
    <3>2. j - 1 \in 1 .. Len(q) /\ r[j] = q[j - 1]
      BY <1>13, <3>1
    <3> QED
      BY SMTT(30), <1>5, <1>11, <2>3, <3>1, <3>2
  <2> QED
    BY <1>13, <2>1, <2>2, <2>3
<1>15. SleepOrder'
  BY <1>14 DEF SleepOrder, r
<1>16. \A t \in AllTasks :
         (\E i \in 1 .. Len(r) : r[i] = t) <=> t = c \/ \E i \in 1 .. Len(q) : q[i] = t
  <2> SUFFICES ASSUME NEW t \in AllTasks
               PROVE  (\E i \in 1 .. Len(r) : r[i] = t)
                        <=> t = c \/ \E i \in 1 .. Len(q) : q[i] = t
    OBVIOUS
  <2>1. ASSUME NEW i \in 1 .. Len(r), r[i] = t
        PROVE  t = c \/ \E k \in 1 .. Len(q) : q[k] = t
    BY <1>13, <2>1
  <2>2. ASSUME t = c
        PROVE  \E i \in 1 .. Len(r) : r[i] = t
    <3>1. n + 1 \in 1 .. Len(r)
      BY <1>4, <1>7
    <3> QED
      BY <1>7, <2>2, <3>1
  <2>3. ASSUME NEW k \in 1 .. Len(q), q[k] = t
        PROVE  \E i \in 1 .. Len(r) : r[i] = t
    <3>1. CASE k \in 1 .. n
      <4>1. k \in 1 .. Len(r)
        BY <1>4, <1>7
      <4> QED
        BY <1>7, <2>3, <3>1, <4>1
    <3>2. CASE k \in n + 1 .. Len(q)
      <4>1. k + 1 \in n + 2 .. Len(q) + 1 /\ k + 1 \in 1 .. Len(r) /\ (k + 1) - 1 = k
        BY <1>4, <1>7, <3>2
      <4>2. r[k + 1] = q[k]
        BY <1>7, <4>1
      <4> QED
        BY <2>3, <4>1, <4>2
    <3> QED
      BY <1>4, <3>1, <3>2
  <2> QED
    BY <2>1, <2>2, <2>3
<1>17. SleepersQueued'
  <2>1. \A t \in AllTasks : state'[t] = "SLEEPING" <=> t = c \/ state[t] = "SLEEPING"
    BY <1>2, <1>3 DEF TypeOK, c
  <2>2. \A t \in AllTasks :
          state[t] = "SLEEPING" <=> \E i \in 1 .. Len(q) : q[i] = t
    BY DEF SleepQueueConsistent, SleepersQueued, q
  <2> QED
    BY <1>16, <2>1, <2>2 DEF SleepersQueued, r
<1>18. NothingOverdue'
  <2>1. \A i \in 1 .. Len(q) : wake_in[q[i]] > 0
    BY <1>3 DEF SleepQueueConsistent, NothingOverdue, q
  <2>2. \A i \in 1 .. Len(r) : wake_in'[r[i]] > 0 /\ wake_in'[r[i]] \in Int
    BY <1>3, <1>5, <1>6, <1>13, <2>1
  <2> QED
    BY <2>2 DEF NothingOverdue, r
<1>19. OneRunner' /\ IdleRunnable'
  BY <1>2, <1>3 DEF OneRunner, IdleRunnable, TypeOK, AllTasks, c
<1> QED
  BY <1>9, <1>10, <1>15, <1>17, <1>18, <1>19 DEF SleepQueueConsistent

\* The sleep queue read through the invariant.
LEMMA SleepQueueRead ==
  ASSUME IndInv
  PROVE  /\ sleep_queue \in Seq(AllTasks) /\ Len(sleep_queue) \in Nat
         /\ \A i \in 1 .. Len(sleep_queue) :
              /\ sleep_queue[i] \in AllTasks
              /\ state[sleep_queue[i]] = "SLEEPING"
              /\ wake_in[sleep_queue[i]] \in Int
              /\ wake_in[sleep_queue[i]] >= 0
         /\ \A i, j \in 1 .. Len(sleep_queue) :
              i < j => /\ sleep_queue[i] # sleep_queue[j]
                       /\ wake_in[sleep_queue[i]] <= wake_in[sleep_queue[j]]
<1>1. sleep_queue \in Seq(AllTasks) /\ Len(sleep_queue) \in Nat
  BY DEF IndInv, TypeOK
<1>2. \A i \in 1 .. Len(sleep_queue) : sleep_queue[i] \in AllTasks
  BY <1>1
<1>3. \A i \in 1 .. Len(sleep_queue) :
        /\ state[sleep_queue[i]] = "SLEEPING"
        /\ wake_in[sleep_queue[i]] \in Int
        /\ wake_in[sleep_queue[i]] >= 0
  BY <1>2 DEF IndInv, TypeOK, SleepQueueConsistent, SleepersQueued, NothingOverdue
<1> QED
  BY <1>1, <1>2, <1>3 DEF IndInv, SleepQueueConsistent, SleepOrder

\* The timer interrupt brings every deadline one tick nearer and misses none.
LEMMA TickEnterIndInv ==
  ASSUME IndInv, TickEnter
  PROVE  IndInv'
<1> DEFINE q == sleep_queue
<1>1. /\ isr = "none" /\ isr' = "wake" /\ alarm_armed' \in BOOLEAN
      /\ wake_in' = [t \in AllTasks |->
                       IF state[t] = "SLEEPING" THEN wake_in[t] - 1 ELSE wake_in[t]]
      /\ UNCHANGED <<state, priority, run_queue, prio_bitmap, sleep_queue,
                     current_task, slice_ticks, about_to_yield, rearm_pending>>
  BY SchedulerAssumption DEF TickEnter, TaskCode
<1>2. TypeOK' /\ RunQueueConsistent' /\ OneRunner' /\ IdleRunnable' /\ SleepersQueued'
  <2>1. TypeOK'
    BY <1>1 DEF IndInv, TypeOK
  <2>2. RunQueueConsistent'
    BY <1>1 DEF IndInv, RunQueueConsistent, QueuedAreReady, ReadyAreQueued, QueuedOnce,
                BitmapExact
  <2> QED
    BY <1>1, <2>1, <2>2
       DEF IndInv, OneRunner, IdleRunnable, SleepQueueConsistent, SleepersQueued
<1>3. \A i \in 1 .. Len(q) :
        wake_in[q[i]] \in Int /\ wake_in[q[i]] > 0 /\ wake_in'[q[i]] = wake_in[q[i]] - 1
  <2>1. \A i \in 1 .. Len(q) : wake_in[q[i]] > 0
    BY <1>1 DEF IndInv, SleepQueueConsistent, NothingOverdue
  <2> QED
    BY <1>1, <2>1, SleepQueueRead
<1>4. SleepOrder'
  <2>1. \A i, j \in 1 .. Len(q) : i < j =>
          q[i] # q[j] /\ wake_in'[q[i]] <= wake_in'[q[j]]
    BY <1>3, SleepQueueRead
  <2> QED
    BY <1>1, <2>1 DEF SleepOrder
<1>5. NothingOverdue'
  <2>1. \A i \in 1 .. Len(q) : wake_in'[q[i]] >= 0
    BY <1>3
  <2> QED
    BY <1>1, <2>1 DEF NothingOverdue
<1> QED
  BY <1>2, <1>4, <1>5 DEF IndInv, SleepQueueConsistent

\* Waking the first sleeper in the tick handler.
LEMMA TickWakeOneIndInv ==
  ASSUME IndInv, TickWakeOne
  PROVE  IndInv'
<1> DEFINE q == sleep_queue
           h == Head(sleep_queue)
<1>1. /\ isr = "wake" /\ q # <<>>
      /\ state' = [state EXCEPT ![h] = "READY"]
      /\ run_queue' = RqEnqueue(run_queue, h, priority[h])
      /\ prio_bitmap' = BitmapSet(prio_bitmap, priority[h])
      /\ sleep_queue' = Tail(q)
      /\ UNCHANGED <<priority, wake_in, current_task, slice_ticks, about_to_yield,
                     isr, rearm_pending, alarm_armed>>
  BY DEF TickWakeOne, SleeperDue
<1>2. /\ q \in Seq(AllTasks) /\ Len(q) \in Nat /\ Len(q) > 0 /\ h = q[1]
      /\ Tail(q) \in Seq(AllTasks) /\ Len(Tail(q)) = Len(q) - 1
      /\ \A i \in 1 .. Len(Tail(q)) : Tail(q)[i] = q[i + 1] /\ i + 1 \in 1 .. Len(q)
  BY <1>1, SleepQueueRead
<1>3. h \in AllTasks /\ state[h] = "SLEEPING"
  BY <1>2, SleepQueueRead
<1>4. /\ QueueTypes(state', priority', run_queue')
      /\ Consistent(state', priority', run_queue', prio_bitmap')
  <2>1. state[h] \notin {"READY", "RUNNING"}
    BY <1>3
  <2>2. TypeOK /\ RunQueueConsistent
    BY DEF IndInv
  <2>3. priority' = priority
    BY <1>1
  <2> HIDE DEF h
  <2> QED
    BY <1>1, <1>3, <2>1, <2>2, <2>3, MakeReady
<1>5. TypeOK'
  BY <1>1, <1>2, <1>4 DEF IndInv, TypeOK, QueueTypes, Consistent
<1>6. RunQueueConsistent'
  BY <1>4, <1>5, ConsistentIsRunQueueConsistent
<1>7. \A t \in AllTasks : state'[t] = IF t = h THEN "READY" ELSE state[t]
  BY <1>1, <1>3 DEF IndInv, TypeOK
<1> HIDE DEF h
<1>8. OneRunner' /\ IdleRunnable'
  <2>1. current_task \in AllTasks /\ Idle \in AllTasks
    BY DEF IndInv, TypeOK, AllTasks
  <2>2. OneRunner'
    BY <1>1, <1>3, <1>7, <2>1 DEF IndInv, OneRunner
  <2>3. IdleRunnable'
    BY <1>1, <1>3, <1>7, <2>1 DEF IndInv, IdleRunnable, AllTasks
  <2> QED
    BY <2>2, <2>3
<1>9. SleepersQueued'
  <2>1. \A t \in AllTasks : state[t] = "SLEEPING" <=> \E i \in 1 .. Len(q) : q[i] = t
    BY DEF IndInv, SleepQueueConsistent, SleepersQueued
  <2>2. \A i \in 1 .. Len(Tail(q)) : Tail(q)[i] # h
    <3> SUFFICES ASSUME NEW i \in 1 .. Len(Tail(q))
                 PROVE  Tail(q)[i] # h
      OBVIOUS
    <3>1. i + 1 \in 1 .. Len(q) /\ 1 \in 1 .. Len(q) /\ 1 < i + 1
      BY <1>2
    <3>2. q[1] # q[i + 1]
      BY <3>1, SleepQueueRead
    <3> QED
      BY <1>2, <3>2
  <2>3. ASSUME NEW t \in AllTasks, t # h, NEW i \in 1 .. Len(q), q[i] = t
        PROVE  \E k \in 1 .. Len(Tail(q)) : Tail(q)[k] = t
    <3>1. i # 1
      BY <1>2, <2>3
    <3>2. i - 1 \in 1 .. Len(Tail(q)) /\ (i - 1) + 1 = i
      BY <1>2, <3>1
    <3>3. Tail(q)[i - 1] = q[i]
      BY <1>2, <3>2
    <3> QED
      BY <2>3, <3>2, <3>3
  <2>4. \A t \in AllTasks :
          state'[t] = "SLEEPING" <=> \E i \in 1 .. Len(Tail(q)) : Tail(q)[i] = t
    BY <1>2, <1>7, <2>1, <2>2, <2>3
  <2> QED
    BY <1>1, <2>4 DEF SleepersQueued
<1>10. SleepOrder'
  <2> SUFFICES ASSUME NEW i \in 1 .. Len(Tail(q)), NEW j \in 1 .. Len(Tail(q)), i < j
               PROVE  /\ Tail(q)[i] # Tail(q)[j]
                      /\ wake_in[Tail(q)[i]] <= wake_in[Tail(q)[j]]
    BY <1>1 DEF SleepOrder
  <2>1. /\ i + 1 \in 1 .. Len(q) /\ j + 1 \in 1 .. Len(q) /\ i + 1 < j + 1
        /\ Tail(q)[i] = q[i + 1] /\ Tail(q)[j] = q[j + 1]
    BY <1>2
  <2> QED
    BY <2>1, SleepQueueRead
<1>11. NothingOverdue'
  <2>1. \A i \in 1 .. Len(Tail(q)) : wake_in[Tail(q)[i]] >= 0
    BY <1>2, SleepQueueRead
  <2> QED
    BY <1>1, <2>1 DEF NothingOverdue
<1> QED
  BY <1>5, <1>6, <1>8, <1>9, <1>10, <1>11 DEF IndInv, SleepQueueConsistent

\* When the loop over the sleepers ends, no deadline is left in the past.
LEMMA LoopLeavesNothingOverdue ==
  ASSUME IndInv, ~SleeperDue
  PROVE  \A i \in 1 .. Len(sleep_queue) : wake_in[sleep_queue[i]] > 0
<1> SUFFICES ASSUME NEW i \in 1 .. Len(sleep_queue)
             PROVE  wake_in[sleep_queue[i]] > 0
  OBVIOUS
<1>1. /\ 1 \in 1 .. Len(sleep_queue) /\ sleep_queue # <<>>
      /\ Head(sleep_queue) = sleep_queue[1] /\ (1 = i \/ 1 < i)
  BY SleepQueueRead
<1>2. wake_in[sleep_queue[1]] > 0 /\ wake_in[sleep_queue[1]] \in Int
  BY <1>1, SleepQueueRead DEF SleeperDue
<1> QED
  BY <1>1, <1>2, SleepQueueRead

\* Leaving the handler without a preemption.
LEMMA TickReturnIndInv ==
  ASSUME IndInv, TickReturn
  PROVE  IndInv'
<1>1. /\ isr' = "none" /\ ~SleeperDue /\ alarm_armed' = TRUE
      /\ slice_ticks' = SliceLeft
      /\ UNCHANGED <<state, priority, run_queue, prio_bitmap, sleep_queue, wake_in,
                     current_task, about_to_yield, rearm_pending>>
  BY DEF TickReturn
<1>2. SliceLeft \in 0 .. TIME_SLICE_TICKS
  BY SchedulerAssumption DEF IndInv, TypeOK, SliceLeft
<1>3. TypeOK'
  BY <1>1, <1>2 DEF IndInv, TypeOK
<1>4. RunQueueConsistent'
  BY <1>1 DEF IndInv, RunQueueConsistent, QueuedAreReady, ReadyAreQueued, QueuedOnce,
              BitmapExact
<1>5. NothingOverdue'
  <2>1. \A i \in 1 .. Len(sleep_queue) :
          wake_in[sleep_queue[i]] > 0 /\ wake_in[sleep_queue[i]] >= 0
    BY <1>1, LoopLeavesNothingOverdue, SleepQueueRead
  <2> QED
    BY <1>1, <2>1 DEF NothingOverdue
<1>6. SleepersQueued' /\ SleepOrder' /\ OneRunner' /\ IdleRunnable'
  BY <1>1 DEF IndInv, SleepQueueConsistent, SleepersQueued, SleepOrder, OneRunner,
              IdleRunnable
<1> QED
  BY <1>3, <1>4, <1>5, <1>6 DEF IndInv, SleepQueueConsistent

\* Leaving the handler through sched_yield_from_isr.
LEMMA TickPreemptIndInv ==
  ASSUME IndInv, TickPreempt
  PROVE  IndInv'
<1>1. /\ isr' = "none" /\ ~SleeperDue /\ SchedYield
      /\ UNCHANGED <<priority, sleep_queue, wake_in, about_to_yield>>
  BY DEF TickPreempt
<1>2. alarm_armed' \in BOOLEAN /\ rearm_pending' \in SUBSET AllTasks
  BY DEF TickPreempt, IndInv, TypeOK
<1>3. /\ QueueTypes(state', priority', run_queue')
      /\ Consistent(state', priority', run_queue', prio_bitmap')
      /\ prio_bitmap' \in SUBSET Priorities
      /\ slice_ticks' \in 0 .. TIME_SLICE_TICKS
      /\ current_task' \in AllTasks
      /\ SleepersQueued' /\ SleepOrder' /\ OneRunner' /\ IdleRunnable'
  BY <1>1, YieldStep
<1>4. TypeOK'
  BY <1>1, <1>2, <1>3 DEF IndInv, TypeOK, QueueTypes
<1>5. RunQueueConsistent'
  BY <1>3, <1>4, ConsistentIsRunQueueConsistent
<1>6. NothingOverdue'
  <2>1. \A i \in 1 .. Len(sleep_queue) :
          wake_in[sleep_queue[i]] > 0 /\ wake_in[sleep_queue[i]] >= 0
    BY <1>1, LoopLeavesNothingOverdue, SleepQueueRead
  <2> QED
    BY <1>1, <2>1 DEF NothingOverdue
<1> QED
  BY <1>3, <1>4, <1>5, <1>6 DEF IndInv, SleepQueueConsistent

\* The tail of the handler after the preempted task has been resumed.
LEMMA TickResumeIndInv ==
  ASSUME IndInv, TickResume
  PROVE  IndInv'
<1>1. /\ alarm_armed' = TRUE /\ rearm_pending' = rearm_pending \ {current_task}
      /\ UNCHANGED <<state, priority, run_queue, prio_bitmap, sleep_queue, wake_in,
                     current_task, slice_ticks, about_to_yield, isr>>
  BY DEF TickResume
<1>2. TypeOK'
  BY <1>1 DEF IndInv, TypeOK
<1>3. RunQueueConsistent'
  BY <1>1 DEF IndInv, RunQueueConsistent, QueuedAreReady, ReadyAreQueued, QueuedOnce,
              BitmapExact
<1>4. SleepQueueConsistent' /\ OneRunner' /\ IdleRunnable'
  BY <1>1 DEF IndInv, SleepQueueConsistent, SleepersQueued, SleepOrder, NothingOverdue,
              OneRunner, IdleRunnable
<1> QED
  BY <1>2, <1>3, <1>4 DEF IndInv

\* Every step keeps the inductive invariant.
LEMMA NextIndInv ==
  ASSUME IndInv, [Next]_schedVars
  PROVE  IndInv'
<1>1. ASSUME NEW t \in Tasks, NEW p \in 1 .. MaxPriority, TaskCreate(t, p)
      PROVE  IndInv'
  BY <1>1, TaskCreateIndInv
<1>2. CASE TaskYield \/ YieldAfter
  BY <1>2, YieldIndInv
<1>3. ASSUME NEW ticks \in 1 .. MaxSleep, TaskSleep(ticks)
      PROVE  IndInv'
  BY <1>3, TaskSleepIndInv
<1>4. CASE TaskExit \/ TaskBlock
  BY <1>4, LeaveIndInv
<1>5. ASSUME NEW w \in Tasks, TaskWake(w)
      PROVE  IndInv'
  BY <1>5, TaskWakeIndInv
<1>6. CASE Tick
  BY <1>6, TickEnterIndInv, TickWakeOneIndInv, TickReturnIndInv, TickPreemptIndInv,
     TickResumeIndInv DEF Tick
<1>7. CASE UNCHANGED schedVars
  BY <1>7 DEF schedVars, IndInv, TypeOK, RunQueueConsistent, QueuedAreReady,
              ReadyAreQueued, QueuedOnce, BitmapExact, SleepQueueConsistent,
              SleepersQueued, SleepOrder, NothingOverdue, OneRunner, IdleRunnable
<1> QED
  BY <1>1, <1>2, <1>3, <1>4, <1>5, <1>6, <1>7 DEF Next

(***************************************************************************)
(* The theorems.                                                           *)
(***************************************************************************)

\* The inductive invariant holds in every reachable state, for any number of
\* tasks, priority levels and ticks in a slice.
THEOREM SchedulerInductive == Spec => []IndInv
<1>1. Init => IndInv
  BY InitIndInv
<1>2. IndInv /\ [Next]_schedVars => IndInv'
  BY NextIndInv
<1> QED
  BY <1>1, <1>2, PTL DEF Spec

\* Every variable of the scheduler keeps its type.
THEOREM SchedulerTypeOK == Spec => []TypeOK
<1>1. IndInv => TypeOK
  BY DEF IndInv
<1> QED
  BY <1>1, SchedulerInductive, PTL

\* rq_enqueue and rq_remove lose no ready task, link none twice, and keep
\* s_prio_bitmap exact.
THEOREM RunQueuesStayConsistent == Spec => []RunQueueConsistent
<1>1. IndInv => RunQueueConsistent
  BY DEF IndInv
<1> QED
  BY <1>1, SchedulerInductive, PTL

\* sleep_enqueue and the loop of sched_tick_isr keep the sleep queue sorted,
\* complete and free of deadlines in the past.
THEOREM SleepQueueStaysConsistent == Spec => []SleepQueueConsistent
<1>1. IndInv => SleepQueueConsistent
  BY DEF IndInv
<1> QED
  BY <1>1, SchedulerInductive, PTL

\* Nothing but the current task is ever RUNNING.
THEOREM OneTaskRuns == Spec => []OneRunner
<1>1. IndInv => OneRunner
  BY DEF IndInv
<1> QED
  BY <1>1, SchedulerInductive, PTL

\* A switch of tasks goes to the highest priority that is ready.
LEMMA SwitchToHighest ==
  ASSUME IndInv, [Next]_schedVars, current_task' # current_task
  PROVE  \A t \in AllTasks : state'[t] = "READY" => priority'[t] <= priority'[current_task']
<1>1. TaskYield \/ YieldAfter \/ TickPreempt
  BY DEF Next, schedVars, TaskCreate, TaskSleep, TaskExit, TaskBlock, TaskWake, Tick,
         TickEnter, TickWakeOne, TickReturn, TickResume
<1>2. SchedYield /\ priority' = priority
  BY <1>1 DEF TaskYield, YieldAfter, TickPreempt
<1> QED
  BY <1>2, SchedYieldCorrect DEF IndInv

\* sched_yield_from_isr switches to a task of the highest ready priority.
THEOREM DispatchesHighest == Spec => DispatchHighest
<1>1. IndInv /\ [Next]_schedVars =>
        [current_task' # current_task =>
           \A t \in AllTasks :
             state'[t] = "READY" => priority'[t] <= priority'[current_task']]_schedVars
  BY SwitchToHighest
<1> QED
  BY <1>1, SchedulerInductive, PTL DEF Spec, DispatchHighest

\* The tick handler returns to no task while a ready one has a higher priority.
LEMMA TickLeavesHighest ==
  ASSUME IndInv, [Next]_schedVars, isr = "wake", isr' = "none"
  PROVE  \A t \in AllTasks : state'[t] = "READY" => priority'[t] <= priority'[current_task']
<1>1. TickReturn \/ TickPreempt
  BY DEF Next, schedVars, TaskCreate, TaskYield, YieldAfter, TaskSleep, TaskExit, TaskBlock,
         TaskWake, Tick, TickEnter, TickWakeOne, TickResume, AppCode, TaskCode
<1>2. CASE TickPreempt
  <2>1. SchedYield /\ priority' = priority
    BY <1>2 DEF TickPreempt
  <2> QED
    BY <2>1, SchedYieldCorrect DEF IndInv
<1>3. CASE TickReturn
  <2> SUFFICES ASSUME NEW t \in AllTasks, state[t] = "READY"
               PROVE  priority[t] <= priority[current_task]
    BY <1>3 DEF TickReturn
  <2>1. /\ priority[t] \in Priorities
        /\ priority[t] \in Int /\ priority[current_task] \in Int
    BY SchedulerAssumption DEF IndInv, TypeOK, Priorities
  <2>2. run_queue[priority[t]] \in Seq(AllTasks)
    BY <2>1 DEF IndInv, TypeOK
  <2>3. run_queue[priority[t]] # <<>>
    BY <2>2 DEF IndInv, RunQueueConsistent, ReadyAreQueued
  <2>4. priority[t] \in prio_bitmap
    BY <2>1, <2>3 DEF IndInv, RunQueueConsistent, BitmapExact
  <2>5. ~(priority[t] > priority[current_task])
    BY <1>3, <2>4 DEF TickReturn, MustPreempt
  <2> QED
    BY <2>1, <2>5
<1> QED
  BY <1>1, <1>2, <1>3

\* No priority inversion survives a tick.
THEOREM NoInversionSurvivesTick == Spec => NoInversionAfterTick
<1>1. IndInv /\ [Next]_schedVars =>
        [(isr = "wake" /\ isr' = "none") =>
           \A t \in AllTasks :
             state'[t] = "READY" => priority'[t] <= priority'[current_task']]_schedVars
  BY TickLeavesHighest
<1> QED
  BY <1>1, SchedulerInductive, PTL DEF Spec, NoInversionAfterTick

\* A task stops sleeping when its deadline is reached.
LEMMA WakesAtDeadline ==
  ASSUME IndInv, [Next]_schedVars, NEW t \in AllTasks,
         state[t] = "SLEEPING", state'[t] # "SLEEPING"
  PROVE  wake_in[t] = 0
<1>1. ASSUME NEW u \in Tasks, NEW p \in 1 .. MaxPriority, TaskCreate(u, p)
      PROVE  FALSE
  BY <1>1 DEF TaskCreate, IndInv, TypeOK
<1>2. CASE TaskYield \/ YieldAfter \/ TickPreempt
  <2>1. SchedYield
    BY <1>2 DEF TaskYield, YieldAfter, TickPreempt
  <2> QED
    BY <2>1, SchedYieldCorrect DEF IndInv
<1>3. ASSUME NEW ticks \in 1 .. MaxSleep, TaskSleep(ticks)
      PROVE  FALSE
  <2>1. state' = [state EXCEPT ![current_task] = "SLEEPING"]
    BY <1>3 DEF TaskSleep
  <2> QED
    BY <2>1 DEF IndInv, TypeOK
<1>4. CASE TaskExit \/ TaskBlock
  <2>1. state[current_task] = "RUNNING"
    BY <1>4, AppCodeRunning DEF TaskExit, TaskBlock
  <2>2. state'[t] = state[t]
    BY <1>4, <2>1 DEF TaskExit, TaskBlock, IndInv, TypeOK
  <2> QED
    BY <2>2
<1>5. ASSUME NEW w \in Tasks, TaskWake(w)
      PROVE  FALSE
  BY <1>5 DEF TaskWake, IndInv, TypeOK
<1>6. CASE TickWakeOne
  <2>1. /\ sleep_queue # <<>> /\ wake_in[Head(sleep_queue)] <= 0
        /\ state' = [state EXCEPT ![Head(sleep_queue)] = "READY"]
    BY <1>6 DEF TickWakeOne, SleeperDue
  <2>2. /\ 1 \in 1 .. Len(sleep_queue) /\ Head(sleep_queue) = sleep_queue[1]
    BY <2>1, SleepQueueRead
  <2>3. wake_in[Head(sleep_queue)] \in Int /\ wake_in[Head(sleep_queue)] >= 0
    BY <2>2, SleepQueueRead
  <2>4. t = Head(sleep_queue)
    BY <2>1 DEF IndInv, TypeOK
  <2> QED
    BY <2>1, <2>3, <2>4
<1>7. CASE TickEnter \/ TickReturn \/ TickResume \/ UNCHANGED schedVars
  BY <1>7 DEF TickEnter, TickReturn, TickResume, schedVars
<1> QED
  BY <1>1, <1>2, <1>3, <1>4, <1>5, <1>6, <1>7 DEF Next, Tick

\* task_sleep_ticks never returns a tick early and never oversleeps.
THEOREM SleepersAreWokenOnTime == Spec => SleepersWakeOnTime
<1>1. IndInv /\ [Next]_schedVars =>
        [\A t \in AllTasks :
           (state[t] = "SLEEPING" /\ state'[t] # "SLEEPING") => wake_in[t] = 0]_schedVars
  BY WakesAtDeadline
<1> QED
  BY <1>1, SchedulerInductive, PTL DEF Spec, SleepersWakeOnTime
==============================================================================
