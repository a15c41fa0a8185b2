------------------------------ MODULE Scheduler ------------------------------
(***************************************************************************)
(* The preemptive priority scheduler of kernel/scheduler.c on one core:    *)
(* run queues with a priority bitmap, the sleep queue, the 1 kHz tick      *)
(* interrupt and the context switch.                                       *)
(*                                                                         *)
(* Code between irq_save() and irq_restore() is one action; a task that    *)
(* has left such a section but has not yet reached its task_yield() is in  *)
(* `about_to_yield', and the tick may interrupt it there.  The wake-up     *)
(* loop of the tick handler takes one action per sleeper; interrupts are   *)
(* masked, so while `isr' is not "none" nothing else runs.                 *)
(*                                                                         *)
(* Time is relative: wake_in[t] stands for t->wake_tick - tick_count.      *)
(* Blocking on and being woken from a wait list are included as Block and  *)
(* Wake; the wait lists themselves belong to the synchronisation modules.  *)
(***************************************************************************)
EXTENDS Integers, Sequences, FiniteSets

CONSTANTS
  Tasks,             (* TCBs handed to task_create by the application       *)
  Idle,              (* s_idle_tcb                                          *)
  MaxPriority,       (* MAX_PRIORITY_LEVELS - 1                             *)
  TIME_SLICE_TICKS,
  MaxSleep,          (* largest argument of task_sleep_ticks explored       *)
  OneShotAlarm       (* TRUE: TIMG0 fires once for each arming; FALSE: it   *)
                     (* keeps firing every period                           *)

ASSUME SchedulerAssumption ==
  /\ Idle \notin Tasks
  /\ MaxPriority \in Nat \ {0}
  /\ TIME_SLICE_TICKS \in Nat \ {0}
  /\ MaxSleep \in Nat \ {0}
  /\ OneShotAlarm \in BOOLEAN

VARIABLES
  state,             (* task_tcb_t.state; "NEW" before task_create          *)
  priority,          (* task_tcb_t.priority                                 *)
  run_queue,         (* per level, the circular list read from its head     *)
  prio_bitmap,       (* the levels whose bit is set in s_prio_bitmap        *)
  sleep_queue,       (* the list of sleepers from its head                  *)
  wake_in,           (* wake_tick - tick_count                              *)
  current_task,
  slice_ticks,       (* of the current task, the only one that is read      *)
  about_to_yield,    (* tasks between irq_restore() and task_yield()        *)
  isr,               (* "wake" while sched_tick_isr pops sleepers           *)
  rearm_pending,     (* preempted tasks whose tick handler has yet to run   *)
                     (* its last line                                       *)
  alarm_armed        (* TIMG0 will raise the next tick                      *)

schedVars == <<state, priority, run_queue, prio_bitmap, sleep_queue, wake_in,
               current_task, slice_ticks, about_to_yield, isr, rearm_pending,
               alarm_armed>>

AllTasks   == Tasks \cup {Idle}
Priorities == 0 .. MaxPriority
TaskStates == {"NEW", "READY", "RUNNING", "BLOCKED", "SLEEPING", "DEAD"}

(***************************************************************************)
(* Run queues.                                                             *)
(***************************************************************************)

\* A slip: the task is linked in front of the head instead of behind the tail.
RqEnqueueAtHead(rq, t, p) == [rq EXCEPT ![p] = <<t>> \o @]

\* The queues after rq_enqueue(t).  kernel_start leaves the idle task linked
\* to itself in level 0; linking such a node behind itself changes nothing.
RqEnqueue(rq, t, p) ==
  IF rq[p] = <<t>> THEN rq ELSE [rq EXCEPT ![p] = Append(@, t)]

\* The queues after rq_remove of the head of level p.
RqRemoveHead(rq, p) == [rq EXCEPT ![p] = Tail(@)]

\* The bitmap after rq_enqueue at level p.
BitmapSet(bm, p) == bm \cup {p}

\* A slip: the bit is cleared while the level still holds tasks.
BitmapAlwaysCleared(bm, rq, p) == bm \ {p}

\* The bitmap after rq_remove of the head of level p of rq.
BitmapRemoveHead(bm, rq, p) == IF Len(rq[p]) = 1 THEN bm \ {p} ELSE bm

\* p is the level prio_highest() returns for the bitmap bm.
IsPrioHighest(p, bm) == p \in bm /\ \A q \in bm : q <= p

\* The outgoing task is still runnable and goes back to its run queue.
Requeued == state[current_task] = "RUNNING"

(***************************************************************************)
(* sched_yield_from_isr(): put the outgoing task back if it can run, take  *)
(* the head of the highest level, and switch to it with a fresh slice.     *)
(***************************************************************************)
SchedYield ==
  LET old == current_task
      p   == priority[old]
      st  == IF Requeued THEN [state EXCEPT ![old] = "READY"] ELSE state
      rq  == IF Requeued THEN RqEnqueue(run_queue, old, p) ELSE run_queue
      bm  == IF Requeued THEN BitmapSet(prio_bitmap, p) ELSE prio_bitmap
  IN  /\ slice_ticks' = TIME_SLICE_TICKS
      /\ \/ /\ bm = {}
            /\ current_task' = Idle
            /\ state' = [st EXCEPT ![Idle] = "RUNNING"]
            /\ run_queue' = rq
            /\ prio_bitmap' = bm
         \/ \E hp \in Priorities :
              /\ IsPrioHighest(hp, bm)
              /\ current_task' = Head(rq[hp])
              /\ state' = [st EXCEPT ![Head(rq[hp])] = "RUNNING"]
              /\ run_queue' = RqRemoveHead(rq, hp)
              /\ prio_bitmap' = BitmapRemoveHead(bm, rq, hp)

(***************************************************************************)
(* Steps of the running task.                                              *)
(***************************************************************************)

\* Task code is executing: no handler is active and the tail of a tick
\* handler that once preempted this task has been run.
TaskCode == isr = "none" /\ current_task \notin rearm_pending

\* A slip: the body of the idle task enters the kernel.
AppCodeOrIdle == TaskCode /\ current_task \notin about_to_yield

\* Application code is executing, outside every kernel call.
AppCode ==
  /\ TaskCode
  /\ current_task \in Tasks
  /\ current_task \notin about_to_yield

\* task_create(t, ..., p): the arguments are valid; no immediate preemption.
TaskCreate(t, p) ==
  /\ TaskCode
  /\ current_task \notin about_to_yield
  /\ state[t] = "NEW"
  /\ state' = [state EXCEPT ![t] = "READY"]
  /\ priority' = [priority EXCEPT ![t] = p]
  /\ run_queue' = RqEnqueue(run_queue, t, p)
  /\ prio_bitmap' = BitmapSet(prio_bitmap, p)
  /\ UNCHANGED <<sleep_queue, wake_in, current_task, slice_ticks,
                 about_to_yield, isr, rearm_pending, alarm_armed>>

\* task_yield() called by the application.
TaskYield ==
  /\ AppCode
  /\ SchedYield
  /\ UNCHANGED <<priority, sleep_queue, wake_in, about_to_yield, isr,
                 rearm_pending, alarm_armed>>

\* The masked part of task_sleep_ticks(ticks), ticks > 0; sleep_enqueue puts
\* the task behind the sleepers that wake no later than it.
TaskSleep(ticks) ==
  /\ AppCode
  /\ state' = [state EXCEPT ![current_task] = "SLEEPING"]
  /\ wake_in' = [wake_in EXCEPT ![current_task] = ticks]
  /\ \E n \in 0 .. Len(sleep_queue) :
       /\ \A i \in 1 .. n : wake_in[sleep_queue[i]] <= ticks
       /\ n < Len(sleep_queue) => wake_in[sleep_queue[n + 1]] > ticks
       /\ sleep_queue' = SubSeq(sleep_queue, 1, n) \o <<current_task>>
                           \o SubSeq(sleep_queue, n + 1, Len(sleep_queue))
  /\ about_to_yield' = about_to_yield \cup {current_task}
  /\ UNCHANGED <<priority, run_queue, prio_bitmap, current_task, slice_ticks,
                 isr, rearm_pending, alarm_armed>>

\* The masked part of task_exit_hook().
TaskExit ==
  /\ AppCode
  /\ state' = [state EXCEPT ![current_task] = "DEAD"]
  /\ about_to_yield' = about_to_yield \cup {current_task}
  /\ UNCHANGED <<priority, run_queue, prio_bitmap, sleep_queue, wake_in,
                 current_task, slice_ticks, isr, rearm_pending, alarm_armed>>

\* The masked part of a k_sem_take or k_mutex_lock that has to wait.
TaskBlock ==
  /\ AppCode
  /\ state' = [state EXCEPT ![current_task] = "BLOCKED"]
  /\ about_to_yield' = about_to_yield \cup {current_task}
  /\ UNCHANGED <<priority, run_queue, prio_bitmap, sleep_queue, wake_in,
                 current_task, slice_ticks, isr, rearm_pending, alarm_armed>>

\* The masked part of a k_sem_give or k_mutex_unlock that finds the waiter w.
TaskWake(w) ==
  /\ AppCode
  /\ state[w] = "BLOCKED"
  /\ state' = [state EXCEPT ![w] = "READY"]
  /\ run_queue' = RqEnqueue(run_queue, w, priority[w])
  /\ prio_bitmap' = BitmapSet(prio_bitmap, priority[w])
  /\ about_to_yield' = about_to_yield \cup {current_task}
  /\ UNCHANGED <<priority, sleep_queue, wake_in, current_task, slice_ticks,
                 isr, rearm_pending, alarm_armed>>

\* The task_yield() that ends a sleep, an exit, a wait or a wake-up.
YieldAfter ==
  /\ TaskCode
  /\ current_task \in about_to_yield
  /\ SchedYield
  /\ about_to_yield' = about_to_yield \ {current_task}
  /\ UNCHANGED <<priority, sleep_queue, wake_in, isr, rearm_pending,
                 alarm_armed>>

(***************************************************************************)
(* sched_tick_isr().                                                       *)
(***************************************************************************)

\* The timer interrupt: tick_count++.
TickEnter ==
  /\ TaskCode
  /\ alarm_armed
  /\ wake_in' = [t \in AllTasks |->
                   IF state[t] = "SLEEPING" THEN wake_in[t] - 1 ELSE wake_in[t]]
  /\ isr' = "wake"
  /\ alarm_armed' = ~OneShotAlarm
  /\ UNCHANGED <<state, priority, run_queue, prio_bitmap, sleep_queue,
                 current_task, slice_ticks, about_to_yield, rearm_pending>>

\* A slip: tick_count is read after a second increment.
SleeperDueNext == sleep_queue # <<>> /\ wake_in[Head(sleep_queue)] <= 1

\* The condition of the loop over the sleep queue.
SleeperDue == sleep_queue # <<>> /\ wake_in[Head(sleep_queue)] <= 0

\* One iteration of the loop over the sleep queue.
TickWakeOne ==
  /\ isr = "wake"
  /\ SleeperDue
  /\ LET t == Head(sleep_queue)
     IN  /\ state' = [state EXCEPT ![t] = "READY"]
         /\ run_queue' = RqEnqueue(run_queue, t, priority[t])
         /\ prio_bitmap' = BitmapSet(prio_bitmap, priority[t])
  /\ sleep_queue' = Tail(sleep_queue)
  /\ UNCHANGED <<priority, wake_in, current_task, slice_ticks, about_to_yield,
                 isr, rearm_pending, alarm_armed>>

\* slice_ticks after the decrement of the tick.
SliceLeft == IF slice_ticks > 0 THEN slice_ticks - 1 ELSE 0

\* A slip: only the end of the slice preempts.
SliceUsedUp == SliceLeft = 0

\* The slice is used up, or a task of higher priority is ready.
MustPreempt ==
  \/ SliceLeft = 0
  \/ \E p \in prio_bitmap : p > priority[current_task]

\* The rest of the handler without a preemption: the alarm is armed again.
TickReturn ==
  /\ isr = "wake"
  /\ ~SleeperDue
  /\ ~MustPreempt
  /\ slice_ticks' = SliceLeft
  /\ isr' = "none"
  /\ alarm_armed' = TRUE
  /\ UNCHANGED <<state, priority, run_queue, prio_bitmap, sleep_queue, wake_in,
                 current_task, about_to_yield, rearm_pending>>

\* The rest of the handler with a preemption.  The last line, which arms the
\* alarm, comes after context_switch(): it runs when the preempted task is
\* resumed, or at once when sched_yield_from_isr picks the same task again.
TickPreempt ==
  /\ isr = "wake"
  /\ ~SleeperDue
  /\ MustPreempt
  /\ SchedYield
  /\ isr' = "none"
  /\ IF current_task' = current_task
     THEN alarm_armed' = TRUE /\ UNCHANGED rearm_pending
     ELSE /\ rearm_pending' = rearm_pending \cup {current_task}
          /\ UNCHANGED alarm_armed
  /\ UNCHANGED <<priority, sleep_queue, wake_in, about_to_yield>>

\* The last line of the handler, on the stack of a task that was preempted.
TickResume ==
  /\ isr = "none"
  /\ current_task \in rearm_pending
  /\ rearm_pending' = rearm_pending \ {current_task}
  /\ alarm_armed' = TRUE
  /\ UNCHANGED <<state, priority, run_queue, prio_bitmap, sleep_queue, wake_in,
                 current_task, slice_ticks, about_to_yield, isr>>

(***************************************************************************)
(* The specification.  The initial state is the one kernel_init and        *)
(* kernel_start leave: the idle task runs and is still linked in level 0.  *)
(***************************************************************************)
Init ==
  /\ state = [t \in AllTasks |-> IF t = Idle THEN "RUNNING" ELSE "NEW"]
  /\ priority = [t \in AllTasks |-> 0]
  /\ run_queue = [p \in Priorities |-> IF p = 0 THEN <<Idle>> ELSE <<>>]
  /\ prio_bitmap = {0}
  /\ sleep_queue = <<>>
  /\ wake_in = [t \in AllTasks |-> 0]
  /\ current_task = Idle
  /\ slice_ticks = TIME_SLICE_TICKS
  /\ about_to_yield = {}
  /\ isr = "none"
  /\ rearm_pending = {}
  /\ alarm_armed = TRUE

Tick == TickEnter \/ TickWakeOne \/ TickReturn \/ TickPreempt \/ TickResume

\* The application creates its tasks with the priorities 1 to 7.
Next ==
  \/ \E t \in Tasks, p \in 1 .. MaxPriority : TaskCreate(t, p)
  \/ TaskYield
  \/ \E ticks \in 1 .. MaxSleep : TaskSleep(ticks)
  \/ TaskExit
  \/ TaskBlock
  \/ \E w \in Tasks : TaskWake(w)
  \/ YieldAfter
  \/ Tick

Spec == Init /\ [][Next]_schedVars

\* The processor executes the handler it has entered and the kernel call it
\* is in, and the timer keeps ticking.  Nothing is assumed of application
\* code, which may run for ever without calling the kernel.
FairSpec == Spec /\ WF_schedVars(Tick) /\ WF_schedVars(YieldAfter)

-----------------------------------------------------------------------------
(***************************************************************************)
(* Properties.                                                             *)
(***************************************************************************)

\* Every variable has its type.
TypeOK ==
  /\ state \in [AllTasks -> TaskStates]
  /\ priority \in [AllTasks -> Priorities]
  /\ run_queue \in [Priorities -> Seq(AllTasks)]
  /\ prio_bitmap \in SUBSET Priorities
  /\ sleep_queue \in Seq(AllTasks)
  /\ wake_in \in [AllTasks -> Int]
  /\ current_task \in AllTasks
  /\ slice_ticks \in 0 .. TIME_SLICE_TICKS
  /\ about_to_yield \in SUBSET Tasks
  /\ isr \in {"none", "wake"}
  /\ rearm_pending \in SUBSET AllTasks
  /\ alarm_armed \in BOOLEAN

\* What is linked in level p is a task of priority p waiting for the processor;
\* the idle task stays linked while it runs for the first time.
QueuedAreReady ==
  \A p \in Priorities : \A i \in 1 .. Len(run_queue[p]) :
    LET t == run_queue[p][i]
    IN  /\ priority[t] = p
        /\ state[t] = "READY" \/ (t = Idle /\ state[t] = "RUNNING")

\* No ready task is lost: each is linked in the level of its priority.
ReadyAreQueued ==
  \A t \in AllTasks : state[t] = "READY" =>
    \E i \in 1 .. Len(run_queue[priority[t]]) : run_queue[priority[t]][i] = t

\* No task is linked twice.
QueuedOnce ==
  \A p \in Priorities : \A i, j \in 1 .. Len(run_queue[p]) :
    run_queue[p][i] = run_queue[p][j] => i = j

\* The bitmap tells exactly which levels hold a task.
BitmapExact == prio_bitmap = {p \in Priorities : run_queue[p] # <<>>}

\* The run queues, the task states and the bitmap agree after every step of
\* any interleaving of kernel calls and ticks: nothing is lost or run twice.
RunQueueConsistent ==
  /\ QueuedAreReady
  /\ ReadyAreQueued
  /\ QueuedOnce
  /\ BitmapExact

\* The sleep queue holds exactly the sleeping tasks.
SleepersQueued ==
  \A t \in AllTasks :
    state[t] = "SLEEPING" <=> \E i \in 1 .. Len(sleep_queue) : sleep_queue[i] = t

\* It holds each of them once, in the order of their deadlines.
SleepOrder ==
  \A i, j \in 1 .. Len(sleep_queue) :
    i < j => /\ sleep_queue[i] # sleep_queue[j]
             /\ wake_in[sleep_queue[i]] <= wake_in[sleep_queue[j]]

\* Outside the tick handler no deadline has passed, and inside none was missed
\* by an earlier tick.
NothingOverdue ==
  \A i \in 1 .. Len(sleep_queue) :
    /\ wake_in[sleep_queue[i]] >= 0
    /\ isr = "none" => wake_in[sleep_queue[i]] > 0

\* The sleep queue agrees with the task states, is sorted and is never late,
\* whatever the interleaving of sleeping, waking and ticks.
SleepQueueConsistent == SleepersQueued /\ SleepOrder /\ NothingOverdue

\* One task has the processor: nothing else is RUNNING, and the current task
\* is RUNNING except between leaving a masked section and its task_yield().
OneRunner ==
  /\ \A t \in AllTasks : state[t] = "RUNNING" => t = current_task
  /\ state[current_task] # "RUNNING" => current_task \in about_to_yield

\* The idle task always can run, and level 0 is its own.
IdleRunnable ==
  /\ state[Idle] \in {"READY", "RUNNING"}
  /\ priority[Idle] = 0
  /\ \A t \in Tasks : state[t] # "NEW" => priority[t] # 0

\* The inductive invariant: sched_yield_from_isr finds a task to run because
\* the idle task is always runnable, and links what it puts back only once
\* because level 0 holds nothing else.
IndInv ==
  /\ TypeOK
  /\ RunQueueConsistent
  /\ SleepQueueConsistent
  /\ OneRunner
  /\ IdleRunnable

\* A context switch hands the processor to a task of the highest priority
\* among those that are ready (README, "O(1): best = 31 - CLZ(prio_bitmap)").
DispatchHighest ==
  [][ current_task' # current_task =>
        \A t \in AllTasks :
          state'[t] = "READY" => priority'[t] <= priority'[current_task'] ]_schedVars

\* When the tick handler returns to task code, no ready task has a higher
\* priority than the task it returns to: a task readied without preemption,
\* by task_create or by the handler itself, waits no longer than that.
NoInversionAfterTick ==
  [][ (isr = "wake" /\ isr' = "none") =>
        \A t \in AllTasks :
          state'[t] = "READY" => priority'[t] <= priority'[current_task'] ]_schedVars

\* A sleeper is woken at its deadline, neither a tick early nor a tick late,
\* also when the tick arrives before the task has left task_sleep_ticks.
SleepersWakeOnTime ==
  [][ \A t \in AllTasks :
        (state[t] = "SLEEPING" /\ state'[t] # "SLEEPING") => wake_in[t] = 0 ]_schedVars

\* A task of the highest priority that is ready or asleep gets the processor:
\* deadlines are met with and tasks of equal priority take turns, however
\* long the others run without calling the kernel.
HighestPriorityRuns ==
  \A t \in Tasks :
    (priority[t] = MaxPriority /\ state[t] \in {"READY", "SLEEPING"})
      ~> (current_task = t)
==============================================================================
