-------------------------------- MODULE KMutex -------------------------------
(***************************************************************************)
(* A mutex of kernel/scheduler.c shared by tasks of the preemptive         *)
(* scheduler, down to the links of the TCBs: a TCB has one field next,     *)
(* which links it in a run queue or in the wait list of the mutex, and     *)
(* priority inheritance changes the field that tells which run queue.      *)
(*                                                                         *)
(* As in Scheduler, a masked section is one action, and a task between     *)
(* such a section and its task_yield() is in `about_to_yield'.  The tasks  *)
(* of this module do not sleep or exit, and the timer is periodic; these   *)
(* are the subject of Scheduler.                                           *)
(***************************************************************************)
EXTENDS Integers, Sequences, FiniteSets

CONSTANTS
  Tasks, Idle, NULL,
  MaxPriority,
  BasePriorities,    (* the priorities the application creates tasks with   *)
  TIME_SLICE_TICKS,
  LockTimeouts,      (* the arguments tms of k_mutex_lock                   *)
  K_FOREVER

K_NO_WAIT == 0

ASSUME KMutexAssumption ==
  /\ IsFiniteSet(Tasks) /\ Idle \notin Tasks
  /\ NULL \notin Tasks \cup {Idle}
  /\ MaxPriority \in Nat \ {0}
  /\ BasePriorities \subseteq 1 .. MaxPriority
  /\ TIME_SLICE_TICKS \in Nat \ {0}
  /\ K_FOREVER \in Nat \ {0}
  /\ LockTimeouts \subseteq 0 .. K_FOREVER

VARIABLES
  links,             (* the run queues, see LinkedQueues                    *)
  state, priority, base_priority, current_task, slice_ticks, about_to_yield,
  isr, rearm_pending,(* as in Scheduler                                     *)
  locked, owner, wait_head,
  raised,            (* history: a priority was raised at some time         *)
  pc,                (* where each task is in k_mutex_lock and unlock       *)
  seen,              (* m->owner as its priority inheritance read it last   *)
  tms, left          (* argument and remaining time of its k_mutex_lock     *)

schedVars == <<state, priority, base_priority, current_task, slice_ticks,
               about_to_yield, isr, rearm_pending>>
mutexVars == <<locked, owner, wait_head, raised>>
callVars  == <<pc, seen, tms, left>>
vars      == <<links, schedVars, mutexVars, callVars>>

AllTasks   == Tasks \cup {Idle}
Priorities == 0 .. MaxPriority

Q == INSTANCE LinkedQueues WITH Nodes <- AllTasks, Levels <- Priorities

IsPrioHighest(p, bm) == p \in bm /\ \A q \in bm : q <= p

\* sched_yield_from_isr(), from the links L and the states st.
SchedYield(L, st) ==
  LET old == current_task
      queued == st[old] = "RUNNING"
      st2 == IF queued THEN [st EXCEPT ![old] = "READY"] ELSE st
      L2 == IF queued THEN Q!RqEnqueue(L, old, priority[old]) ELSE L
  IN  \E hp \in Priorities :
        /\ IsPrioHighest(hp, L2.bitmap)
        /\ LET new == L2.run_queue[hp]
           IN  IF L2.fault \/ new = NULL
               THEN /\ links' = [L2 EXCEPT !.fault = TRUE]
                    /\ state' = st2
                    /\ UNCHANGED <<current_task, slice_ticks>>
               ELSE /\ links' = Q!RqRemove(L2, new, priority[new])
                    /\ state' = [st2 EXCEPT ![new] = "RUNNING"]
                    /\ current_task' = new
                    /\ slice_ticks' = TIME_SLICE_TICKS

(***************************************************************************)
(* The scheduler's steps.                                                  *)
(***************************************************************************)
Alive    == ~links.fault
TaskCode == Alive /\ isr = "none" /\ current_task \notin rearm_pending
AppCode  == TaskCode /\ current_task \in Tasks /\ current_task \notin about_to_yield

\* task_create(t, ..., p).
TaskCreate(t, p) ==
  /\ TaskCode
  /\ current_task \notin about_to_yield
  /\ state[t] = "NEW"
  /\ state' = [state EXCEPT ![t] = "READY"]
  /\ priority' = [priority EXCEPT ![t] = p]
  /\ base_priority' = [base_priority EXCEPT ![t] = p]
  /\ links' = Q!RqEnqueue(links, t, p)
  /\ UNCHANGED <<current_task, slice_ticks, about_to_yield, isr, rearm_pending,
                 mutexVars, callVars>>

\* task_yield() called by the application or at the end of k_mutex_unlock.
TaskYield ==
  /\ AppCode
  /\ pc[current_task] \in {"outside", "inside", "unlocked"}
  /\ SchedYield(links, state)
  /\ pc' = [pc EXCEPT ![current_task] = IF @ = "unlocked" THEN "outside" ELSE @]
  /\ UNCHANGED <<priority, base_priority, about_to_yield, isr, rearm_pending,
                 mutexVars, seen, tms, left>>

\* The task_yield() after a masked section that blocked or woke a task.
YieldAfter ==
  /\ TaskCode
  /\ current_task \in about_to_yield
  /\ SchedYield(links, state)
  /\ about_to_yield' = about_to_yield \ {current_task}
  /\ UNCHANGED <<priority, base_priority, isr, rearm_pending, mutexVars, callVars>>

\* What is left of a time-out after a tick.
Remaining(n) == IF n > 0 THEN n - 1 ELSE 0

\* The timer interrupt; nobody sleeps.
TickEnter ==
  /\ TaskCode
  /\ isr' = "wake"
  /\ left' = [t \in Tasks |-> Remaining(left[t])]
  /\ UNCHANGED <<links, state, priority, base_priority, current_task, slice_ticks,
                 about_to_yield, rearm_pending, mutexVars, pc, seen, tms>>

SliceLeft == IF slice_ticks > 0 THEN slice_ticks - 1 ELSE 0

MustPreempt ==
  SliceLeft = 0 \/ \E p \in links.bitmap : p > priority[current_task]

TickReturn ==
  /\ Alive /\ isr = "wake"
  /\ ~MustPreempt
  /\ slice_ticks' = SliceLeft
  /\ isr' = "none"
  /\ UNCHANGED <<links, state, priority, base_priority, current_task,
                 about_to_yield, rearm_pending, mutexVars, callVars>>

TickPreempt ==
  /\ Alive /\ isr = "wake"
  /\ MustPreempt
  /\ SchedYield(links, state)
  /\ isr' = "none"
  /\ rearm_pending' = IF current_task' = current_task THEN rearm_pending
                      ELSE rearm_pending \cup {current_task}
  /\ UNCHANGED <<priority, base_priority, about_to_yield, mutexVars, callVars>>

TickResume ==
  /\ Alive /\ isr = "none"
  /\ current_task \in rearm_pending
  /\ rearm_pending' = rearm_pending \ {current_task}
  /\ UNCHANGED <<links, state, priority, base_priority, current_task, slice_ticks,
                 about_to_yield, isr, mutexVars, callVars>>

(***************************************************************************)
(* k_mutex_lock() of the running task.                                     *)
(***************************************************************************)
me == current_task

GoTo(l) == pc' = [pc EXCEPT ![me] = l]

\* The running task is at location l of its call.
Executes(l) == AppCode /\ pc[me] = l

LockCall(ms) ==
  /\ Executes("outside")
  /\ GoTo("cas")
  /\ tms' = [tms EXCEPT ![me] = ms]
  /\ left' = [left EXCEPT ![me] = IF ms = K_FOREVER THEN 0 ELSE ms]
  /\ UNCHANGED <<links, schedVars, mutexVars, seen>>

IsFree == locked = 0

\* The compare-and-swap on m->locked.
Cas ==
  /\ Executes("cas")
  /\ IF IsFree THEN locked' = 1 /\ GoTo("own") ELSE GoTo("boost") /\ UNCHANGED locked
  /\ UNCHANGED <<links, schedVars, owner, wait_head, raised, seen, tms, left>>

\* m->owner is stored and the call returns K_OK.
Own ==
  /\ Executes("own")
  /\ owner' = me
  /\ GoTo("inside")
  /\ tms' = [tms EXCEPT ![me] = K_NO_WAIT]
  /\ left' = [left EXCEPT ![me] = 0]
  /\ UNCHANGED <<links, schedVars, locked, wait_head, raised, seen>>

(***************************************************************************)
(* Priority inheritance (scheduler.c:144) names m->owner three times, in   *)
(* the null test, in the comparison and in the store, with no lock and no  *)
(* volatile: the second and the third may read the field again or use what *)
(* was read before, as the compiler likes.                                 *)
(***************************************************************************)
Reread == {owner, seen[me]}

\* The null test.
BoostTest ==
  /\ Executes("boost")
  /\ GoTo(IF owner = NULL THEN "check" ELSE "compare")
  /\ seen' = [seen EXCEPT ![me] = owner]
  /\ UNCHANGED <<links, schedVars, mutexVars, tms, left>>

\* A slip: an owner of the same priority passes the comparison as well.
IsNotHigher(o) == priority[o] <= priority[me]

IsLower(o) == priority[o] < priority[me]

\* The comparison with m->owner->priority.
Compare ==
  /\ Executes("compare")
  /\ \E o \in Reread :
       IF o = NULL
       THEN /\ GoTo("crashed")
            /\ links' = [links EXCEPT !.fault = TRUE]
            /\ UNCHANGED seen
       ELSE /\ GoTo(IF IsLower(o) THEN "raise" ELSE "check")
            /\ seen' = [seen EXCEPT ![me] = IF IsLower(o) THEN o ELSE NULL]
            /\ UNCHANGED links
  /\ UNCHANGED <<schedVars, mutexVars, tms, left>>

\* A slip: the owner is put above the waiter.
AboveWaiter == priority[me] + 1

\* The priority that the owner inherits.
Inherited == priority[me]

\* The store to m->owner->priority; no run queue is changed.
Raise ==
  /\ Executes("raise")
  /\ \E o \in Reread :
       IF o = NULL
       THEN links' = [links EXCEPT !.fault = TRUE] /\ UNCHANGED priority
       ELSE priority' = [priority EXCEPT ![o] = Inherited] /\ UNCHANGED links
  /\ raised' = TRUE
  /\ GoTo("check")
  /\ seen' = [seen EXCEPT ![me] = NULL]
  /\ UNCHANGED <<state, base_priority, current_task, slice_ticks, about_to_yield,
                 isr, rearm_pending, locked, owner, wait_head, tms, left>>

\* K_ERR_BUSY or K_ERR_TIMEOUT.
GiveUp ==
  /\ Executes("check")
  /\ tms[me] # K_FOREVER /\ left[me] = 0
  /\ GoTo("outside")
  /\ tms' = [tms EXCEPT ![me] = K_NO_WAIT]
  /\ UNCHANGED <<links, schedVars, mutexVars, seen, left>>

GoOn ==
  /\ Executes("check")
  /\ tms[me] = K_FOREVER \/ left[me] > 0
  /\ GoTo("block")
  /\ UNCHANGED <<links, schedVars, mutexVars, seen, tms, left>>

\* The wait list.
Waiters == Q!Walk(links, wait_head)

\* The running task is linked behind the n-th waiter.
InsertWaiter(n) ==
  LET following == IF n < Len(Waiters) THEN Waiters[n + 1] ELSE NULL
  IN  /\ wait_head' = IF n = 0 THEN me ELSE wait_head
      /\ links' = [links EXCEPT !.next =
                     IF n = 0 THEN [@ EXCEPT ![me] = following]
                     ELSE [@ EXCEPT ![me] = following, ![Waiters[n]] = me]]

\* The masked section that puts the task into the wait list, behind the waiters
\* whose priority is not lower.
Block ==
  /\ Executes("block")
  /\ state' = [state EXCEPT ![me] = "BLOCKED"]
  /\ \E n \in 0 .. Len(Waiters) :
       /\ \A i \in 1 .. n : priority[Waiters[i]] >= priority[me]
       /\ n < Len(Waiters) => priority[Waiters[n + 1]] < priority[me]
       /\ InsertWaiter(n)
  /\ about_to_yield' = about_to_yield \cup {me}
  /\ GoTo("waiting")
  /\ UNCHANGED <<priority, base_priority, current_task, slice_ticks, isr,
                 rearm_pending, locked, owner, raised, seen, tms, left>>

(***************************************************************************)
(* k_mutex_unlock() of the running task; a caller that is not the owner    *)
(* gets K_ERR_PERM and nothing changes.                                    *)
(***************************************************************************)

\* A slip: the caller is not compared with the owner.
IsOwnerUnchecked == TRUE

IsOwner == owner = me

\* A slip: the new head is not taken off the wait list.
RestKept(w) == w

\* The wait list behind its head w.
Rest(w) == links.next[w]

\* A slip: the boost is not taken back.
PrioritiesKept == priority

\* The owner has its own priority again.
PrioritiesRestored ==
  [t \in AllTasks |-> IF t = owner THEN base_priority[t] ELSE priority[t]]

Unlock ==
  /\ AppCode
  /\ pc[me] \in {"outside", "inside"}
  /\ IsOwner
  /\ priority' = PrioritiesRestored
  /\ owner' = NULL
  /\ locked' = 0
  /\ IF wait_head = NULL
     THEN /\ GoTo("unlocked")
          /\ UNCHANGED <<links, state, about_to_yield, wait_head>>
     ELSE /\ wait_head' = Rest(wait_head)
          /\ state' = [state EXCEPT ![wait_head] = "READY"]
          /\ links' = Q!RqEnqueue(links, wait_head, priority[wait_head])
          /\ about_to_yield' = about_to_yield \cup {me}
          /\ pc' = [pc EXCEPT ![wait_head] = "cas", ![me] = "outside"]
  /\ UNCHANGED <<base_priority, current_task, slice_ticks, isr, rearm_pending,
                 raised, seen, tms, left>>

(***************************************************************************)
(* The specification.                                                      *)
(***************************************************************************)
Init ==
  /\ links = Q!RqEnqueue(Q!EmptyLinks, Idle, 0)
  /\ state = [t \in AllTasks |-> IF t = Idle THEN "RUNNING" ELSE "NEW"]
  /\ priority = [t \in AllTasks |-> 0]
  /\ base_priority = [t \in AllTasks |-> 0]
  /\ current_task = Idle
  /\ slice_ticks = TIME_SLICE_TICKS
  /\ about_to_yield = {}
  /\ isr = "none"
  /\ rearm_pending = {}
  /\ locked = 0 /\ owner = NULL /\ wait_head = NULL /\ raised = FALSE
  /\ pc = [t \in Tasks |-> "outside"]
  /\ seen = [t \in Tasks |-> NULL]
  /\ tms = [t \in Tasks |-> K_NO_WAIT]
  /\ left = [t \in Tasks |-> 0]

Next ==
  \/ \E t \in Tasks, p \in BasePriorities : TaskCreate(t, p)
  \/ TaskYield
  \/ YieldAfter
  \/ TickEnter \/ TickReturn \/ TickPreempt \/ TickResume
  \/ \E ms \in LockTimeouts : LockCall(ms)
  \/ Cas \/ Own \/ BoostTest \/ Compare \/ Raise \/ GiveUp \/ GoOn \/ Block
  \/ Unlock

Spec == Init /\ [][Next]_vars

-----------------------------------------------------------------------------
(***************************************************************************)
(* Properties.                                                             *)
(***************************************************************************)
Locations == {"outside", "cas", "own", "boost", "compare", "crashed", "raise", "check",
              "block", "waiting", "inside", "unlocked"}
Pointers  == AllTasks \cup {NULL}

\* Every variable has its type.
TypeOK ==
  /\ links \in [next : [AllTasks -> Pointers], prev : [AllTasks -> Pointers],
                run_queue : [Priorities -> Pointers], bitmap : SUBSET Priorities,
                fault : BOOLEAN]
  /\ state \in [AllTasks -> {"NEW", "READY", "RUNNING", "BLOCKED"}]
  /\ priority \in [AllTasks -> Priorities]
  /\ base_priority \in [AllTasks -> Priorities]
  /\ current_task \in AllTasks
  /\ slice_ticks \in 0 .. TIME_SLICE_TICKS
  /\ about_to_yield \subseteq Tasks
  /\ isr \in {"none", "wake"}
  /\ rearm_pending \subseteq AllTasks
  /\ locked \in {0, 1} /\ owner \in Tasks \cup {NULL} /\ wait_head \in Tasks \cup {NULL}
  /\ raised \in BOOLEAN
  /\ pc \in [Tasks -> Locations]
  /\ seen \in [Tasks -> Tasks \cup {NULL}]
  /\ tms \in [Tasks -> 0 .. K_FOREVER]
  /\ left \in [Tasks -> 0 .. K_FOREVER]

\* One task at a time is between a k_mutex_lock that returned K_OK and its
\* k_mutex_unlock; it is the owner, and the flag is set from before it enters
\* until after it has left.
MutualExclusion ==
  /\ \A t, u \in Tasks : {pc[t], pc[u]} \subseteq {"own", "inside"} => t = u
  /\ \A t \in Tasks : pc[t] = "inside" <=> owner = t
  /\ locked = 0 <=> \A t \in Tasks : pc[t] \notin {"own", "inside"}

\* As long as no priority was raised, no null pointer is followed but that of m->owner in
\* the comparison of priorities, and the wait list, which shares the field next with the
\* run queues, holds exactly the blocked tasks, each once, a higher priority before a
\* lower one.
WaitersConsistent ==
  ~raised =>
    /\ links.fault => \E t \in Tasks : pc[t] = "crashed"
    /\ \A t \in Tasks :
         /\ state[t] = "BLOCKED" <=> pc[t] = "waiting"
         /\ state[t] = "BLOCKED" <=> \E i \in 1 .. Len(Waiters) : Waiters[i] = t
    /\ \A i, j \in 1 .. Len(Waiters) :
         i < j => /\ Waiters[i] # Waiters[j]
                  /\ priority[Waiters[i]] >= priority[Waiters[j]]

\* A priority differs from the one the task was created with only while the task
\* holds the mutex, and is then higher: no interleaving of the test and the store
\* of the priority inheritance with an unlock leaves a boost behind or lowers
\* a task.
BoostEndsWithOwnership ==
  \A t \in Tasks : /\ priority[t] >= base_priority[t]
                    /\ priority[t] > base_priority[t] => owner = t

\* The store of the priority inheritance raises the owner whose priority the comparison
\* found lower: whether it reads m->owner again or not, it follows no null pointer and
\* raises no task that has left the mutex, although other tasks run between the two.
\* (An owner that sleeps or blocks inside the mutex, which these tasks do not, can be
\* raised by a third task, run first and unlock.)
RaiseFindsOwner == [][Raise => seen[me] # NULL /\ owner = seen[me]]_vars

\* The comparison of the priority inheritance follows no null pointer: a task that finds
\* the mutex taken can always look at the priority of its owner.
OwnerStaysForComparison == \A t \in Tasks : pc[t] # "crashed"

\* The run queues of Scheduler: each level as the sequence of its tasks.
RunQueues ==
  LET rings == [p \in Priorities |-> Q!Walk(links, links.run_queue[p])]
  IN  CHOOSE rq \in {rings} : rq = rings

Sched == INSTANCE Scheduler WITH
  run_queue <- RunQueues,
  prio_bitmap <- links.bitmap,
  sleep_queue <- <<>>,
  wake_in <- [t \in AllTasks |-> 0],
  alarm_armed <- TRUE,
  MaxSleep <- 1,
  OneShotAlarm <- FALSE

\* The linked run queues with blocking and waking by a mutex implement the
\* queues of Scheduler: as long as no priority is raised, sharing the links
\* between run queues and wait list loses and duplicates no task.
SchedulerRefinement ==
  Sched!Init /\ [][raised' \/ Sched!Next \/ UNCHANGED Sched!schedVars]_vars

==============================================================================
