------------------------------ MODULE MsgQueue ------------------------------
(***************************************************************************)
(* The message queue of kernel/scheduler.c: a ring buffer between two      *)
(* counting semaphores, not_full and not_empty, with their wait lists.     *)
(*                                                                         *)
(* A step is a read or compare-and-swap of the semaphore's count, or a     *)
(* section between irq_save() and irq_restore().  Any task that is not in  *)
(* a wait list may take the next step, which covers every schedule of the  *)
(* preemptive scheduler.                                                   *)
(*                                                                         *)
(* Time is relative: left[t] stands for dl - tick_count, and 0 for every   *)
(* deadline that has passed.                                               *)
(***************************************************************************)
EXTENDS Integers, Sequences, FiniteSets

CONSTANTS
  Tasks,             (* the callers                                         *)
  Messages,
  NoItem,            (* the content of a slot nothing was written to        *)
  Capacity,
  SendTimeouts,      (* the arguments tms of k_msgq_send and k_msgq_recv    *)
  RecvTimeouts,      (* that are explored                                   *)
  K_FOREVER

K_NO_WAIT == 0

ASSUME MsgQueueAssumption ==
  /\ IsFiniteSet(Tasks)
  /\ NoItem \notin Messages
  /\ Capacity \in Nat \ {0}
  /\ K_FOREVER \in Nat \ {K_NO_WAIT}
  /\ SendTimeouts \subseteq 0 .. K_FOREVER
  /\ RecvTimeouts \subseteq 0 .. K_FOREVER

VARIABLES
  buf, head, tail,   (* the ring                                            *)
  count,             (* the messages in it                                  *)
  tokens,            (* k_sem_t.count of both semaphores                    *)
  waiters,           (* their wait lists                                    *)
  pc, op, item,      (* of each task: where it is, in which call            *)
  seen,              (* the local variable c of k_sem_take                  *)
  tms, left,         (* its argument and deadline                           *)
  rc                 (* the code its last call returned                     *)

ringVars == <<buf, head, tail, count>>
semVars  == <<tokens, waiters>>
callVars == <<op, tms>>
msgqVars == <<buf, head, tail, count, tokens, waiters, pc, op, item, seen, tms,
              left, rc>>

Sems     == {"not_full", "not_empty"}
Slots    == 0 .. Capacity - 1
Timeouts == 0 .. K_FOREVER

\* The semaphore a call takes first, and the one it gives at the end.
TakenBy(o) == IF o = "send" THEN "not_full" ELSE "not_empty"

\* A slip: the semaphore that was taken is given back.
GivenBack(o) == TakenBy(o)

GivenBy(o) == IF o = "send" THEN "not_empty" ELSE "not_full"

GoTo(t, l) == pc' = [pc EXCEPT ![t] = l]

\* The call of t returns the code r.
ReturnFrom(t, r) ==
  /\ rc' = [rc EXCEPT ![t] = r]
  /\ item' = [item EXCEPT ![t] = NoItem]

\* k_sem_take of t returns: its argument and deadline are gone.
EndTake(t) ==
  /\ tms' = [tms EXCEPT ![t] = K_NO_WAIT]
  /\ left' = [left EXCEPT ![t] = 0]

(***************************************************************************)
(* k_sem_take()                                                            *)
(***************************************************************************)

\* k_msgq_send(q, m, ms) or k_msgq_recv(q, .., ms) is called; the deadline
\* is computed.
Call(t, o, m, ms) ==
  /\ pc[t] = "idle"
  /\ GoTo(t, "load")
  /\ op' = [op EXCEPT ![t] = o]
  /\ item' = [item EXCEPT ![t] = m]
  /\ tms' = [tms EXCEPT ![t] = ms]
  /\ left' = [left EXCEPT ![t] = IF ms = K_FOREVER THEN 0 ELSE ms]
  /\ rc' = [rc EXCEPT ![t] = "K_OK"]
  /\ UNCHANGED <<ringVars, semVars, seen>>

\* c = atomic_load(&s->count)
Load(t) ==
  /\ pc[t] = "load"
  /\ seen' = [seen EXCEPT ![t] = tokens[TakenBy(op[t])]]
  /\ GoTo(t, "cas")
  /\ UNCHANGED <<ringVars, semVars, callVars, item, left, rc>>

\* A slip: the count is stored without comparing it first.
HasTokenUnchecked(t) == seen[t] > 0

\* The condition of line 166.
HasToken(t) == seen[t] > 0 /\ tokens[TakenBy(op[t])] = seen[t]

\* The compare-and-swap; what it leaves in c is not read again.
Cas(t) ==
  /\ pc[t] = "cas"
  /\ IF HasToken(t)
     THEN /\ tokens' = [tokens EXCEPT ![TakenBy(op[t])] = seen[t] - 1]
          /\ EndTake(t)
          /\ GoTo(t, "copy")
     ELSE GoTo(t, "check") /\ UNCHANGED <<tokens, tms, left>>
  /\ seen' = [seen EXCEPT ![t] = 0]
  /\ UNCHANGED <<ringVars, waiters, op, item, rc>>

\* The two tests before blocking; a deadline is looked at here only.
GiveUp(t) ==
  /\ pc[t] = "check"
  /\ \/ tms[t] = K_NO_WAIT /\ ReturnFrom(t, "K_ERR_BUSY")
     \/ /\ tms[t] \notin {K_NO_WAIT, K_FOREVER}
        /\ left[t] = 0
        /\ ReturnFrom(t, "K_ERR_TIMEOUT")
  /\ EndTake(t)
  /\ GoTo(t, "idle")
  /\ UNCHANGED <<ringVars, semVars, op, seen>>

GoOn(t) ==
  /\ pc[t] = "check"
  /\ tms[t] = K_FOREVER \/ left[t] > 0
  /\ GoTo(t, "block")
  /\ UNCHANGED <<ringVars, semVars, callVars, item, seen, left, rc>>

\* A slip: pp is not advanced and the waiters before the task are cut off.
EnqueueWaiterOnly(q, t) == <<t>>

\* Behind the last waiter.
EnqueueWaiter(q, t) == Append(q, t)

\* The masked section that puts the task into the wait list.  It is taken out
\* by Give and continues with the next iteration.
Block(t) ==
  /\ pc[t] = "block"
  /\ waiters' = [waiters EXCEPT ![TakenBy(op[t])] = EnqueueWaiter(@, t)]
  /\ GoTo(t, "waiting")
  /\ UNCHANGED <<ringVars, tokens, callVars, item, seen, left, rc>>

(***************************************************************************)
(* The masked sections of k_msgq_send() and k_msgq_recv(), and k_sem_give. *)
(***************************************************************************)

\* The index after i in the ring.
Advance(i) == (i + 1) % Capacity

\* A slip: the tail moves before the copy.
WriteAfterAdvance(t) ==
  /\ pc[t] = "copy" /\ op[t] = "send"
  /\ buf' = [buf EXCEPT ![Advance(tail)] = item[t]]
  /\ tail' = Advance(tail)
  /\ count' = count + 1
  /\ GoTo(t, "give")
  /\ UNCHANGED <<head, semVars, callVars, item, seen, left, rc>>

Write(t) ==
  /\ pc[t] = "copy" /\ op[t] = "send"
  /\ buf' = [buf EXCEPT ![tail] = item[t]]
  /\ tail' = Advance(tail)
  /\ count' = count + 1
  /\ GoTo(t, "give")
  /\ UNCHANGED <<head, semVars, callVars, item, seen, left, rc>>

Read(t) ==
  /\ pc[t] = "copy" /\ op[t] = "recv"
  /\ item' = [item EXCEPT ![t] = buf[head]]
  /\ head' = Advance(head)
  /\ count' = count - 1
  /\ GoTo(t, "give")
  /\ UNCHANGED <<buf, tail, semVars, callVars, seen, left, rc>>

\* A slip: the bound of the count is one short.
SemGiveShort(s) ==
  \/ /\ waiters[s] # <<>>
     /\ waiters' = [waiters EXCEPT ![s] = Tail(@)]
     /\ UNCHANGED tokens
  \/ /\ waiters[s] = <<>>
     /\ tokens' = [tokens EXCEPT ![s] = IF @ < Capacity - 1 THEN @ + 1 ELSE @]
     /\ UNCHANGED waiters

\* k_sem_give on s: the first waiter is released and the count is left alone,
\* or the count grows up to max_count.
SemGive(s) ==
  \/ /\ waiters[s] # <<>>
     /\ waiters' = [waiters EXCEPT ![s] = Tail(@)]
     /\ UNCHANGED tokens
  \/ /\ waiters[s] = <<>>
     /\ tokens' = [tokens EXCEPT ![s] = IF @ < Capacity THEN @ + 1 ELSE @]
     /\ UNCHANGED waiters

\* The tasks a k_sem_give on s releases.
Released(s) == {u \in Tasks : waiters[s] # <<>> /\ u = Head(waiters[s])}

\* k_sem_give at the end of the call; a released task loads the count again.
Give(t) ==
  /\ pc[t] = "give"
  /\ SemGive(GivenBy(op[t]))
  /\ pc' = [u \in Tasks |-> IF u = t THEN "idle"
                          ELSE IF u \in Released(GivenBy(op[t])) THEN "load"
                          ELSE pc[u]]
  /\ ReturnFrom(t, "K_OK")
  /\ UNCHANGED <<ringVars, callVars, seen, left>>

\* The tick interrupt.
Tick ==
  /\ \E t \in Tasks : left[t] > 0
  /\ left' = [t \in Tasks |-> IF left[t] > 0 THEN left[t] - 1 ELSE 0]
  /\ UNCHANGED <<ringVars, semVars, callVars, pc, item, seen, rc>>

(***************************************************************************)
(* The specification; the initial state is the one k_msgq_init leaves.     *)
(***************************************************************************)
Init ==
  /\ buf = [i \in Slots |-> NoItem]
  /\ head = 0 /\ tail = 0 /\ count = 0
  /\ tokens = [s \in Sems |-> IF s = "not_full" THEN Capacity ELSE 0]
  /\ waiters = [s \in Sems |-> <<>>]
  /\ pc = [t \in Tasks |-> "idle"]
  /\ op = [t \in Tasks |-> "recv"]
  /\ item = [t \in Tasks |-> NoItem]
  /\ seen = [t \in Tasks |-> 0]
  /\ tms = [t \in Tasks |-> K_NO_WAIT]
  /\ left = [t \in Tasks |-> 0]
  /\ rc = [t \in Tasks |-> "K_OK"]

\* The next step of the call t is in.
Step(t) ==
  \/ Load(t)
  \/ Cas(t)
  \/ GiveUp(t)
  \/ GoOn(t)
  \/ Block(t)
  \/ Write(t)
  \/ Read(t)
  \/ Give(t)

Next ==
  \/ \E t \in Tasks :
       \/ \E m \in Messages, ms \in SendTimeouts : Call(t, "send", m, ms)
       \/ \E ms \in RecvTimeouts : Call(t, "recv", NoItem, ms)
       \/ Step(t)
  \/ Tick

Spec == Init /\ [][Next]_msgqVars

\* Every task that is not blocked gets the processor now and then, and the
\* timer keeps ticking.  Nothing makes a task call the queue.
FairSpec ==
  /\ Spec
  /\ \A t \in Tasks : WF_msgqVars(Step(t))
  /\ WF_msgqVars(Tick)

-----------------------------------------------------------------------------
(***************************************************************************)
(* Properties.                                                             *)
(***************************************************************************)
Locations == {"idle", "load", "cas", "check", "block", "waiting", "copy", "give"}

\* Every variable has its type; the counts of the semaphores stay in bounds.
TypeOK ==
  /\ buf \in [Slots -> Messages \cup {NoItem}]
  /\ head \in Slots
  /\ tail \in Slots
  /\ count \in 0 .. Capacity
  /\ tokens \in [Sems -> 0 .. Capacity]
  /\ waiters \in [Sems -> Seq(Tasks)]
  /\ pc \in [Tasks -> Locations]
  /\ op \in [Tasks -> {"send", "recv"}]
  /\ item \in [Tasks -> Messages \cup {NoItem}]
  /\ seen \in [Tasks -> 0 .. Capacity]
  /\ tms \in [Tasks -> Timeouts]
  /\ left \in [Tasks -> Timeouts]
  /\ rc \in [Tasks -> {"K_OK", "K_ERR_BUSY", "K_ERR_TIMEOUT"}]

\* The tasks at location l of a call o.
At(l, o) == {t \in Tasks : pc[t] = l /\ op[t] = o}

\* Messages, and free slots, that no token and no task on its way stands for.
LostItems ==
  count - (tokens["not_empty"] + Cardinality(At("copy", "recv"))
             + Cardinality(At("give", "send")))

LostRoom ==
  (Capacity - count)
    - (tokens["not_full"] + Cardinality(At("copy", "send"))
         + Cardinality(At("give", "recv")))

\* Each token, and each task that has taken one and not yet used it, is backed
\* by a message (not_empty) or a free slot (not_full) of its own, however the
\* steps of senders and receivers interleave: no slot is overwritten before
\* it is read and none is read before it is written.
TokenBalance == LostItems >= 0 /\ LostRoom >= 0

\* Head, tail and count, which are written in different calls, agree.
RingConsistent ==
  tail = IF head + count < Capacity THEN head + count ELSE head + count - Capacity

\* The wait lists hold exactly the blocked tasks, each once and in the list of
\* the semaphore it takes: no waiter is lost or released while it runs.
WaitersConsistent ==
  /\ \A s \in Sems : \A i, j \in 1 .. Len(waiters[s]) :
       waiters[s][i] = waiters[s][j] => i = j
  /\ \A s \in Sems, t \in Tasks :
       (\E i \in 1 .. Len(waiters[s]) : waiters[s][i] = t)
         <=> (pc[t] = "waiting" /\ TakenBy(op[t]) = s)

\* The inductive invariant.
IndInv == TypeOK /\ TokenBalance /\ RingConsistent /\ WaitersConsistent

\* A token gets lost only where k_sem_give releases a waiter: not in a race of
\* two compare-and-swaps, not at max_count, and not in a call that fails.
LossOnlyAtRelease ==
  [][ (LostItems' # LostItems \/ LostRoom' # LostRoom) =>
        \E s \in Sems : Len(waiters'[s]) < Len(waiters[s]) ]_msgqVars

\* The messages in the ring, from head to tail.
Contents == [i \in 1 .. count |-> buf[(head + i - 1) % Capacity]]

\* A call takes effect with the copy into or out of the ring.
Phase == [t \in Tasks |-> CASE pc[t] = "idle" -> "idle"
                            [] pc[t] = "give" -> "done"
                            [] OTHER -> "pending"]

Channel == INSTANCE BoundedChannel WITH chan <- Contents, phase <- Phase

\* The queue implements the bounded channel: messages arrive once, unchanged
\* and in order, and a call that fails leaves the queue as it was.
ChannelRefinement == Channel!Spec

\* A send with a time-out that waits for room while there is room returns: it
\* gets the room, or its time is up (README, "50ms timeout").
TimedSendReturns ==
  \A t \in Tasks :
    (/\ pc[t] = "waiting" /\ op[t] = "send" /\ tms[t] \notin {K_NO_WAIT, K_FOREVER}
     /\ count < Capacity)
      ~> (pc[t] = "idle" \/ count = Capacity)
==============================================================================
