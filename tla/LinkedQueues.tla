---------------------------- MODULE LinkedQueues ----------------------------
(***************************************************************************)
(* The circular doubly linked run queues of kernel/scheduler.c, pointer by *)
(* pointer.  The links are a record: next and prev of each TCB, run_queue  *)
(* and the bitmap by level, and fault, which is set by an access through a *)
(* null pointer: the processor raises an exception and the crash handler   *)
(* never returns.                                                          *)
(***************************************************************************)
EXTENDS Integers, Sequences, FiniteSets

CONSTANTS Nodes, Levels, NULL

\* No node is linked.
EmptyLinks ==
  [next |-> [t \in Nodes |-> NULL], prev |-> [t \in Nodes |-> NULL],
   run_queue |-> [p \in Levels |-> NULL], bitmap |-> {}, fault |-> FALSE]

\* A slip: the new node is not made the predecessor of the head.
LinkAtTailHalf(L, t, p) ==
  LET h == L.run_queue[p]
      tail == L.prev[h]
  IN  IF tail = NULL THEN [L EXCEPT !.fault = TRUE]
      ELSE [L EXCEPT !.next = [@ EXCEPT ![tail] = t, ![t] = h],
                     !.prev = [@ EXCEPT ![t] = tail]]

\* t becomes the last node of the ring of level p, which is not empty.
LinkAtTail(L, t, p) ==
  LET h == L.run_queue[p]
      tail == L.prev[h]
  IN  IF tail = NULL THEN [L EXCEPT !.fault = TRUE]
      ELSE [L EXCEPT !.next = [@ EXCEPT ![tail] = t, ![t] = h],
                     !.prev = [@ EXCEPT ![t] = tail, ![h] = t]]

\* t becomes the only node of level p.
LinkAlone(L, t, p) ==
  [L EXCEPT !.next[t] = t, !.prev[t] = t, !.run_queue[p] = t]

\* rq_enqueue(t), where p is t->priority.
RqEnqueue(L, t, p) ==
  LET linked == IF L.run_queue[p] = NULL THEN LinkAlone(L, t, p)
                                         ELSE LinkAtTail(L, t, p)
  IN  [linked EXCEPT !.bitmap = @ \cup {p}]

\* rq_remove(t), where p is t->priority.
RqRemove(L, t, p) ==
  LET nx == L.next[t]
      pv == L.prev[t]
  IN  IF nx = t
      THEN [L EXCEPT !.run_queue[p] = NULL, !.bitmap = @ \ {p},
                     !.next[t] = NULL, !.prev[t] = NULL]
      ELSE IF nx = NULL \/ pv = NULL THEN [L EXCEPT !.fault = TRUE]
      ELSE [L EXCEPT !.next = [@ EXCEPT ![pv] = nx, ![t] = NULL],
                     !.prev = [@ EXCEPT ![nx] = pv, ![t] = NULL],
                     !.run_queue[p] = IF @ = t THEN nx ELSE @]

\* The nodes from h along next, up to one that leads back to h or to NULL.
Walk(L, h) ==
  LET n == Cardinality(Nodes)
      Longer(seen) ==
        LET t == IF seen = <<>> THEN h ELSE L.next[seen[Len(seen)]]
        IN  IF t = NULL \/ (seen # <<>> /\ t = h) THEN seen ELSE Append(seen, t)
      walk[i \in 0 .. n] ==
        IF i = 0 THEN <<>> ELSE CHOOSE s \in {Longer(w) : w \in {walk[i - 1]}} : TRUE
  IN  walk[n]
==============================================================================
