--------------------------- MODULE BoundedChannel ---------------------------
(***************************************************************************)
(* What k_msgq_send and k_msgq_recv promise their callers: a first-in      *)
(* first-out channel of at most Capacity messages.  A call either takes    *)
(* effect exactly once, in one step between its start and its return, and  *)
(* returns K_OK, or it returns an error code and has had no effect.        *)
(***************************************************************************)
EXTENDS Integers, Sequences

CONSTANTS Tasks, Messages, Capacity, NoItem

VARIABLES
  chan,     (* the messages in the channel                                  *)
  phase,    (* of each task: "idle", "pending" or, after the effect, "done" *)
  op,       (* "send" or "recv"                                             *)
  item,     (* the message sent, or received once the phase is "done"       *)
  rc        (* the code its last call returned                              *)

chanVars == <<chan, phase, op, item, rc>>

ErrorCodes == {"K_ERR_BUSY", "K_ERR_TIMEOUT"}

Init ==
  /\ chan = <<>>
  /\ phase = [t \in Tasks |-> "idle"]
  /\ op = [t \in Tasks |-> "recv"]
  /\ item = [t \in Tasks |-> NoItem]
  /\ rc = [t \in Tasks |-> "K_OK"]

Call(t, o, m) ==
  /\ phase[t] = "idle"
  /\ phase' = [phase EXCEPT ![t] = "pending"]
  /\ op' = [op EXCEPT ![t] = o]
  /\ item' = [item EXCEPT ![t] = m]
  /\ rc' = [rc EXCEPT ![t] = "K_OK"]
  /\ UNCHANGED chan

Put(t) ==
  /\ phase[t] = "pending" /\ op[t] = "send"
  /\ Len(chan) < Capacity
  /\ chan' = Append(chan, item[t])
  /\ phase' = [phase EXCEPT ![t] = "done"]
  /\ UNCHANGED <<op, item, rc>>

Get(t) ==
  /\ phase[t] = "pending" /\ op[t] = "recv"
  /\ chan # <<>>
  /\ item' = [item EXCEPT ![t] = Head(chan)]
  /\ chan' = Tail(chan)
  /\ phase' = [phase EXCEPT ![t] = "done"]
  /\ UNCHANGED <<op, rc>>

Return(t) ==
  /\ phase[t] = "done"
  /\ phase' = [phase EXCEPT ![t] = "idle"]
  /\ item' = [item EXCEPT ![t] = NoItem]
  /\ rc' = [rc EXCEPT ![t] = "K_OK"]
  /\ UNCHANGED <<chan, op>>

GiveUp(t) ==
  /\ phase[t] = "pending"
  /\ phase' = [phase EXCEPT ![t] = "idle"]
  /\ item' = [item EXCEPT ![t] = NoItem]
  /\ \E e \in ErrorCodes : rc' = [rc EXCEPT ![t] = e]
  /\ UNCHANGED <<chan, op>>

Next ==
  \E t \in Tasks :
    \/ \E m \in Messages : Call(t, "send", m)
    \/ Call(t, "recv", NoItem)
    \/ Put(t)
    \/ Get(t)
    \/ Return(t)
    \/ GiveUp(t)

Spec == Init /\ [][Next]_chanVars
==============================================================================
