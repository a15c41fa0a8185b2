---------------------------- MODULE UsbTransport -----------------------------
(***************************************************************************)
(* The host channels of usb/usb_stack.c, the task that enumerates a device *)
(* and the task of usb/aap_transport.c that turns a phone into an          *)
(* accessory: two tasks, an interrupt that is not masked by irq_save(),    *)
(* and the phone.                                                          *)
(*                                                                         *)
(* A transfer may be looked at late for two reasons: the phone holds it up *)
(* (it answers "not yet"), or tasks above keep the processor.  A look past *)
(* the deadline is therefore possible at every look.  Callers ignore what  *)
(* hc_xfer returns, so a completion only tells whose transfer it ends.     *)
(***************************************************************************)
EXTENDS Integers, Sequences

CONSTANTS
  NULL,
  NumCh,             (* NUM_CH                                              *)
  Idents,            (* the strings that are sent to the phone: 6           *)
  MaxPlugs           (* bound: how often a phone appears on the port        *)

Tasks == {"host", "conn"}

\* More channels than tasks: alloc_ch never returns -1.
ASSUME UsbAssumption == NumCh \in Nat /\ NumCh > 1 /\ Idents \in Nat /\ MaxPlugs \in Nat

Channels == 0 .. NumCh - 1
s_conn   == NumCh            \* a semaphore as those of the channels
Sems     == Channels \cup {s_conn}

VARIABLES
  at,                (* the line of its loop each task is at; for "conn" a  *)
                     (* refinement of s_state                               *)
  todo,              (* the transfers of the requests it has begun          *)
  pc,                (* where it is in hc_xfer or k_sem_take                *)
  sem,               (* its channel in hc_xfer, s_conn otherwise            *)
  to,                (* the address hc_xfer was called with                 *)
  tokens, waiter,    (* s_ch[].done and s_conn                              *)
  inuse,
  hw,                (* the transfer a channel of the controller works on   *)
  ended,             (* history: the transfer the last interrupt was for    *)
  lost,              (* history: the channel was left with a transfer on it *)
  s_connected, s_dev_addr,
  proto,             (* pb of conn_task                                     *)
  phone, plugs

taskVars == <<at, todo, pc, sem, to>>
semVars  == <<tokens, waiter>>
chVars   == <<inuse, hw, ended, lost>>
portVars == <<s_connected, s_dev_addr, proto, phone, plugs>>
vars     == <<taskVars, semVars, chVars, portVars>>

-----------------------------------------------------------------------------
(* Requests.                                                               *)

Stage(r, s) == [of |-> r, stage |-> s]

\* usb_control_transfer(): the data stage is left out without data.
Control(r) ==
  <<Stage(r, "setup")>>
    \o (IF r \in {"set_address", "start"} THEN <<>> ELSE <<Stage(r, "data")>>)
    \o <<Stage(r, "status")>>

Times(n, request) ==
  [i \in 1 .. n * Len(request) |-> request[1 + ((i - 1) % Len(request))]]

\* What follows a protocol version of at least 1.
Handshake(version) ==
  Times(Idents, Control("ident"))
    \o (IF version >= 2 THEN Control("audio") ELSE <<>>) \o Control("start")

Transfer(t) == [by |-> t, what |-> Head(todo[t])]

Idle(t, line) == pc[t] = "idle" /\ todo[t] = <<>> /\ at[t] = line

GoTo(t, l) == pc' = [pc EXCEPT ![t] = l]

\* The line of t is done; t goes on at `line' when `transfers' have ended.
GoOn(t, line, transfers) ==
  /\ at' = [at EXCEPT ![t] = line]
  /\ todo' = [todo EXCEPT ![t] = transfers]
  /\ UNCHANGED <<pc, sem, to>>

-----------------------------------------------------------------------------
(* hc_xfer().                                                              *)

\* A slip: alloc_ch does not look at inuse.
FreeChannelAny == Channels

FreeChannel == {c \in Channels : ~inuse[c]}

DeviceAddress == s_dev_addr

\* alloc_ch and k_sem_init.
Begin(t) ==
  /\ pc[t] = "idle" /\ todo[t] # <<>>
  /\ \E c \in FreeChannel :
       /\ \A d \in FreeChannel : c <= d
       /\ inuse' = [inuse EXCEPT ![c] = TRUE]
       /\ sem' = [sem EXCEPT ![t] = c]
       /\ tokens' = [tokens EXCEPT ![c] = 0]
       /\ waiter' = [waiter EXCEPT ![c] = NULL]
       /\ ended' = [ended EXCEPT ![c] = NULL]
       /\ lost' = [lost EXCEPT ![c] = @ /\ hw[c] # NULL]
  /\ to' = [to EXCEPT ![t] = DeviceAddress]
  /\ GoTo(t, "set_up")
  /\ UNCHANGED <<at, todo, hw, portVars>>

\* The registers up to CHENA.  What the channel worked on is given up.
Enable(t) ==
  /\ pc[t] = "set_up"
  /\ hw' = [hw EXCEPT ![sem[t]] = [transfer |-> Transfer(t), dev |-> to[t]]]
  /\ to' = [to EXCEPT ![t] = 0]
  /\ GoTo(t, "look")
  /\ UNCHANGED <<at, todo, sem, semVars, inuse, ended, lost, portVars>>

\* k_sem_take finds a token.  For the host task that waits for a device the port
\* comes next, for a transfer free_ch.
Take(t) ==
  /\ pc[t] = "look" /\ tokens[sem[t]] > 0
  /\ tokens' = [tokens EXCEPT ![sem[t]] = @ - 1]
  /\ sem' = [sem EXCEPT ![t] = s_conn]
  /\ GoTo(t, "idle")
  /\ IF sem[t] = s_conn
     THEN /\ at' = [at EXCEPT ![t] = "reset"]
          /\ UNCHANGED <<todo, inuse, ended, lost>>
     ELSE /\ inuse' = [inuse EXCEPT ![sem[t]] = FALSE]
          /\ todo' = [todo EXCEPT ![t] = Tail(@)]
          /\ ended' = [ended EXCEPT ![sem[t]] = NULL]
          /\ lost' = [lost EXCEPT ![sem[t]] = @ /\ hw[sem[t]] # NULL]
          /\ UNCHANGED at
  /\ UNCHANGED <<to, waiter, hw, portVars>>

\* It finds none, behind the deadline: free_ch, with the transfer still going on.
GiveUp(t) ==
  /\ pc[t] = "look" /\ sem[t] # s_conn /\ tokens[sem[t]] = 0
  /\ inuse' = [inuse EXCEPT ![sem[t]] = FALSE]
  /\ lost' = [lost EXCEPT ![sem[t]] = hw[sem[t]] # NULL]
  /\ todo' = [todo EXCEPT ![t] = Tail(@)]
  /\ sem' = [sem EXCEPT ![t] = s_conn]
  /\ ended' = [ended EXCEPT ![sem[t]] = NULL]
  /\ GoTo(t, "idle")
  /\ UNCHANGED <<at, to, semVars, hw, portVars>>

\* It finds none before the deadline; only the masked section behind puts the task
\* into the wait list.
Miss(t) ==
  /\ pc[t] = "look" /\ tokens[sem[t]] = 0
  /\ GoTo(t, "block")
  /\ UNCHANGED <<at, todo, sem, to, semVars, chVars, portVars>>

Block(t) ==
  /\ pc[t] = "block"
  /\ waiter' = [waiter EXCEPT ![sem[t]] = t]
  /\ GoTo(t, "blocked")
  /\ UNCHANGED <<at, todo, sem, to, tokens, chVars, portVars>>

\* k_sem_give(): a waiter is made ready and gets no token.
Give(s) ==
  IF waiter[s] = NULL
  THEN tokens' = [tokens EXCEPT ![s] = 1] /\ UNCHANGED <<waiter, pc>>
  ELSE /\ waiter' = [waiter EXCEPT ![s] = NULL]
       /\ pc' = [pc EXCEPT ![waiter[s]] = "look"]
       /\ UNCHANGED tokens

-----------------------------------------------------------------------------
(* usb_host_irq() and the phone.                                           *)

Listens(dev) == phone.there /\ phone.heard_reset /\ phone.addr = dev

\* The phone takes part in a stage of the request it was sent last.  It acts on a
\* request behind its status stage; as an accessory it leaves the port.
Hears(x) ==
  \/ /\ x.stage = "setup"
     /\ phone' = [phone EXCEPT !.req = x.of]
     /\ UNCHANGED proto
  \/ /\ x.stage = "data" /\ phone.req = x.of
     /\ IF x.of = "get_proto" THEN proto' \in 1 .. 2 ELSE UNCHANGED proto
     /\ UNCHANGED phone
  \/ /\ x.stage = "status" /\ phone.req = x.of
     /\ phone' = [phone EXCEPT !.req = NULL,
                    !.addr = IF x.of = "set_address" THEN 1 ELSE @,
                    !.accessory = @ \/ x.of = "start",
                    !.there = x.of # "start"]
     /\ UNCHANGED proto

\* The transfer of a channel ends, with an answer or with an error.
ChannelIrq(c) ==
  /\ hw[c] # NULL
  /\ hw' = [hw EXCEPT ![c] = NULL]
  /\ ended' = [ended EXCEPT ![c] = hw[c].transfer]
  /\ Give(c)
  /\ \/ UNCHANGED <<phone, proto>>
     \/ Listens(hw[c].dev) /\ Hears(hw[c].transfer.what)
  /\ UNCHANGED <<at, todo, sem, to, inuse, lost, s_connected, s_dev_addr, plugs>>

\* A phone appears: the port interrupt.
Attach ==
  /\ ~phone.there /\ plugs < MaxPlugs
  /\ plugs' = plugs + 1
  /\ phone' = [phone EXCEPT !.there = TRUE, !.heard_reset = FALSE, !.addr = 0, !.req = NULL]
  /\ s_connected' = TRUE
  /\ Give(s_conn)
  /\ UNCHANGED <<at, todo, sem, to, chVars, s_dev_addr, proto>>

\* It is unplugged.  Nothing in the interrupt handler looks at that.
Detach ==
  /\ phone.there
  /\ phone' = [phone EXCEPT !.there = FALSE, !.accessory = FALSE]
  /\ UNCHANGED <<taskVars, semVars, chVars, s_connected, s_dev_addr, proto, plugs>>

-----------------------------------------------------------------------------
(* usb_host_task(); behind its transfers it loops while s_connected, which only  *)
(* usb_device_reset clears.                                                      *)

PortReset ==
  /\ Idle("host", "reset")
  /\ phone' = [phone EXCEPT !.heard_reset = phone.there, !.addr = 0, !.req = NULL]
  /\ GoOn("host", "address", <<>>)
  /\ UNCHANGED <<semVars, chVars, s_connected, s_dev_addr, proto, plugs>>

Enumerate ==
  /\ Idle("host", "address")
  /\ s_dev_addr' = 1
  /\ GoOn("host", "linger", Control("set_address"))
  /\ UNCHANGED <<semVars, chVars, s_connected, proto, phone, plugs>>

-----------------------------------------------------------------------------
(* conn_task().  AAP_AOA_PROBE is "GET_PROTO" and, when the phone has answered,  *)
(* "START_ACC".  AAP_VERSION_NEG only sleeps; AAP_RUNNING is set by what rx_task *)
(* receives, and rx_task reads nothing before AAP_RUNNING.                       *)

Probe ==
  /\ Idle("conn", "DISCONNECTED") /\ s_connected
  /\ proto' = 0
  /\ GoOn("conn", "GET_PROTO", Control("get_proto"))
  /\ UNCHANGED <<semVars, chVars, s_connected, s_dev_addr, phone, plugs>>

Answered ==
  /\ Idle("conn", "GET_PROTO")
  /\ IF proto >= 1 THEN GoOn("conn", "START_ACC", Handshake(proto))
                   ELSE GoOn("conn", "DISCONNECTED", <<>>)
  /\ UNCHANGED <<semVars, chVars, portVars>>

Started ==
  /\ Idle("conn", "START_ACC")
  /\ GoOn("conn", "CONNECTED", <<>>)
  /\ UNCHANGED <<semVars, chVars, portVars>>

VersionRequest ==
  /\ Idle("conn", "CONNECTED") /\ s_connected
  /\ GoOn("conn", "VERSION_NEG", <<Stage("version", "bulk")>>)
  /\ UNCHANGED <<semVars, chVars, portVars>>

-----------------------------------------------------------------------------
\* usb_stack_init and aap_transport_init; the host task takes s_conn first.
Init ==
  /\ at = [host |-> "wait", conn |-> "DISCONNECTED"]
  /\ todo = [t \in Tasks |-> <<>>]
  /\ pc = [host |-> "look", conn |-> "idle"]
  /\ sem = [t \in Tasks |-> s_conn]
  /\ to = [t \in Tasks |-> 0]
  /\ tokens = [s \in Sems |-> 0] /\ waiter = [s \in Sems |-> NULL]
  /\ inuse = [c \in Channels |-> FALSE]
  /\ hw = [c \in Channels |-> NULL] /\ ended = [c \in Channels |-> NULL]
  /\ lost = [c \in Channels |-> FALSE]
  /\ s_connected = FALSE /\ s_dev_addr = 0 /\ proto = 0
  /\ phone = [there |-> FALSE, heard_reset |-> FALSE, addr |-> 0, req |-> NULL,
              accessory |-> FALSE]
  /\ plugs = 0

Next ==
  \/ \E t \in Tasks : Begin(t) \/ Enable(t) \/ Take(t) \/ GiveUp(t) \/ Miss(t) \/ Block(t)
  \/ \E c \in Channels : ChannelIrq(c)
  \/ Attach \/ Detach \/ PortReset \/ Enumerate
  \/ Probe \/ Answered \/ Started \/ VersionRequest

Spec == Init /\ [][Next]_vars

-----------------------------------------------------------------------------
(* Properties.                                                             *)

InTransfer(t) == sem[t] \in Channels /\ pc[t] # "idle"

\* Every variable has its type; a channel is in use exactly while a task is in
\* hc_xfer with it, and only such a task waits on its semaphore.
TypeOK ==
  /\ at \in [host : {"wait", "reset", "address", "linger"},
             conn : {"DISCONNECTED", "GET_PROTO", "START_ACC", "CONNECTED", "VERSION_NEG"}]
  /\ pc \in [Tasks -> {"idle", "set_up", "look", "block", "blocked"}]
  /\ sem \in [Tasks -> Sems] /\ to \in [Tasks -> {0, 1}]
  /\ tokens \in [Sems -> 0 .. 1] /\ lost \in [Channels -> BOOLEAN]
  /\ \A c \in Channels : inuse[c] <=> \E t \in Tasks : InTransfer(t) /\ sem[t] = c
  /\ \A s \in Sems : waiter[s] # NULL => sem[waiter[s]] = s /\ pc[waiter[s]] = "blocked"
  /\ \A t \in Tasks : InTransfer(t) => todo[t] # <<>>
  /\ s_connected \in BOOLEAN /\ s_dev_addr \in {0, 1} /\ proto \in 0 .. 2
  /\ phone.addr \in {0, 1} /\ plugs \in 0 .. MaxPlugs

\* hc_xfer takes the end of another transfer for the end of its own only on a
\* channel that was left with a transfer going on: by a task that gave up, or by
\* one that had itself taken such an end.
StaleOnlyAfterGivingUp ==
  [][ \A t \in Tasks :
        (InTransfer(t) /\ pc[t] = "look" /\ pc'[t] = "idle" /\ tokens[sem[t]] = 1)
          => ended[sem[t]] = Transfer(t) \/ lost[sem[t]] ]_vars

\* SET_ADDRESS goes to the address that the phone has since the reset of the port, so
\* that the phone can take its new one (the source's README, "SET_ADDRESS(1) -> dev_addr
\* = 1").
SetAddressReachesPhone ==
  \A c \in Channels :
    hw[c] # NULL /\ hw[c].transfer.what.of = "set_address" /\ phone.there /\ phone.heard_reset
      => hw[c].dev = phone.addr
==============================================================================
