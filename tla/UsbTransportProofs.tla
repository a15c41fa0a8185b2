------------------------- MODULE UsbTransportProofs --------------------------
(***************************************************************************)
(* For any number of channels, of identification strings and of phones:    *)
(* types, who may take whose completion, and what a phone ever hears.      *)
(***************************************************************************)
EXTENDS UsbTransport, SequenceTheorems, TLAPS

-----------------------------------------------------------------------------
(* The inductive invariant.                                                *)

\* The host task sends SET_ADDRESS and nothing else, the accessory task never.
Requests(t) ==
  IF t = "host" THEN {"set_address"} ELSE {"get_proto", "ident", "audio", "start", "version"}

Stages(t) == [of : Requests(t), stage : {"setup", "data", "status", "bulk"}]

AllStages == Stages("host") \cup Stages("conn")

Transfers == [by : Tasks, what : AllStages]

Phones ==
  [there : BOOLEAN, heard_reset : BOOLEAN, addr : {0, 1},
   req : {NULL} \cup {s.of : s \in AllStages}, accessory : BOOLEAN]

Types ==
  /\ at \in [host : {"wait", "reset", "address", "linger"},
             conn : {"DISCONNECTED", "GET_PROTO", "START_ACC", "CONNECTED", "VERSION_NEG"}]
  /\ pc \in [Tasks -> {"idle", "set_up", "look", "block", "blocked"}]
  /\ sem \in [Tasks -> Sems] /\ to \in [Tasks -> {0, 1}]
  /\ tokens \in [Sems -> 0 .. 1]
  /\ waiter \in [Sems -> Tasks \cup {NULL}]
  /\ inuse \in [Channels -> BOOLEAN] /\ lost \in [Channels -> BOOLEAN]
  /\ hw \in [Channels -> {NULL} \cup [transfer : Transfers, dev : {0, 1}]]
  /\ ended \in [Channels -> {NULL} \cup Transfers]
  /\ s_connected \in BOOLEAN /\ s_dev_addr \in {0, 1} /\ proto \in 0 .. 2
  /\ phone \in Phones
  /\ plugs \in 0 .. MaxPlugs

\* What a task has yet to send are its own stages; in hc_xfer there is one.
Todo ==
  /\ todo \in [Tasks -> Seq(AllStages)]
  /\ \A t \in Tasks : todo[t] \in Seq(Stages(t))
  /\ \A t \in Tasks : InTransfer(t) => todo[t] # <<>>

\* A channel is in use while a task is in hc_xfer with it.
Used == \A c \in Channels : inuse[c] <=> \E t \in Tasks : InTransfer(t) /\ sem[t] = c

Waits == \A s \in Sems : waiter[s] # NULL => sem[waiter[s]] = s /\ pc[waiter[s]] = "blocked"

\* Two tasks have two channels; the port is waited for by the host task only.
Apart ==
  /\ \A t, u \in Tasks : InTransfer(t) /\ InTransfer(u) /\ sem[t] = sem[u] => t = u
  /\ \A t \in Tasks : pc[t] = "set_up" => sem[t] \in Channels
  /\ \A t \in Tasks : pc[t] # "idle" /\ sem[t] = s_conn => t = "host" /\ at["host"] = "wait"

\* SET_ADDRESS is sent to address 1, on its way from the task to the controller.
SentToOne ==
  /\ phone.addr = 0
  /\ todo["host"] # <<>> => s_dev_addr = 1
  /\ pc["host"] = "set_up" => to["host"] = 1
  /\ \A c \in Channels :
       hw[c] # NULL /\ hw[c].transfer.what.of = "set_address" => hw[c].dev = 1

\* Before the port is reset the phone hears and answers nothing.
Unheard ==
  at["host"] = "wait" =>
    /\ ~phone.heard_reset /\ proto = 0
    /\ at["conn"] \in {"DISCONNECTED", "GET_PROTO"}

\* A channel works on a transfer that is not its user's only if it was left with it.
LeftOver ==
  /\ \A c \in Channels : ~inuse[c] /\ hw[c] # NULL => lost[c]
  /\ \A t \in Tasks : InTransfer(t) /\ pc[t] = "set_up" /\ hw[sem[t]] # NULL => lost[sem[t]]
  /\ \A t \in Tasks : InTransfer(t) /\ pc[t] # "set_up" /\ hw[sem[t]] # NULL
                        => hw[sem[t]].transfer = Transfer(t)

\* A token is the end of the user's transfer, or the channel was left with another.
Ends ==
  \A t \in Tasks : InTransfer(t) /\ tokens[sem[t]] = 1 =>
    /\ ended[sem[t]] = Transfer(t) \/ lost[sem[t]]
    /\ (hw[sem[t]] = NULL /\ pc[t] # "set_up") \/ lost[sem[t]]

UsbInv ==
  /\ Types /\ Todo /\ Used /\ Waits
  /\ Apart /\ SentToOne /\ Unheard /\ LeftOver /\ Ends

-----------------------------------------------------------------------------
(* Requests.                                                               *)

\* The port is not a channel.
LEMMA SemsDiffer == s_conn \notin Channels /\ s_conn \in Sems /\ Channels \subseteq Sems
  BY UsbAssumption DEF s_conn, Channels, Sems

\* The stages of a request are the request's.
LEMMA ControlType ==
  ASSUME NEW t \in Tasks, NEW r \in Requests(t)
  PROVE  Control(r) \in Seq(Stages(t)) /\ Len(Control(r)) \in Nat \ {0}
<1> DEFINE S == Stages(t)
           one == <<Stage(r, "setup")>>
           two == IF r \in {"set_address", "start"} THEN <<>> ELSE <<Stage(r, "data")>>
           three == <<Stage(r, "status")>>
<1>1. one \in Seq(S) /\ two \in Seq(S) /\ three \in Seq(S) /\ Len(one) = 1
  <2>1. Stage(r, "setup") \in S /\ Stage(r, "data") \in S /\ Stage(r, "status") \in S
    BY DEF Stage, Stages
  <2> HIDE DEF S
  <2> QED BY <2>1
<1>2. one \o two \in Seq(S) /\ Len(one \o two) \in Nat \ {0}
  <2> HIDE DEF one, two
  <2> QED BY SMTT(30), <1>1, ConcatProperties, LenProperties
<1>3. (one \o two) \o three \in Seq(S) /\ Len((one \o two) \o three) \in Nat \ {0}
  <2> HIDE DEF one, two, three
  <2> DEFINE front == one \o two
  <2>1. front \in Seq(S) /\ Len(front) \in Nat \ {0}
    BY <1>2
  <2> HIDE DEF front
  <2>2. front \o three \in Seq(S) /\ Len(front \o three) = Len(front) + Len(three)
    BY <1>1, <2>1, ConcatProperties
  <2>3. Len(three) \in Nat
    BY <1>1, LenProperties
  <2> QED BY <2>1, <2>2, <2>3 DEF front
<1> QED
  BY <1>3 DEF Control

\* Repeating a request gives stages of the same request.
LEMMA TimesType ==
  ASSUME NEW S, NEW n \in Nat, NEW q \in Seq(S), Len(q) \in Nat \ {0}
  PROVE  Times(n, q) \in Seq(S)
<1> DEFINE l == Len(q)
           k == n * l
<1>1. k \in Nat
  OBVIOUS
<1>2. \A i \in 1 .. k : 1 + ((i - 1) % l) \in 1 .. l
  <2> SUFFICES ASSUME NEW i \in 1 .. k PROVE 1 + ((i - 1) % l) \in 1 .. l
    OBVIOUS
  <2> DEFINE j == i - 1
  <2>1. j \in Int /\ l \in Nat /\ l > 0
    BY <1>1
  <2>2. 1 + (j % l) \in 1 .. l
    <3> HIDE DEF j, l
    <3> QED BY <2>1
  <2> QED BY <2>2
<1>3. \A i \in 1 .. k : q[1 + ((i - 1) % l)] \in S
  BY <1>2, ElementOfSeq
<1>4. [i \in 1 .. k |-> q[1 + ((i - 1) % l)]] \in [1 .. k -> S]
  BY <1>3
<1> QED
  BY <1>1, <1>4, SeqDef DEF Times

\* All that follows a protocol version is the accessory task's.
LEMMA HandshakeType ==
  ASSUME NEW v PROVE Handshake(v) \in Seq(Stages("conn"))
<1> DEFINE S == Stages("conn")
           a == Times(Idents, Control("ident"))
           b == IF v >= 2 THEN Control("audio") ELSE <<>>
           c == Control("start")
<1>1. a \in Seq(S)
  BY ControlType, TimesType, UsbAssumption DEF Tasks, Requests
<1>2. b \in Seq(S) /\ c \in Seq(S)
  BY ControlType DEF Tasks, Requests
<1>3. (a \o b) \o c \in Seq(S)
  <2> HIDE DEF a, b, c
  <2>1. a \o b \in Seq(S)
    BY <1>1, <1>2, ConcatProperties
  <2> QED BY <1>2, <2>1, ConcatProperties
<1> QED
  BY <1>3 DEF Handshake

\* What a task has yet to do, once some of it is done.
LEMMA TailType ==
  ASSUME NEW t \in Tasks, todo[t] \in Seq(Stages(t)), todo[t] # <<>>
  PROVE  Tail(todo[t]) \in Seq(Stages(t)) /\ Head(todo[t]) \in Stages(t)
  BY HeadTailProperties

\* A task's stages are stages.
LEMMA StagesIn ==
  ASSUME NEW t \in Tasks PROVE Stages(t) \subseteq AllStages /\ Seq(Stages(t)) \subseteq Seq(AllStages)
<1>1. Stages(t) \subseteq AllStages
  BY DEF Tasks, AllStages
<1> QED
  BY <1>1, SeqMonotonic

-----------------------------------------------------------------------------
(* Facts the steps share.                                                  *)

\* A task gets other stages of its own to send.
LEMMA NewTodo ==
  ASSUME Todo, NEW t \in Tasks, NEW l \in Seq(Stages(t)), todo' = [todo EXCEPT ![t] = l]
  PROVE  todo' \in [Tasks -> Seq(AllStages)] /\ \A u \in Tasks : todo'[u] \in Seq(Stages(u))
  BY StagesIn DEF Todo

\* k_sem_give changes one semaphore, and no task but the one it wakes.
LEMMA GiveKeeps ==
  ASSUME Types, Waits, NEW s \in Sems, Give(s), sem' = sem
  PROVE  /\ tokens' \in [Sems -> 0 .. 1] /\ waiter' \in [Sems -> Tasks \cup {NULL}]
         /\ pc' \in [Tasks -> {"idle", "set_up", "look", "block", "blocked"}]
         /\ Waits'
         /\ \A t \in Tasks : /\ pc'[t] = "idle" <=> pc[t] = "idle"
                             /\ pc'[t] = "set_up" <=> pc[t] = "set_up"
         /\ \A r \in Sems \ {s} : tokens'[r] = tokens[r]
<1>1. /\ tokens \in [Sems -> 0 .. 1] /\ waiter \in [Sems -> Tasks \cup {NULL}]
      /\ pc \in [Tasks -> {"idle", "set_up", "look", "block", "blocked"}]
  BY DEF Types
<1>2. CASE waiter[s] = NULL
  <2>1. tokens' = [tokens EXCEPT ![s] = 1] /\ waiter' = waiter /\ pc' = pc
    BY <1>2 DEF Give
  <2>2. Waits'
    BY <2>1 DEF Waits
  <2>3. tokens' \in [Sems -> 0 .. 1] /\ \A r \in Sems \ {s} : tokens'[r] = tokens[r]
    BY <1>1, <2>1
  <2>4. waiter' \in [Sems -> Tasks \cup {NULL}]
    BY <1>1, <2>1
  <2>5. /\ pc' \in [Tasks -> {"idle", "set_up", "look", "block", "blocked"}]
        /\ \A t \in Tasks : /\ pc'[t] = "idle" <=> pc[t] = "idle"
                            /\ pc'[t] = "set_up" <=> pc[t] = "set_up"
    BY <1>1, <2>1
  <2> QED BY <2>2, <2>3, <2>4, <2>5
<1>3. CASE waiter[s] # NULL
  <2>1. waiter[s] \in Tasks /\ pc[waiter[s]] = "blocked" /\ sem[waiter[s]] = s
    BY <1>1, <1>3 DEF Waits
  <2>2. /\ waiter' = [waiter EXCEPT ![s] = NULL] /\ tokens' = tokens
        /\ pc' = [pc EXCEPT ![waiter[s]] = "look"]
    BY <1>3 DEF Give
  <2>3. Waits'
    <3> SUFFICES ASSUME NEW r \in Sems, waiter'[r] # NULL
                 PROVE  sem'[waiter'[r]] = r /\ pc'[waiter'[r]] = "blocked"
      BY DEF Waits
    <3>1. r # s /\ waiter'[r] = waiter[r]
      BY <1>1, <2>2
    <3>2. sem[waiter[r]] = r /\ pc[waiter[r]] = "blocked" /\ waiter[r] \in Tasks
      BY <1>1, <3>1 DEF Waits
    <3> QED BY <1>1, <2>1, <2>2, <3>1, <3>2
  <2>4. \A t \in Tasks : /\ pc'[t] = "idle" <=> pc[t] = "idle"
                         /\ pc'[t] = "set_up" <=> pc[t] = "set_up"
    BY <1>1, <2>1, <2>2
  <2>5. tokens' \in [Sems -> 0 .. 1] /\ \A r \in Sems \ {s} : tokens'[r] = tokens[r]
    BY <1>1, <2>2
  <2>6. waiter' \in [Sems -> Tasks \cup {NULL}]
    BY <1>1, <2>2
  <2>7. pc' \in [Tasks -> {"idle", "set_up", "look", "block", "blocked"}]
    BY <1>1, <2>1, <2>2
  <2> QED BY <2>3, <2>4, <2>5, <2>6, <2>7
<1> QED BY <1>2, <1>3

\* What a task in hc_xfer works on, and what follows it.
LEMMA NextStage ==
  ASSUME Todo, NEW t \in Tasks, todo[t] # <<>>
  PROVE  /\ Transfer(t) \in Transfers /\ Transfer(t).what = Head(todo[t])
         /\ Transfer(t).what.of = "set_address" => t = "host"
         /\ Tail(todo[t]) \in Seq(Stages(t))
<1>1. Tail(todo[t]) \in Seq(Stages(t)) /\ Head(todo[t]) \in Stages(t)
  BY TailType DEF Todo
<1>2. Head(todo[t]) \in AllStages
  BY <1>1, StagesIn
<1>3. Head(todo[t]).of = "set_address" => t = "host"
  BY <1>1 DEF Stages, Requests, Tasks
<1> QED BY <1>1, <1>2, <1>3 DEF Transfer, Transfers

\* What the phone makes of a stage.
LEMMA HearsKeeps ==
  ASSUME phone \in Phones, proto \in 0 .. 2, NEW x \in AllStages, Hears(x)
  PROVE  /\ phone' \in Phones /\ proto' \in 0 .. 2
         /\ phone'.heard_reset = phone.heard_reset
         /\ x.of # "set_address" => phone'.addr = phone.addr
<1>1. x.of \in {s.of : s \in AllStages}
  OBVIOUS
<1>2. CASE /\ x.stage = "setup"
           /\ phone' = [phone EXCEPT !.req = x.of]
           /\ UNCHANGED proto
  BY <1>1, <1>2 DEF Phones
<1>3. CASE UNCHANGED phone /\ proto' \in 0 .. 2
  BY <1>3
<1>4. CASE /\ phone' = [phone EXCEPT !.req = NULL,
                          !.addr = IF x.of = "set_address" THEN 1 ELSE @,
                          !.accessory = @ \/ x.of = "start",
                          !.there = x.of # "start"]
           /\ UNCHANGED proto
  <2>1. (phone.accessory \/ x.of = "start") \in BOOLEAN /\ (x.of # "start") \in BOOLEAN
    OBVIOUS
  <2> DEFINE acc == phone.accessory \/ x.of = "start"
             th == x.of # "start"
  <2>2. phone' = [phone EXCEPT !.req = NULL, !.addr = IF x.of = "set_address" THEN 1 ELSE @,
                          !.accessory = acc, !.there = th]
    BY <1>4
  <2>3. acc \in BOOLEAN /\ th \in BOOLEAN
    BY <2>1
  <2> HIDE DEF acc, th
  <2> QED BY <1>4, <2>2, <2>3 DEF Phones
<1>5. \/ UNCHANGED phone /\ proto' \in 0 .. 2
      \/ x.stage = "setup" /\ phone' = [phone EXCEPT !.req = x.of] /\ UNCHANGED proto
      \/ /\ phone' = [phone EXCEPT !.req = NULL,
                          !.addr = IF x.of = "set_address" THEN 1 ELSE @,
                          !.accessory = @ \/ x.of = "start",
                          !.there = x.of # "start"]
         /\ UNCHANGED proto
  BY DEF Hears
<1> QED BY <1>2, <1>3, <1>4, <1>5

-----------------------------------------------------------------------------
(* The steps of hc_xfer and k_sem_take.                                    *)

\* A channel is taken.
LEMMA BeginKeeps ==
  ASSUME UsbInv, NEW t \in Tasks, Begin(t) PROVE UsbInv'
<1> USE SemsDiffer DEF UsbInv, Tasks
<1>a. PICK c \in Channels :
        /\ ~inuse[c]
        /\ inuse' = [inuse EXCEPT ![c] = TRUE] /\ sem' = [sem EXCEPT ![t] = c]
        /\ tokens' = [tokens EXCEPT ![c] = 0] /\ waiter' = [waiter EXCEPT ![c] = NULL]
        /\ ended' = [ended EXCEPT ![c] = NULL]
        /\ lost' = [lost EXCEPT ![c] = @ /\ hw[c] # NULL]
  BY DEF Begin, FreeChannel
<1>b. /\ pc[t] = "idle" /\ todo[t] # <<>>
      /\ to' = [to EXCEPT ![t] = s_dev_addr] /\ pc' = [pc EXCEPT ![t] = "set_up"]
      /\ UNCHANGED <<at, todo, hw, s_connected, s_dev_addr, proto, phone, plugs>>
  BY DEF Begin, GoTo, DeviceAddress, portVars
<1>c. (lost[c] /\ hw[c] # NULL) \in BOOLEAN
  OBVIOUS
<1>d. /\ lost' \in [Channels -> BOOLEAN] /\ lost'[c] = (lost[c] /\ hw[c] # NULL)
      /\ \A d \in Channels \ {c} : lost'[d] = lost[d]
  BY <1>a, <1>c DEF Types
<1>e. \A u \in Tasks : InTransfer(u) => u # t /\ sem[u] # c
  BY <1>a, <1>b DEF Used, InTransfer
<1>f. \A u \in Tasks : /\ InTransfer(u)' <=> u = t \/ InTransfer(u)
                       /\ Transfer(u)' = Transfer(u)
                       /\ u # t => pc'[u] = pc[u] /\ sem'[u] = sem[u]
  BY <1>a, <1>b DEF InTransfer, Transfer, Types
<1>g. pc'[t] = "set_up" /\ sem'[t] = c
  BY <1>a, <1>b DEF Types
<1>1. Types'
  BY <1>a, <1>b, <1>d DEF Types
<1>2. Todo'
  BY <1>b, <1>f DEF Todo
<1>3. Used'
  BY <1>a, <1>e, <1>f, <1>g DEF Used, Types
<1>4. Waits'
  BY <1>a, <1>b DEF Types, Waits
<1>5. Apart'
  BY <1>a, <1>b, <1>e, <1>f, <1>g DEF Apart, Types
<1>6. SentToOne'
  BY <1>a, <1>b DEF SentToOne, Types
<1>7. Unheard'
  BY <1>b DEF Unheard
<1>8. LeftOver'
  BY <1>a, <1>b, <1>d, <1>e, <1>f, <1>g DEF LeftOver, Types, InTransfer
<1>9. Ends'
  BY <1>a, <1>b, <1>d, <1>e, <1>f, <1>g DEF Ends, Types, InTransfer
<1> QED BY <1>1, <1>2, <1>3, <1>4, <1>5, <1>6, <1>7, <1>8, <1>9

\* The channel is programmed.
LEMMA EnableKeeps ==
  ASSUME UsbInv, NEW t \in Tasks, Enable(t) PROVE UsbInv'
<1> USE SemsDiffer DEF UsbInv, Tasks
<1>a. /\ pc[t] = "set_up" /\ to' = [to EXCEPT ![t] = 0] /\ pc' = [pc EXCEPT ![t] = "look"]
      /\ hw' = [hw EXCEPT ![sem[t]] = [transfer |-> Transfer(t), dev |-> to[t]]]
      /\ UNCHANGED <<at, todo, sem, tokens, waiter, inuse, ended, lost,
                     s_connected, s_dev_addr, proto, phone, plugs>>
  BY DEF Enable, GoTo, semVars, portVars
<1>b. sem[t] \in Channels /\ InTransfer(t) /\ todo[t] # <<>>
  BY <1>a DEF Apart, Todo, InTransfer
<1>c. /\ Transfer(t) \in Transfers /\ to[t] \in {0, 1}
      /\ Transfer(t).what.of = "set_address" => to[t] = 1
  BY <1>a, <1>b, NextStage DEF Types, SentToOne
<1>d. \A u \in Tasks : /\ InTransfer(u)' <=> InTransfer(u)
                       /\ Transfer(u)' = Transfer(u)
                       /\ u # t => pc'[u] = pc[u]
                       /\ InTransfer(u) /\ u # t => sem[u] # sem[t]
  BY <1>a, <1>b DEF InTransfer, Transfer, Types, Apart
<1>e. /\ hw' \in [Channels -> {NULL} \cup [transfer : Transfers, dev : {0, 1}]]
      /\ hw'[sem[t]] = [transfer |-> Transfer(t), dev |-> to[t]]
      /\ \A c \in Channels : c # sem[t] => hw'[c] = hw[c]
  BY <1>a, <1>b, <1>c DEF Types
<1>1. Types'
  BY <1>a, <1>e DEF Types
<1>2. Todo'
  BY <1>a, <1>d DEF Todo
<1>3. Used'
  BY <1>a, <1>d DEF Used
<1>4. Waits'
  BY <1>a DEF Types, Waits
<1>5. Apart'
  BY <1>a, <1>b, <1>d DEF Apart, InTransfer, Types
<1>6. SentToOne'
  BY <1>a, <1>c, <1>e DEF SentToOne, Types
<1>7. Unheard'
  BY <1>a DEF Unheard
<1>8. LeftOver'
  BY <1>a, <1>b, <1>d, <1>e DEF LeftOver, InTransfer, Types, Used
<1>9. Ends'
  BY <1>a, <1>b, <1>d, <1>e DEF Ends, InTransfer, Types
<1> QED BY <1>1, <1>2, <1>3, <1>4, <1>5, <1>6, <1>7, <1>8, <1>9

\* Of the two steps that end hc_xfer.
LEMMA LeaveChannel ==
  ASSUME UsbInv, NEW t \in Tasks, pc[t] = "look", sem[t] \in Channels,
         tokens' \in [Sems -> 0 .. 1], \A s \in Sems \ {sem[t]} : tokens'[s] = tokens[s],
         sem' = [sem EXCEPT ![t] = s_conn], pc' = [pc EXCEPT ![t] = "idle"],
         inuse' = [inuse EXCEPT ![sem[t]] = FALSE], todo' = [todo EXCEPT ![t] = Tail(@)],
         ended' = [ended EXCEPT ![sem[t]] = NULL],
         lost' \in [Channels -> BOOLEAN], hw[sem[t]] # NULL => lost'[sem[t]],
         \A c \in Channels \ {sem[t]} : lost'[c] = lost[c],
         UNCHANGED <<at, to, waiter, hw, s_connected, s_dev_addr, proto, phone, plugs>>
  PROVE  UsbInv'
<1> USE SemsDiffer DEF UsbInv, Tasks
<1>a. InTransfer(t) /\ todo[t] # <<>>
  BY DEF InTransfer, Todo
<1>b. Tail(todo[t]) \in Seq(Stages(t))
  BY <1>a, NextStage
<1>c. \A u \in Tasks : InTransfer(u)' <=> InTransfer(u) /\ u # t
  BY <1>a DEF InTransfer, Types
<1>d. \A u \in Tasks : u # t => /\ pc'[u] = pc[u] /\ sem'[u] = sem[u]
                               /\ todo'[u] = todo[u] /\ Transfer(u)' = Transfer(u)
  BY DEF Types, Todo, Transfer
<1>e. \A u \in Tasks : InTransfer(u)' => sem[u] # sem[t]
  BY <1>a, <1>c DEF Apart
<1>f. pc'[t] = "idle" /\ sem'[t] = s_conn
  BY DEF Types
<1>1. Types'
  BY DEF Types
<1>2. Todo'
  BY <1>b, <1>c, <1>d, NewTodo DEF Todo
<1>3. Used'
  BY <1>a, <1>c, <1>d, <1>e DEF Types, Used
<1>4. Waits'
  BY DEF Types, Waits
<1>5. Apart'
  BY <1>c, <1>d, <1>f DEF Apart
<1>6. SentToOne'
  BY <1>a, <1>d, <1>f DEF SentToOne
<1>7. Unheard'
  BY DEF Unheard
<1>8. LeftOver'
  BY <1>c, <1>d, <1>e DEF Types, LeftOver, InTransfer
<1>9. Ends'
  BY <1>c, <1>d, <1>e DEF Types, Ends, InTransfer
<1> QED BY <1>1, <1>2, <1>3, <1>4, <1>5, <1>6, <1>7, <1>8, <1>9

\* A token is taken, of a channel or of the port.
LEMMA TakeKeeps ==
  ASSUME UsbInv, NEW t \in Tasks, Take(t) PROVE UsbInv'
<1> USE SemsDiffer DEF UsbInv, Tasks
<1>1. CASE sem[t] \in Channels
  <2>1. /\ pc[t] = "look" /\ tokens[sem[t]] > 0
        /\ tokens' = [tokens EXCEPT ![sem[t]] = @ - 1]
        /\ sem' = [sem EXCEPT ![t] = s_conn] /\ pc' = [pc EXCEPT ![t] = "idle"]
        /\ inuse' = [inuse EXCEPT ![sem[t]] = FALSE] /\ todo' = [todo EXCEPT ![t] = Tail(@)]
        /\ ended' = [ended EXCEPT ![sem[t]] = NULL]
        /\ lost' = [lost EXCEPT ![sem[t]] = @ /\ hw[sem[t]] # NULL]
        /\ UNCHANGED <<at, to, waiter, hw, s_connected, s_dev_addr, proto, phone, plugs>>
    BY <1>1 DEF Take, GoTo, portVars
  <2>2. /\ tokens[sem[t]] = 1 /\ tokens' \in [Sems -> 0 .. 1]
        /\ \A s \in Sems \ {sem[t]} : tokens'[s] = tokens[s]
    BY <1>1, <2>1 DEF Types
  <2>3. (lost[sem[t]] /\ hw[sem[t]] # NULL) \in BOOLEAN
    OBVIOUS
  <2>4. /\ lost' \in [Channels -> BOOLEAN]
        /\ \A c \in Channels \ {sem[t]} : lost'[c] = lost[c]
        /\ lost'[sem[t]] = (lost[sem[t]] /\ hw[sem[t]] # NULL)
    BY <1>1, <2>1, <2>3 DEF Types
  <2>5. hw[sem[t]] # NULL => lost'[sem[t]]
    BY <1>1, <2>1, <2>2, <2>4 DEF Ends, InTransfer
  <2> QED BY <1>1, <2>1, <2>2, <2>4, <2>5, LeaveChannel
<1>2. CASE sem[t] \notin Channels
  <2>1. sem[t] = s_conn /\ pc[t] = "look"
    BY <1>2 DEF Types, Sems, Take
  <2>2. t = "host" /\ at["host"] = "wait"
    BY <2>1 DEF Apart
  <2>3. /\ tokens' = [tokens EXCEPT ![s_conn] = @ - 1] /\ tokens[s_conn] > 0
        /\ sem' = [sem EXCEPT !["host"] = s_conn] /\ pc' = [pc EXCEPT !["host"] = "idle"]
        /\ at' = [at EXCEPT !["host"] = "reset"]
        /\ UNCHANGED <<todo, inuse, ended, lost, to, waiter, hw,
                       s_connected, s_dev_addr, proto, phone, plugs>>
    BY <2>1, <2>2 DEF Take, GoTo, portVars
  <2>4. sem' = sem
    BY <2>1, <2>2, <2>3 DEF Types
  <2>5. \A u \in Tasks : /\ InTransfer(u)' <=> InTransfer(u)
                         /\ Transfer(u)' = Transfer(u)
                         /\ u # "host" => pc'[u] = pc[u]
    BY <2>1, <2>2, <2>3, <2>4 DEF InTransfer, Transfer, Types
  <2>6. \A c \in Channels : tokens'[c] = tokens[c]
    BY <2>3 DEF Types
  <2>7. pc'["host"] = "idle" /\ at'["host"] = "reset"
    BY <2>3 DEF Types
  <2>a. Types'
    BY <2>3, <2>4 DEF Types
  <2>b. Todo' /\ Used'
    BY <2>3, <2>4, <2>5 DEF Todo, Used
  <2>c. Waits'
    BY <2>1, <2>2, <2>3, <2>4 DEF Types, Waits
  <2>d. Apart'
    BY <2>2, <2>4, <2>5, <2>7 DEF Apart
  <2>e. SentToOne' /\ Unheard'
    BY <2>3, <2>7 DEF SentToOne, Unheard
  <2>f. LeftOver'
    BY <2>2, <2>3, <2>4, <2>5, <2>1 DEF LeftOver, InTransfer
  <2>g. Ends'
    BY <2>1, <2>2, <2>3, <2>4, <2>5, <2>6 DEF Ends, InTransfer
  <2> QED BY <2>a, <2>b, <2>c, <2>d, <2>e, <2>f, <2>g
<1> QED BY <1>1, <1>2

\* The deadline has passed.
LEMMA GiveUpKeeps ==
  ASSUME UsbInv, NEW t \in Tasks, GiveUp(t) PROVE UsbInv'
<1> USE SemsDiffer DEF UsbInv
<1>1. /\ pc[t] = "look" /\ sem[t] \in Channels
      /\ sem' = [sem EXCEPT ![t] = s_conn] /\ pc' = [pc EXCEPT ![t] = "idle"]
      /\ inuse' = [inuse EXCEPT ![sem[t]] = FALSE] /\ todo' = [todo EXCEPT ![t] = Tail(@)]
      /\ ended' = [ended EXCEPT ![sem[t]] = NULL]
      /\ lost' = [lost EXCEPT ![sem[t]] = hw[sem[t]] # NULL]
      /\ UNCHANGED <<at, to, tokens, waiter, hw, s_connected, s_dev_addr, proto, phone, plugs>>
  BY DEF GiveUp, GoTo, Types, Sems, semVars, portVars
<1>2. (hw[sem[t]] # NULL) \in BOOLEAN
  OBVIOUS
<1>3. /\ lost' \in [Channels -> BOOLEAN]
      /\ \A c \in Channels \ {sem[t]} : lost'[c] = lost[c]
      /\ lost'[sem[t]] = (hw[sem[t]] # NULL)
  BY <1>1, <1>2 DEF Types
<1>4. tokens' \in [Sems -> 0 .. 1] /\ \A s \in Sems \ {sem[t]} : tokens'[s] = tokens[s]
  BY <1>1 DEF Types
<1> QED BY <1>1, <1>3, <1>4, LeaveChannel

-----------------------------------------------------------------------------
(* The other steps of k_sem_take, the interrupts and the two loops.        *)

\* No token is there.
LEMMA MissKeeps ==
  ASSUME UsbInv, NEW t \in Tasks, Miss(t) PROVE UsbInv'
<1> USE SemsDiffer DEF UsbInv, Tasks
<1>a. /\ pc[t] = "look" /\ pc' = [pc EXCEPT ![t] = "block"]
      /\ UNCHANGED <<at, todo, sem, to, tokens, waiter, inuse, hw, ended, lost,
                     s_connected, s_dev_addr, proto, phone, plugs>>
  BY DEF Miss, GoTo, semVars, chVars, portVars
<1>b. \A u \in Tasks : /\ InTransfer(u)' <=> InTransfer(u)
                       /\ Transfer(u)' = Transfer(u)
                       /\ pc'[u] = "idle" <=> pc[u] = "idle"
                       /\ pc'[u] = "set_up" <=> pc[u] = "set_up"
  BY <1>a DEF InTransfer, Transfer, Types
<1>1. Types'
  BY <1>a DEF Types
<1>2. Todo'
  BY <1>a, <1>b DEF Todo
<1>3. Used'
  BY <1>a, <1>b DEF Used
<1>4. Waits'
  BY <1>a DEF Types, Waits
<1>5. Apart'
  BY <1>a, <1>b DEF Apart
<1>6. SentToOne'
  BY <1>a, <1>b DEF SentToOne
<1>7. Unheard'
  BY <1>a DEF Unheard
<1>8. LeftOver'
  BY <1>a, <1>b DEF LeftOver
<1>9. Ends'
  BY <1>a, <1>b DEF Ends
<1> QED BY <1>1, <1>2, <1>3, <1>4, <1>5, <1>6, <1>7, <1>8, <1>9

\* The task waits.
LEMMA BlockKeeps ==
  ASSUME UsbInv, NEW t \in Tasks, Block(t) PROVE UsbInv'
<1> USE SemsDiffer DEF UsbInv, Tasks
<1>a. /\ pc[t] = "block" /\ pc' = [pc EXCEPT ![t] = "blocked"]
      /\ waiter' = [waiter EXCEPT ![sem[t]] = t]
      /\ UNCHANGED <<at, todo, sem, to, tokens, inuse, hw, ended, lost,
                     s_connected, s_dev_addr, proto, phone, plugs>>
  BY DEF Block, GoTo, chVars, portVars
<1>b. \A u \in Tasks : /\ InTransfer(u)' <=> InTransfer(u)
                       /\ Transfer(u)' = Transfer(u)
                       /\ pc'[u] = "idle" <=> pc[u] = "idle"
                       /\ pc'[u] = "set_up" <=> pc[u] = "set_up"
  BY <1>a DEF InTransfer, Transfer, Types
<1>1. Types'
  BY <1>a DEF Types
<1>2. Todo'
  BY <1>a, <1>b DEF Todo
<1>3. Used'
  BY <1>a, <1>b DEF Used
<1>4. Waits'
  BY <1>a DEF Types, Waits
<1>5. Apart'
  BY <1>a, <1>b DEF Apart
<1>6. SentToOne'
  BY <1>a, <1>b DEF SentToOne
<1>7. Unheard'
  BY <1>a DEF Unheard
<1>8. LeftOver'
  BY <1>a, <1>b DEF LeftOver
<1>9. Ends'
  BY <1>a, <1>b DEF Ends
<1> QED BY <1>1, <1>2, <1>3, <1>4, <1>5, <1>6, <1>7, <1>8, <1>9

\* A transfer ends.
LEMMA ChannelIrqKeeps ==
  ASSUME UsbInv, NEW c \in Channels, ChannelIrq(c) PROVE UsbInv'
<1> USE SemsDiffer DEF UsbInv, Tasks
<1>a. /\ Give(c) /\ sem' = sem /\ c \in Sems /\ hw[c] # NULL
      /\ hw' = [hw EXCEPT ![c] = NULL] /\ ended' = [ended EXCEPT ![c] = hw[c].transfer]
      /\ UNCHANGED <<at, todo, to, inuse, lost, s_connected, s_dev_addr, plugs>>
  BY DEF ChannelIrq
<1>b. \A u \in Tasks : /\ InTransfer(u)' <=> InTransfer(u)
                       /\ Transfer(u)' = Transfer(u)
                       /\ pc'[u] = "idle" <=> pc[u] = "idle"
                       /\ pc'[u] = "set_up" <=> pc[u] = "set_up"
  BY <1>a, GiveKeeps DEF InTransfer, Transfer
<1>c. /\ tokens' \in [Sems -> 0 .. 1] /\ waiter' \in [Sems -> Tasks \cup {NULL}]
      /\ pc' \in [Tasks -> {"idle", "set_up", "look", "block", "blocked"}]
  BY <1>a, GiveKeeps
<1>d. /\ hw[c].transfer \in Transfers /\ hw[c].dev \in {0, 1}
      /\ hw[c].transfer.what \in AllStages
  BY <1>a DEF Types, Transfers
<1>e. /\ phone' \in Phones /\ proto' \in 0 .. 2
      /\ phone'.heard_reset = phone.heard_reset /\ phone'.addr = 0
      /\ ~phone.heard_reset => proto' = proto
  <2>1. CASE UNCHANGED <<phone, proto>>
    BY <2>1 DEF Types, SentToOne
  <2>2. CASE Listens(hw[c].dev) /\ Hears(hw[c].transfer.what)
    <3>1. hw[c].transfer.what.of # "set_address"
      BY <1>a, <2>2 DEF Listens, SentToOne
    <3>2. phone.heard_reset /\ phone.addr = 0
      BY <2>2 DEF Listens, SentToOne
    <3>3. phone \in Phones /\ proto \in 0 .. 2
      BY DEF Types
    <3> QED BY <1>d, <2>2, <3>1, <3>2, <3>3, HearsKeeps
  <2> QED BY <2>1, <2>2 DEF ChannelIrq
<1>f. hw' \in [Channels -> {NULL} \cup [transfer : Transfers, dev : {0, 1}]]
      /\ hw'[c] = NULL /\ \A d \in Channels \ {c} : hw'[d] = hw[d]
  BY <1>a DEF Types
<1>g. ended' \in [Channels -> {NULL} \cup Transfers]
      /\ ended'[c] = hw[c].transfer /\ \A d \in Channels \ {c} : ended'[d] = ended[d]
  BY <1>a, <1>d DEF Types
<1>h. \A d \in Channels \ {c} : tokens'[d] = tokens[d]
  BY <1>a, GiveKeeps
<1>1. Types'
  BY <1>a, <1>c, <1>e, <1>f, <1>g DEF Types
<1>2. Todo'
  BY <1>a, <1>b DEF Todo
<1>3. Used'
  BY <1>a, <1>b DEF Used
<1>4. Waits'
  BY <1>a, GiveKeeps
<1>5. Apart'
  BY <1>a, <1>b DEF Apart
<1>6. SentToOne'
  BY <1>a, <1>b, <1>e, <1>f DEF SentToOne
<1>7. Unheard'
  BY <1>a, <1>e DEF Unheard
<1>8. LeftOver'
  BY <1>a, <1>b, <1>f DEF LeftOver, InTransfer
<1>9. Ends'
  <2> SUFFICES ASSUME NEW u \in Tasks, InTransfer(u), tokens'[sem[u]] = 1
               PROVE  /\ ended'[sem[u]] = Transfer(u) \/ lost[sem[u]]
                      /\ (hw'[sem[u]] = NULL /\ pc[u] # "set_up") \/ lost[sem[u]]
    BY <1>a, <1>b DEF Ends
  <2>1. CASE sem[u] # c
    BY <1>f, <1>g, <1>h, <2>1 DEF Ends, InTransfer
  <2>2. CASE sem[u] = c
    BY <1>a, <1>f, <1>g, <2>2 DEF LeftOver
  <2> QED BY <2>1, <2>2
<1> QED BY <1>1, <1>2, <1>3, <1>4, <1>5, <1>6, <1>7, <1>8, <1>9

\* A phone is plugged in.
LEMMA AttachKeeps ==
  ASSUME UsbInv, Attach PROVE UsbInv'
<1> USE SemsDiffer DEF UsbInv, Tasks
<1>a. /\ Give(s_conn) /\ sem' = sem /\ s_conn \in Sems
      /\ plugs < MaxPlugs /\ plugs' = plugs + 1 /\ s_connected' = TRUE
      /\ UNCHANGED <<at, todo, to, inuse, hw, ended, lost, s_dev_addr, proto>>
  BY DEF Attach, chVars
<1>b. \A u \in Tasks : /\ InTransfer(u)' <=> InTransfer(u)
                       /\ Transfer(u)' = Transfer(u)
                       /\ pc'[u] = "idle" <=> pc[u] = "idle"
                       /\ pc'[u] = "set_up" <=> pc[u] = "set_up"
  BY <1>a, GiveKeeps DEF InTransfer, Transfer
<1>c. /\ tokens' \in [Sems -> 0 .. 1] /\ waiter' \in [Sems -> Tasks \cup {NULL}]
      /\ pc' \in [Tasks -> {"idle", "set_up", "look", "block", "blocked"}]
  BY <1>a, GiveKeeps
<1>d. phone' \in Phones /\ phone'.addr = 0 /\ ~phone'.heard_reset
  BY DEF Attach, Types, Phones
<1>e. \A d \in Channels : tokens'[d] = tokens[d]
  BY <1>a, GiveKeeps
<1>f. plugs' \in 0 .. MaxPlugs
  BY <1>a, UsbAssumption DEF Types
<1>1. Types'
  BY <1>a, <1>c, <1>d, <1>f DEF Types
<1>2. Todo'
  BY <1>a, <1>b DEF Todo
<1>3. Used'
  BY <1>a, <1>b DEF Used
<1>4. Waits'
  BY <1>a, GiveKeeps
<1>5. Apart'
  BY <1>a, <1>b DEF Apart
<1>6. SentToOne'
  BY <1>a, <1>b, <1>d DEF SentToOne
<1>7. Unheard'
  BY <1>a, <1>d DEF Unheard
<1>8. LeftOver'
  BY <1>a, <1>b DEF LeftOver
<1>9. Ends'
  BY <1>a, <1>b, <1>e DEF Ends, InTransfer
<1> QED BY <1>1, <1>2, <1>3, <1>4, <1>5, <1>6, <1>7, <1>8, <1>9

\* It is unplugged.
LEMMA DetachKeeps ==
  ASSUME UsbInv, Detach PROVE UsbInv'
<1> USE SemsDiffer DEF UsbInv, Tasks
<1>a. UNCHANGED <<at, todo, pc, sem, to, tokens, waiter, inuse, hw, ended, lost,
                  s_connected, s_dev_addr, proto, plugs>>
  BY DEF Detach, taskVars, semVars, chVars
<1>b. \A u \in Tasks : /\ InTransfer(u)' <=> InTransfer(u)
                       /\ Transfer(u)' = Transfer(u)
                       /\ pc'[u] = "idle" <=> pc[u] = "idle"
                       /\ pc'[u] = "set_up" <=> pc[u] = "set_up"
  BY <1>a DEF InTransfer, Transfer
<1>c. phone' \in Phones /\ phone'.addr = phone.addr /\ phone'.heard_reset = phone.heard_reset
  BY DEF Detach, Types, Phones
<1>1. Types'
  BY <1>a, <1>c DEF Types
<1>2. Todo'
  BY <1>a, <1>b DEF Todo
<1>3. Used'
  BY <1>a, <1>b DEF Used
<1>4. Waits'
  BY <1>a DEF Types, Waits
<1>5. Apart'
  BY <1>a, <1>b DEF Apart
<1>6. SentToOne'
  BY <1>a, <1>b, <1>c DEF SentToOne
<1>7. Unheard'
  BY <1>a, <1>c DEF Unheard
<1>8. LeftOver'
  BY <1>a, <1>b DEF LeftOver
<1>9. Ends'
  BY <1>a, <1>b DEF Ends
<1> QED BY <1>1, <1>2, <1>3, <1>4, <1>5, <1>6, <1>7, <1>8, <1>9

\* The port is reset.
LEMMA PortResetKeeps ==
  ASSUME UsbInv, PortReset PROVE UsbInv'
<1> USE SemsDiffer DEF UsbInv, Tasks
<1>a. /\ pc["host"] = "idle" /\ todo["host"] = <<>>
      /\ at["host"] = "reset"
      /\ at' = [at EXCEPT !["host"] = "address"] /\ todo' = [todo EXCEPT !["host"] = <<>>]
      /\ UNCHANGED <<pc, sem, to, tokens, waiter, inuse, hw, ended, lost,
                     s_connected, s_dev_addr, proto, plugs>>
  BY DEF PortReset, Idle, GoOn, semVars, chVars
<1>b. \A u \in Tasks : /\ InTransfer(u)' <=> InTransfer(u)
                       /\ InTransfer(u) => u # "host" /\ Transfer(u)' = Transfer(u)
  BY <1>a DEF InTransfer, Transfer, Types, Todo
<1>c. phone' \in Phones /\ phone'.addr = 0
  <2>1. phone \in Phones
    BY DEF Types
  <2> QED BY <2>1 DEF PortReset, Phones
<1>1. Types'
  BY <1>a, <1>c DEF Types
<1>2. Todo'
  <2>1. <<>> \in Seq(Stages("host"))
    BY ControlType, HandshakeType, EmptySeq DEF Requests
  <2> QED BY <1>a, <1>b, <2>1, NewTodo DEF Todo
<1>3. Used'
  BY <1>a, <1>b DEF Used
<1>4. Waits'
  BY <1>a DEF Types, Waits
<1>5. Apart'
  BY <1>a, <1>b DEF Apart, Types
<1>6. SentToOne'
  BY <1>a, <1>b, <1>c DEF SentToOne, Types
<1>7. Unheard'
  BY <1>a DEF Unheard, Types
<1>8. LeftOver'
  BY <1>a, <1>b DEF LeftOver
<1>9. Ends'
  BY <1>a, <1>b DEF Ends
<1> QED BY <1>1, <1>2, <1>3, <1>4, <1>5, <1>6, <1>7, <1>8, <1>9

\* SET_ADDRESS is begun.
LEMMA EnumerateKeeps ==
  ASSUME UsbInv, Enumerate PROVE UsbInv'
<1> USE SemsDiffer DEF UsbInv, Tasks
<1>a. /\ pc["host"] = "idle" /\ todo["host"] = <<>>
      /\ at["host"] = "address"
      /\ at' = [at EXCEPT !["host"] = "linger"]
      /\ todo' = [todo EXCEPT !["host"] = Control("set_address")]
      /\ s_dev_addr' = 1
      /\ UNCHANGED <<pc, sem, to, tokens, waiter, inuse, hw, ended, lost,
                     s_connected, proto, phone, plugs>>
  BY DEF Enumerate, Idle, GoOn, semVars, chVars
<1>b. \A u \in Tasks : /\ InTransfer(u)' <=> InTransfer(u)
                       /\ InTransfer(u) => u # "host" /\ Transfer(u)' = Transfer(u)
  BY <1>a DEF InTransfer, Transfer, Types, Todo
<1>1. Types'
  BY <1>a DEF Types
<1>2. Todo'
  <2>1. Control("set_address") \in Seq(Stages("host"))
    BY ControlType DEF Requests
  <2> QED BY <1>a, <1>b, <2>1, NewTodo DEF Todo
<1>3. Used'
  BY <1>a, <1>b DEF Used
<1>4. Waits'
  BY <1>a DEF Types, Waits
<1>5. Apart'
  BY <1>a, <1>b DEF Apart, Types
<1>6. SentToOne'
  BY <1>a, <1>b DEF SentToOne, Types
<1>7. Unheard'
  BY <1>a DEF Unheard, Types
<1>8. LeftOver'
  BY <1>a, <1>b DEF LeftOver
<1>9. Ends'
  BY <1>a, <1>b DEF Ends
<1> QED BY <1>1, <1>2, <1>3, <1>4, <1>5, <1>6, <1>7, <1>8, <1>9

\* The phone is asked for its protocol.
LEMMA ProbeKeeps ==
  ASSUME UsbInv, Probe PROVE UsbInv'
<1> USE SemsDiffer DEF UsbInv, Tasks
<1>a. /\ pc["conn"] = "idle" /\ todo["conn"] = <<>>
      /\ at["conn"] = "DISCONNECTED"
      /\ at' = [at EXCEPT !["conn"] = "GET_PROTO"]
      /\ todo' = [todo EXCEPT !["conn"] = Control("get_proto")]
      /\ proto' = 0
      /\ UNCHANGED <<pc, sem, to, tokens, waiter, inuse, hw, ended, lost,
                     s_connected, s_dev_addr, phone, plugs>>
  BY DEF Probe, Idle, GoOn, semVars, chVars
<1>b. \A u \in Tasks : /\ InTransfer(u)' <=> InTransfer(u)
                       /\ InTransfer(u) => u # "conn" /\ Transfer(u)' = Transfer(u)
  BY <1>a DEF InTransfer, Transfer, Types, Todo
<1>1. Types'
  BY <1>a DEF Types
<1>2. Todo'
  <2>1. Control("get_proto") \in Seq(Stages("conn"))
    BY ControlType DEF Requests
  <2> QED BY <1>a, <1>b, <2>1, NewTodo DEF Todo
<1>3. Used'
  BY <1>a, <1>b DEF Used
<1>4. Waits'
  BY <1>a DEF Types, Waits
<1>5. Apart'
  BY <1>a, <1>b DEF Apart, Types
<1>6. SentToOne'
  BY <1>a, <1>b DEF SentToOne, Types
<1>7. Unheard'
  BY <1>a DEF Unheard, Types
<1>8. LeftOver'
  BY <1>a, <1>b DEF LeftOver
<1>9. Ends'
  BY <1>a, <1>b DEF Ends
<1> QED BY <1>1, <1>2, <1>3, <1>4, <1>5, <1>6, <1>7, <1>8, <1>9

\* The phone has been asked to be an accessory.
LEMMA StartedKeeps ==
  ASSUME UsbInv, Started PROVE UsbInv'
<1> USE SemsDiffer DEF UsbInv, Tasks
<1>a. /\ pc["conn"] = "idle" /\ todo["conn"] = <<>>
      /\ at["conn"] = "START_ACC"
      /\ at' = [at EXCEPT !["conn"] = "CONNECTED"]
      /\ todo' = [todo EXCEPT !["conn"] = <<>>]
      /\ UNCHANGED <<pc, sem, to, tokens, waiter, inuse, hw, ended, lost,
                     s_connected, s_dev_addr, proto, phone, plugs>>
  BY DEF Started, Idle, GoOn, semVars, chVars, portVars
<1>b. \A u \in Tasks : /\ InTransfer(u)' <=> InTransfer(u)
                       /\ InTransfer(u) => u # "conn" /\ Transfer(u)' = Transfer(u)
  BY <1>a DEF InTransfer, Transfer, Types, Todo
<1>1. Types'
  BY <1>a DEF Types
<1>2. Todo'
  <2>1. <<>> \in Seq(Stages("conn"))
    BY EmptySeq
  <2> QED BY <1>a, <1>b, <2>1, NewTodo DEF Todo
<1>3. Used'
  BY <1>a, <1>b DEF Used
<1>4. Waits'
  BY <1>a DEF Types, Waits
<1>5. Apart'
  BY <1>a, <1>b DEF Apart, Types
<1>6. SentToOne'
  BY <1>a, <1>b DEF SentToOne, Types
<1>7. Unheard'
  BY <1>a DEF Unheard, Types
<1>8. LeftOver'
  BY <1>a, <1>b DEF LeftOver
<1>9. Ends'
  BY <1>a, <1>b DEF Ends
<1> QED BY <1>1, <1>2, <1>3, <1>4, <1>5, <1>6, <1>7, <1>8, <1>9

\* The version is asked for.
LEMMA VersionRequestKeeps ==
  ASSUME UsbInv, VersionRequest PROVE UsbInv'
<1> USE SemsDiffer DEF UsbInv, Tasks
<1>a. /\ pc["conn"] = "idle" /\ todo["conn"] = <<>>
      /\ at["conn"] = "CONNECTED"
      /\ at' = [at EXCEPT !["conn"] = "VERSION_NEG"]
      /\ todo' = [todo EXCEPT !["conn"] = <<Stage("version", "bulk")>>]
      /\ UNCHANGED <<pc, sem, to, tokens, waiter, inuse, hw, ended, lost,
                     s_connected, s_dev_addr, proto, phone, plugs>>
  BY DEF VersionRequest, Idle, GoOn, semVars, chVars, portVars
<1>b. \A u \in Tasks : /\ InTransfer(u)' <=> InTransfer(u)
                       /\ InTransfer(u) => u # "conn" /\ Transfer(u)' = Transfer(u)
  BY <1>a DEF InTransfer, Transfer, Types, Todo
<1>1. Types'
  BY <1>a DEF Types
<1>2. Todo'
  <2>1. Stage("version", "bulk") \in Stages("conn")
    BY DEF Stage, Stages, Requests
  <2>2. <<Stage("version", "bulk")>> \in Seq(Stages("conn"))
    BY <2>1
  <2> QED BY <1>a, <1>b, <2>2, NewTodo DEF Todo
<1>3. Used'
  BY <1>a, <1>b DEF Used
<1>4. Waits'
  BY <1>a DEF Types, Waits
<1>5. Apart'
  BY <1>a, <1>b DEF Apart, Types
<1>6. SentToOne'
  BY <1>a, <1>b DEF SentToOne, Types
<1>7. Unheard'
  BY <1>a DEF Unheard, Types
<1>8. LeftOver'
  BY <1>a, <1>b DEF LeftOver
<1>9. Ends'
  BY <1>a, <1>b DEF Ends
<1> QED BY <1>1, <1>2, <1>3, <1>4, <1>5, <1>6, <1>7, <1>8, <1>9

\* The answer is looked at.
LEMMA AnsweredKeeps ==
  ASSUME UsbInv, Answered PROVE UsbInv'
<1> USE SemsDiffer DEF UsbInv, Tasks
<1>a. /\ pc["conn"] = "idle" /\ todo["conn"] = <<>>
      /\ at["conn"] = "GET_PROTO"
      /\ \/ /\ proto >= 1
            /\ at' = [at EXCEPT !["conn"] = "START_ACC"]
            /\ todo' = [todo EXCEPT !["conn"] = Handshake(proto)]
         \/ /\ at' = [at EXCEPT !["conn"] = "DISCONNECTED"]
            /\ todo' = [todo EXCEPT !["conn"] = <<>>]
      /\ UNCHANGED <<pc, sem, to, tokens, waiter, inuse, hw, ended, lost,
                     s_connected, s_dev_addr, proto, phone, plugs>>
  BY DEF Answered, Idle, GoOn, semVars, chVars, portVars
<1>b. \A u \in Tasks : /\ InTransfer(u)' <=> InTransfer(u)
                       /\ InTransfer(u) => u # "conn" /\ Transfer(u)' = Transfer(u)
  BY <1>a DEF InTransfer, Transfer, Types, Todo
<1>c. PICK l \in Seq(Stages("conn")) : todo' = [todo EXCEPT !["conn"] = l]
  <2>1. Handshake(proto) \in Seq(Stages("conn")) /\ <<>> \in Seq(Stages("conn"))
    BY HandshakeType, EmptySeq
  <2> QED BY <1>a, <2>1
<1>d. todo' \in [Tasks -> Seq(AllStages)] /\ \A u \in Tasks : todo'[u] \in Seq(Stages(u))
  BY <1>c, NewTodo
<1>e. todo'["host"] = todo["host"] /\ at'["host"] = at["host"]
  BY <1>a DEF Types, Todo
<1>1. Types'
  BY <1>a DEF Types
<1>2. Todo'
  BY <1>a, <1>b, <1>d DEF Todo
<1>3. Used'
  BY <1>a, <1>b DEF Used
<1>4. Waits'
  BY <1>a DEF Types, Waits
<1>5. Apart'
  BY <1>a, <1>b, <1>e DEF Apart
<1>6. SentToOne'
  BY <1>a, <1>b, <1>e DEF SentToOne
<1>7. Unheard'
  BY <1>a, <1>e DEF Unheard, Types
<1>8. LeftOver'
  BY <1>a, <1>b DEF LeftOver
<1>9. Ends'
  BY <1>a, <1>b DEF Ends
<1> QED BY <1>1, <1>2, <1>3, <1>4, <1>5, <1>6, <1>7, <1>8, <1>9

-----------------------------------------------------------------------------
(* Theorems.                                                               *)

\* Nobody is in hc_xfer before the first device.
LEMMA UsbStart == ASSUME Init PROVE UsbInv
<1> USE SemsDiffer DEF Init, Tasks
<1>a. \A t \in Tasks : ~InTransfer(t)
  BY DEF InTransfer
<1>1. Types
  <2>1. phone \in Phones
    BY DEF Phones
  <2>2. plugs \in 0 .. MaxPlugs
    BY UsbAssumption
  <2>3. /\ at \in [host : {"wait", "reset", "address", "linger"},
                  conn : {"DISCONNECTED", "GET_PROTO", "START_ACC", "CONNECTED", "VERSION_NEG"}]
        /\ pc \in [Tasks -> {"idle", "set_up", "look", "block", "blocked"}]
        /\ sem \in [Tasks -> Sems] /\ to \in [Tasks -> {0, 1}]
    OBVIOUS
  <2>4. tokens \in [Sems -> 0 .. 1] /\ waiter \in [Sems -> Tasks \cup {NULL}]
    OBVIOUS
  <2>5. /\ inuse \in [Channels -> BOOLEAN] /\ lost \in [Channels -> BOOLEAN]
        /\ hw \in [Channels -> {NULL} \cup [transfer : Transfers, dev : {0, 1}]]
        /\ ended \in [Channels -> {NULL} \cup Transfers]
    OBVIOUS
  <2>6. s_connected \in BOOLEAN
    OBVIOUS
  <2>7. s_dev_addr \in {0, 1} /\ proto \in 0 .. 2
    OBVIOUS
  <2> QED BY <2>1, <2>2, <2>3, <2>4, <2>5, <2>6, <2>7 DEF Types
<1>2. Todo
  BY <1>a, EmptySeq DEF Todo
<1>3. Used
  BY <1>a DEF Used
<1>4. Waits
  BY DEF Waits
<1>5. Apart
  BY <1>a DEF Apart
<1>6. SentToOne
  BY DEF SentToOne
<1>7. Unheard
  BY DEF Unheard
<1>8. LeftOver
  BY <1>a DEF LeftOver
<1>9. Ends
  BY <1>a DEF Ends
<1> QED BY <1>1, <1>2, <1>3, <1>4, <1>5, <1>6, <1>7, <1>8, <1>9 DEF UsbInv

\* Every step keeps the invariant.
LEMMA UsbStep == ASSUME UsbInv, [Next]_vars PROVE UsbInv'
<1>1. CASE UNCHANGED vars
  BY <1>1 DEF UsbInv, vars, taskVars, semVars, chVars, portVars, Types, Todo, Used, Waits,
              Apart, SentToOne, Unheard, LeftOver, Ends, InTransfer, Transfer
<1>2. ASSUME NEW t \in Tasks,
             Begin(t) \/ Enable(t) \/ Take(t) \/ GiveUp(t) \/ Miss(t) \/ Block(t)
      PROVE  UsbInv'
  BY <1>2, BeginKeeps, EnableKeeps, TakeKeeps, GiveUpKeeps, MissKeeps, BlockKeeps
<1>3. ASSUME NEW c \in Channels, ChannelIrq(c) PROVE UsbInv'
  BY <1>3, ChannelIrqKeeps
<1>4. CASE Attach \/ Detach \/ PortReset \/ Enumerate
  BY <1>4, AttachKeeps, DetachKeeps, PortResetKeeps, EnumerateKeeps
<1>5. CASE Probe \/ Answered \/ Started \/ VersionRequest
  BY <1>5, ProbeKeeps, AnsweredKeeps, StartedKeeps, VersionRequestKeeps
<1> QED BY <1>1, <1>2, <1>3, <1>4, <1>5 DEF Next

\* The invariant holds throughout.
THEOREM UsbInductive == Spec => []UsbInv
<1>1. Init => UsbInv
  BY UsbStart
<1>2. UsbInv /\ [Next]_vars => UsbInv'
  BY UsbStep
<1> QED BY <1>1, <1>2, PTL DEF Spec

\* Types, and which channel is in use by whom: usb_stack.c's alloc_ch, free_ch and
\* hc_xfer hand every channel to one task at a time.
THEOREM UsbTypes == Spec => []TypeOK
<1>1. UsbInv => TypeOK
  <2> SUFFICES ASSUME UsbInv PROVE TypeOK
    OBVIOUS
  <2>1. phone.addr \in {0, 1}
    BY DEF UsbInv, Types, Phones
  <2> QED BY <2>1 DEF UsbInv, Types, Todo, Used, Waits, TypeOK
<1> QED BY <1>1, UsbInductive, PTL

\* A late interrupt completes another task's transfer, or an earlier one of the same
\* task, only on a channel that hc_xfer left with a transfer going on.
THEOREM StaleEnds == Spec => StaleOnlyAfterGivingUp
<1> DEFINE A == \A t \in Tasks :
                  (InTransfer(t) /\ pc[t] = "look" /\ pc'[t] = "idle" /\ tokens[sem[t]] = 1)
                    => ended[sem[t]] = Transfer(t) \/ lost[sem[t]]
<1>1. UsbInv => [A]_vars
  BY DEF UsbInv, Ends
<1> QED BY <1>1, UsbInductive, PTL DEF StaleOnlyAfterGivingUp

\* What usb_host_task's assignment of the address before SET_ADDRESS comes to: a phone
\* never has the address that the host talks to from then on.  One that has become an
\* accessory was talked to between the reset of the port and the assignment, and one that
\* is plugged in later never hears anything.
NeverAddressed ==
  /\ phone.addr = 0
  /\ at["host"] = "wait" => ~phone.heard_reset /\ at["conn"] \in {"DISCONNECTED", "GET_PROTO"}

\* So it is with any number of channels and phones, whatever is late or lost.
THEOREM AddressUnheard == Spec => []NeverAddressed
<1>1. UsbInv => NeverAddressed
  BY DEF UsbInv, SentToOne, Unheard, NeverAddressed
<1> QED BY <1>1, UsbInductive, PTL

=============================================================================
