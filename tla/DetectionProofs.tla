--------------------------- MODULE DetectionProofs ---------------------------
(***************************************************************************)
(* Proofs about Detection for every set of boards, whatever chips they     *)
(* carry and whatever these answer, and any number of disturbed            *)
(* transactions.                                                           *)
(***************************************************************************)
EXTENDS Detection, FiniteSetTheorems, TLAPS

(***************************************************************************)
(* The tables.                                                             *)
(***************************************************************************)
LEMMA TableLengths ==
  /\ Len(Panels) = 10 /\ Len(TouchIcs) = 12 /\ Len(TouchAddrs) = 8
  /\ Len(Codecs) = 9 /\ Len(AudioAddrs) = 5 /\ Len(Peripherals) = 27
BY DEF Panels, TouchIcs, TouchAddrs, Codecs, AudioAddrs, Peripherals

\* The row that is taken without a transaction, and its address.
LEMMA Ns2009Row == TouchAddrs[5] = \h48 /\ \h48 \in TouchIcs[9].addrs /\ Len(TouchIcs[9].id) = 0
<1>1. TouchAddrs[5] = \h48
  BY DEF TouchAddrs
<1>2. \h48 \in TouchIcs[9].addrs
  BY SMTT(30) DEF TouchIcs, Touch
<1>3. Len(TouchIcs[9].id) = 0
  BY SMTT(30) DEF TouchIcs, Touch
<1> QED BY <1>1, <1>2, <1>3

\* A row whose init_fn can be called asks for an identification.
LEMMA CallableRowsAsk ==
  ASSUME NEW i \in 1 .. 12, TouchIcs[i].callable
  PROVE  Len(TouchIcs[i].id) # 0
<1>1. Len(TouchIcs[1].id) # 0
  BY SMTT(30) DEF TouchIcs, Touch
<1>2. Len(TouchIcs[2].id) # 0
  BY SMTT(30) DEF TouchIcs, Touch
<1>3. ~ TouchIcs[3].callable
  BY SMTT(30) DEF TouchIcs, Touch
<1>4. ~ TouchIcs[4].callable
  BY SMTT(30) DEF TouchIcs, Touch
<1>5. ~ TouchIcs[5].callable
  BY SMTT(30) DEF TouchIcs, Touch
<1>6. ~ TouchIcs[6].callable
  BY SMTT(30) DEF TouchIcs, Touch
<1>7. ~ TouchIcs[7].callable
  BY SMTT(30) DEF TouchIcs, Touch
<1>8. ~ TouchIcs[8].callable
  BY SMTT(30) DEF TouchIcs, Touch
<1>9. ~ TouchIcs[9].callable
  BY SMTT(30) DEF TouchIcs, Touch
<1>10. ~ TouchIcs[10].callable
  BY SMTT(30) DEF TouchIcs, Touch
<1>11. ~ TouchIcs[11].callable
  BY SMTT(30) DEF TouchIcs, Touch
<1>12. ~ TouchIcs[12].callable
  BY SMTT(30) DEF TouchIcs, Touch
<1> QED BY <1>1, <1>2, <1>3, <1>4, <1>5, <1>6, <1>7, <1>8, <1>9, <1>10, <1>11, <1>12

\* No row has an index past that of the longest table that is searched.
LEMMA MinExists ==
  ASSUME NEW S \in SUBSET (1 .. 12), S # {}
  PROVE  Min(S) \in S /\ \A y \in S : Min(S) <= y
<1>1. PICK z \in S : TRUE
  OBVIOUS
<1>2. \E k \in 1 .. 12 : k \in S /\ \A j \in 1 .. 12 : j < k => j \notin S
  BY <1>1
<1>3. \E x \in S : \A y \in S : x <= y
  BY <1>2
<1> QED BY <1>3 DEF Min

LEMMA LeastIsMin ==
  ASSUME NEW S \in SUBSET Nat, NEW x \in S, \A y \in S : x <= y
  PROVE  Min(S) = x
<1>1. Min(S) \in S /\ \A y \in S : Min(S) <= y
  BY DEF Min
<1>2. Min(S) <= x /\ x <= Min(S) /\ x \in Nat /\ Min(S) \in Nat
  BY <1>1
<1> QED BY <1>2

(***************************************************************************)
(* What the probes may return.                                             *)
(***************************************************************************)
LEMMA PanelFoundOK == PanelFound \in 1 .. Len(Panels)
<1> DEFINE Hits == {i \in 1 .. Len(Panels) - 1 :
                      AgreeAll(PanelAnswer(Panels[i].cmd), Panels[i].id, Panels[i].mask)}
<1>1. Hits \in SUBSET (1 .. 9)
  BY TableLengths
<1>2. PanelFound = IF board.panel.cs = 10 /\ Hits # {} THEN Min(Hits) ELSE Len(Panels)
  BY DEF PanelFound
<1> HIDE DEF Hits
<1>3. CASE board.panel.cs = 10 /\ Hits # {}
  <2>1. Hits \in SUBSET (1 .. 12)
    BY <1>1
  <2>2. Min(Hits) \in Hits
    BY <1>3, <2>1, MinExists
  <2>3. Min(Hits) \in 1 .. 9
    BY <1>1, <2>2
  <2>4. PanelFound = Min(Hits)
    BY <1>2, <1>3
  <2> QED BY <2>3, <2>4, TableLengths
<1>4. CASE ~ (board.panel.cs = 10 /\ Hits # {})
  <2>1. PanelFound = Len(Panels)
    BY <1>2, <1>4
  <2> QED BY <2>1, TableLengths
<1> QED BY <1>3, <1>4

\* At the latest the NS2009 is taken, so that some row always is.
LEMMA TouchFoundOK ==
  \E k \in 1 .. 8 : \E i \in 1 .. 12 : TouchFound = <<i, TouchAddrs[k]>> /\ TouchAccepts(i, TouchAddrs[k])
<1> DEFINE Ks == {j \in 1 .. Len(TouchAddrs) : TouchHits(j) # {}}
<1>1. 9 \in TouchHits(5)
  BY Ns2009Row, TableLengths DEF TouchHits, TouchAccepts
<1>2. Ks \in SUBSET (1 .. 12) /\ Ks # {}
  BY <1>1, TableLengths
<1>3. Min(Ks) \in Ks
  BY <1>2, MinExists
<1>4. Min(Ks) \in 1 .. 8 /\ TouchHits(Min(Ks)) # {}
  BY <1>3, TableLengths
<1>5. TouchFound = <<Min(TouchHits(Min(Ks))), TouchAddrs[Min(Ks)]>>
  BY DEF TouchFound
<1> HIDE DEF Ks
<1>6. TouchHits(Min(Ks)) \in SUBSET (1 .. 12)
  BY TableLengths DEF TouchHits
<1>7. Min(TouchHits(Min(Ks))) \in TouchHits(Min(Ks))
  BY <1>4, <1>6, MinExists
<1>8. /\ Min(TouchHits(Min(Ks))) \in 1 .. 12
      /\ TouchAccepts(Min(TouchHits(Min(Ks))), TouchAddrs[Min(Ks)])
  BY <1>7, TableLengths DEF TouchHits
<1> QED BY <1>4, <1>5, <1>8

(***************************************************************************)
(* The device tree.                                                        *)
(***************************************************************************)

\* k is the first node of N with exactly the category c, 0 if there is none.
IsFirst(k, N, c) ==
  /\ k # 0 => k \in 1 .. Len(N) /\ N[k].category = {c}
  /\ \A i \in 1 .. Len(N) : N[i].category = {c} => k # 0 /\ k <= i

\* The part of the invariant about the table and its primaries.
TreeOK ==
  /\ nodes \in Seq(Nodes)
  /\ primary \in [Primaries -> 0 .. Len(nodes)]
  /\ \A c \in Primaries : IsFirst(primary[c], nodes, c)

\* The places that detection may have filled before it enters a step.
WithinBudget ==
  /\ phase \in {"scan", "lcd"} => Len(nodes) = 0
  /\ phase \in {"touch", "fault"} => Len(nodes) <= 1
  /\ phase = "audio" => Len(nodes) <= 2
  /\ phase = "sensors" => Len(nodes) <= 2 + step
  /\ Len(nodes) <= 30

Inv ==
  /\ TypeOK
  /\ TreeOK
  /\ WithinBudget
  /\ phase = "audio" => step <= 6
  /\ phase = "scan" => found = 0
  /\ ClaimsAnswer

\* A node appended keeps the first of each category and adds its own.
LEMMA RegisterKeepsTree ==
  ASSUME NEW name \in Names, NEW category \in SUBSET Categories,
         NEW bus \in {"SPI", "I2C", "I2S"}, NEW addr \in Places,
         TreeOK, HasRoom(nodes), Register(name, category, bus, addr)
  PROVE  /\ TreeOK'
         /\ nodes' = Append(nodes, [name |-> name, category |-> category,
                                    bus |-> bus, addr |-> addr])
         /\ \A c \in Primaries : primary[c] # 0 => primary'[c] = primary[c]
<1> DEFINE node == [name |-> name, category |-> category, bus |-> bus, addr |-> addr]
           Hits(N, c) == {i \in 1 .. Len(N) : N[i].category = {c}}
<1>1. node \in Nodes /\ node.category = category
  BY DEF Nodes
<1>2. nodes' = Append(nodes, node)
      /\ primary' = [c \in Primaries |-> IF BecomesPrimary(c, category)
                                         THEN Len(nodes) + 1 ELSE primary[c]]
  BY DEF Register
<1> HIDE DEF node
<1>3. /\ nodes \in Seq(Nodes) /\ Len(nodes) \in Nat
      /\ nodes' \in Seq(Nodes) /\ Len(nodes') = Len(nodes) + 1
      /\ \A i \in 1 .. Len(nodes) : nodes'[i] = nodes[i]
      /\ nodes'[Len(nodes) + 1] = node
  BY <1>1, <1>2 DEF TreeOK
<1>4. primary' \in [Primaries -> 0 .. Len(nodes')]
  BY <1>2, <1>3 DEF TreeOK
<1>5. ASSUME NEW c \in Primaries
      PROVE  IsFirst(primary'[c], nodes', c)
  <2>1. IsFirst(primary[c], nodes, c) /\ primary[c] \in 0 .. Len(nodes)
    BY DEF TreeOK
  <2>2. primary'[c] = IF category = {c} /\ primary[c] = 0 THEN Len(nodes) + 1 ELSE primary[c]
    BY <1>2 DEF BecomesPrimary
  <2>3. \A i \in 1 .. Len(nodes') : i \in 1 .. Len(nodes) \/ i = Len(nodes) + 1
    BY <1>3
  <2> QED BY <2>1, <2>2, <2>3, <1>1, <1>3 DEF IsFirst
<1>6. \A c \in Primaries : primary[c] # 0 => primary'[c] = primary[c]
  BY <1>2 DEF BecomesPrimary
<1> QED BY <1>2, <1>3, <1>4, <1>5, <1>6 DEF TreeOK, node

\* devtree_find agrees with the primaries.
LEMMA FirstIsFound ==
  ASSUME TreeOK
  PROVE  PrimariesAreFirst
<1> SUFFICES ASSUME NEW c \in Primaries
             PROVE  primary[c] = Find({c})
  BY DEF PrimariesAreFirst
<1> DEFINE Hits == {i \in 1 .. Len(nodes) : nodes[i].category = {c}}
<1>1. IsFirst(primary[c], nodes, c) /\ primary[c] \in 0 .. Len(nodes)
  BY DEF TreeOK
<1>2. Hits \in SUBSET Nat
  OBVIOUS
<1>3. CASE primary[c] = 0
  <2>1. Hits = {}
    BY <1>1, <1>3 DEF IsFirst
  <2> QED BY <1>3, <2>1 DEF Find
<1>4. CASE primary[c] # 0
  <2>1. primary[c] \in Hits /\ \A y \in Hits : primary[c] <= y
    BY <1>1, <1>4 DEF IsFirst
  <2>2. Find({c}) = Min(Hits)
    BY <2>1 DEF Find
  <2> HIDE DEF Hits
  <2> QED BY <1>2, <2>1, <2>2, LeastIsMin
<1> QED BY <1>3, <1>4

(***************************************************************************)
(* The board does not change, so that what a chip answers does not.        *)
(***************************************************************************)
LEMMA AnswersStay ==
  ASSUME UNCHANGED board
  PROVE  \A name, addr : AnswersAs(name, addr) => AnswersAs(name, addr)'
<1>1. \A a, w, r : Answer(a, w, r)' = Answer(a, w, r)
  BY DEF Answer
<1>2. \A a : Acks(a)' = Acks(a)
  BY DEF Acks
<1>3. \A j, a : TouchAccepts(j, a) => TouchAccepts(j, a)'
  BY <1>1, <1>2 DEF TouchAccepts
<1>4. \A j, a : CodecAgrees(j, a) => CodecAgrees(j, a)'
  BY <1>1 DEF CodecAgrees
<1>5. \A row, a : PeriphAgrees(row, a) => PeriphAgrees(row, a)'
  BY <1>1, <1>2 DEF PeriphAgrees
<1> QED BY <1>2, <1>3, <1>4, <1>5 DEF AnswersAs

\* ClaimsAnswer, said of names and addresses rather than of indices.
Registered(name, addr) ==
  \E i \in 1 .. Len(nodes) : nodes[i].bus = "I2C" /\ nodes[i].name = name /\ nodes[i].addr = addr

ClaimsByName ==
  \A name, addr : Registered(name, addr) /\ addr \notin disturbed => AnswersAs(name, addr)

LEMMA ClaimsRestated == ClaimsAnswer <=> ClaimsByName
BY DEF ClaimsAnswer, ClaimsByName, Registered

LEMMA ClaimsStay ==
  ASSUME UNCHANGED <<board, nodes>>, disturbed \subseteq disturbed', ClaimsAnswer
  PROVE  ClaimsAnswer'
<1>1. ClaimsByName
  BY ClaimsRestated
<1>2. ASSUME NEW name, NEW addr, Registered(name, addr)', addr \notin disturbed'
      PROVE  AnswersAs(name, addr)'
  <2>1. Registered(name, addr) /\ addr \notin disturbed
    BY <1>2 DEF Registered
  <2>2. AnswersAs(name, addr)
    BY <1>1, <2>1 DEF ClaimsByName
  <2> QED BY <2>2, AnswersStay
<1>3. ClaimsByName'
  BY <1>2 DEF ClaimsByName
<1>4. (ClaimsAnswer <=> ClaimsByName)'
  BY ClaimsRestated, PTL
<1> QED BY <1>3, <1>4

LEMMA ClaimAdded ==
  ASSUME UNCHANGED board, disturbed \subseteq disturbed', ClaimsAnswer, nodes \in Seq(Nodes),
         NEW node \in Nodes, nodes' = Append(nodes, node),
         node.bus = "I2C" /\ node.addr \notin disturbed' => AnswersAs(node.name, node.addr)
  PROVE  ClaimsAnswer'
<1>1. ClaimsByName
  BY ClaimsRestated
<1>2. ASSUME NEW name, NEW addr, Registered(name, addr)', addr \notin disturbed'
      PROVE  AnswersAs(name, addr)'
  <2>1. Registered(name, addr) \/ (node.bus = "I2C" /\ node.name = name /\ node.addr = addr)
    BY <1>2 DEF Registered
  <2>2. AnswersAs(name, addr)
    BY <1>1, <1>2, <2>1 DEF ClaimsByName
  <2> QED BY <2>2, AnswersStay
<1>3. ClaimsByName'
  BY <1>2 DEF ClaimsByName
<1>4. (ClaimsAnswer <=> ClaimsByName)'
  BY ClaimsRestated, PTL
<1> QED BY <1>3, <1>4

(***************************************************************************)
(* What a step that registers a device, and one that does not, preserves.  *)
(***************************************************************************)
\* A lemma about finite sets, for the number of devices on the bus.
LEMMA BusSize ==
  ASSUME NEW S \in SUBSET (8 .. 119)
  PROVE  IsFiniteSet(S) /\ Cardinality(S) \in 0 .. 112
<1>1. 8 \in Int /\ 119 \in Int /\ ~ (8 > 119) /\ 119 - 8 + 1 = 112
  OBVIOUS
<1>2. /\ IsFiniteSet(8 .. 119)
      /\ Cardinality(8 .. 119) = IF 8 > 119 THEN 0 ELSE 119 - 8 + 1
  <2>1. 8 \in Int /\ 119 \in Int
    OBVIOUS
  <2> QED BY <2>1, FS_Interval, Zenon
<1>3. Cardinality(8 .. 119) = 112
  BY <1>1, <1>2
<1>4. IsFiniteSet(S) /\ Cardinality(S) <= Cardinality(8 .. 119)
  BY <1>2, FS_Subset, Zenon
<1>5. Cardinality(S) \in Nat
  BY <1>4, FS_CardinalityType
<1> QED BY <1>3, <1>4, <1>5

\* What a step does to the devices that are registered already.
Keeps ==
  /\ Len(nodes') >= Len(nodes) /\ SubSeq(nodes', 1, Len(nodes)) = nodes
  /\ \A c \in Primaries : primary[c] # 0 => primary'[c] = primary[c]

\* The invariant allows the device a place in the table.
LEMMA Registers ==
  ASSUME Inv, UNCHANGED board, disturbed \subseteq disturbed',
         NEW name \in Names, NEW category \in SUBSET Categories,
         NEW bus \in {"SPI", "I2C", "I2S"}, NEW addr \in Places,
         Register(name, category, bus, addr),
         bus = "I2C" /\ addr \notin disturbed' => AnswersAs(name, addr)
  PROVE  TreeOK' /\ ClaimsAnswer' /\ Keeps /\ Len(nodes') = Len(nodes) + 1
<1> DEFINE node == [name |-> name, category |-> category, bus |-> bus, addr |-> addr]
<1>1. TreeOK /\ ClaimsAnswer /\ nodes \in Seq(Nodes) /\ Len(nodes) \in Nat
  BY DEF Inv, TreeOK
<1>2. HasRoom(nodes)
  <2>1. Len(nodes) <= 30
    BY DEF Inv, WithinBudget
  <2> QED BY <1>1, <2>1 DEF HasRoom, MAX_DEVICE_NODES
<1>3. /\ TreeOK' /\ nodes' = Append(nodes, node)
      /\ \A c \in Primaries : primary[c] # 0 => primary'[c] = primary[c]
  BY <1>1, <1>2, RegisterKeepsTree
<1>4. node \in Nodes /\ node.bus = bus /\ node.addr = addr /\ node.name = name
  BY DEF Nodes
<1> HIDE DEF node
<1>5. ClaimsAnswer'
  BY <1>1, <1>3, <1>4, ClaimAdded
<1>6. Len(nodes') = Len(nodes) + 1
  BY <1>1, <1>3, <1>4
<1>7. SubSeq(nodes', 1, Len(nodes)) = nodes
  BY <1>1, <1>3, <1>4
<1>8. Keeps
  BY <1>1, <1>3, <1>6, <1>7 DEF Keeps
<1> QED BY <1>3, <1>5, <1>6, <1>8

LEMMA RegistersNone ==
  ASSUME Inv, UNCHANGED <<board, nodes, primary>>, disturbed \subseteq disturbed'
  PROVE  TreeOK' /\ ClaimsAnswer' /\ Keeps
<1>1. TreeOK'
  BY DEF Inv, TreeOK
<1>2. ClaimsAnswer'
  BY ClaimsStay DEF Inv
<1>3. Keeps
  BY DEF Inv, TreeOK, Keeps
<1> QED BY <1>1, <1>2, <1>3

\* TypeOK without the table.
LEMMA TypesFollow ==
  ASSUME TypeOK, TreeOK', UNCHANGED board,
         phase' \in {"scan", "lcd", "touch", "audio", "sensors", "done", "fault"},
         step' \in 1 .. 27, found' \in 0 .. 112,
         context' \in [{"lcd", "touch", "codec"} -> (0 .. 12) \X Places],
         disturbed' \subseteq PolledOver, Cardinality(disturbed') <= MaxDisturbed
  PROVE  TypeOK'
BY TableLengths DEF TypeOK, TreeOK

(***************************************************************************)
(* The invariant holds at the start and every action preserves it.         *)
(***************************************************************************)
LEMMA InitInv == Init => Inv
<1> SUFFICES ASSUME Init PROVE Inv
  OBVIOUS
<1>1. TreeOK
  BY DEF Init, TreeOK, IsFirst
<1>2. Cardinality(disturbed) <= MaxDisturbed
  BY BoardsAssumption, FS_EmptySet DEF Init
<1>3. TypeOK
  <2>1. context \in [{"lcd", "touch", "codec"} -> (0 .. Len(TouchIcs)) \X Places]
    BY TableLengths DEF Init, NoContext, Places
  <2> QED BY <1>1, <1>2, <2>1, TableLengths DEF Init, TreeOK, TypeOK
<1>4. WithinBudget
  BY DEF Init, WithinBudget
<1>5. ClaimsAnswer
  BY DEF Init, ClaimsAnswer
<1> QED BY <1>1, <1>3, <1>4, <1>5 DEF Init, Inv

LEMMA ScanInv == Inv /\ Scan => Inv' /\ Keeps
<1> SUFFICES ASSUME Inv, Scan PROVE Inv' /\ Keeps
  OBVIOUS
<1> DEFINE S == {a \in 8 .. 119 : Acks(a)}
<1>1. TreeOK' /\ ClaimsAnswer' /\ Keeps
  BY RegistersNone DEF Scan
<1>2. S \subseteq 8 .. 119
  OBVIOUS
<1>3. Cardinality(S) \in 0 .. 112
  BY <1>2, BusSize
<1>4. found' = Cardinality(S)
  <2>1. found = 0 /\ found' = found + Cardinality(S)
    BY DEF Inv, Scan
  <2> HIDE DEF S
  <2> QED BY <1>3, <2>1
<1> HIDE DEF S
<1>5. phase' = "lcd" /\ step' = 1
  BY DEF Scan, Enter
<1>6. TypeOK'
  <2>1. TypeOK /\ context' = context /\ disturbed' = disturbed /\ board' = board
    BY DEF Inv, Scan
  <2> QED BY <1>1, <1>3, <1>4, <1>5, <2>1, TypesFollow, TableLengths DEF TypeOK
<1>7. WithinBudget'
  BY <1>5 DEF Inv, Scan, WithinBudget
<1> QED BY <1>1, <1>5, <1>6, <1>7 DEF Inv

LEMMA ProbeLcdInv == Inv /\ ProbeLcd => Inv' /\ Keeps
<1> SUFFICES ASSUME Inv, ProbeLcd PROVE Inv' /\ Keeps
  OBVIOUS
<1>1. PanelFound \in 1 .. 10
  BY PanelFoundOK, TableLengths
<1>2. Panels[PanelFound].name \in Names
  BY <1>1, TableLengths DEF Names
<1>3. {"LCD"} \in SUBSET Categories /\ 10 \in Places
  BY DEF Categories, Primaries, Places
<1>4. TreeOK' /\ ClaimsAnswer' /\ Keeps /\ Len(nodes') = Len(nodes) + 1
  BY <1>2, <1>3, Registers DEF ProbeLcd
<1>5. phase' = "touch" /\ step' = 1
  BY DEF ProbeLcd, Enter
<1>6. TypeOK'
  <2>1. /\ TypeOK /\ context' = [context EXCEPT !["lcd"] = <<PanelFound, 10>>]
        /\ UNCHANGED <<board, disturbed, found>>
    BY DEF Inv, ProbeLcd
  <2>2. context' \in [{"lcd", "touch", "codec"} -> (0 .. 12) \X Places]
    <3>1. context \in [{"lcd", "touch", "codec"} -> (0 .. 12) \X Places]
      BY <2>1, TableLengths DEF TypeOK
    <3>2. <<PanelFound, 10>> \in (0 .. 12) \X Places
      BY <1>1, <1>3
    <3> QED BY <2>1, <3>1, <3>2
  <2> QED BY <1>4, <1>5, <2>1, <2>2, TypesFollow DEF TypeOK
<1>7. WithinBudget'
  BY <1>4, <1>5 DEF Inv, TreeOK, ProbeLcd, WithinBudget
<1> QED BY <1>4, <1>5, <1>6, <1>7 DEF Inv

LEMMA TouchReadyInv == Inv /\ TouchReady => Inv' /\ Keeps
<1> SUFFICES ASSUME Inv, TouchReady PROVE Inv' /\ Keeps
  OBVIOUS
<1>1. PICK k \in 1 .. 8, i \in 1 .. 12 :
        TouchFound = <<i, TouchAddrs[k]>> /\ TouchAccepts(i, TouchAddrs[k])
  BY TouchFoundOK
<1>2. /\ TouchIcs[i].callable
      /\ context' = [context EXCEPT !["touch"] = <<i, TouchAddrs[k]>>]
      /\ Register(TouchIcs[i].name, {"TOUCH"}, "I2C", TouchAddrs[k])
      /\ phase' = "audio" /\ step' = 1
      /\ UNCHANGED <<board, found, disturbed>>
  BY <1>1 DEF TouchReady, Enter
<1>3. AnswersAs(TouchIcs[i].name, TouchAddrs[k])
  <2>1. Len(TouchIcs[i].id) # 0
    BY <1>2, CallableRowsAsk
  <2>2. Acks(TouchAddrs[k])
    BY <1>1, <2>1 DEF TouchAccepts
  <2> QED BY <1>1, <2>2, TableLengths DEF AnswersAs
<1>4. /\ TouchIcs[i].name \in Names /\ TouchAddrs[k] \in Places
      /\ {"TOUCH"} \in SUBSET Categories
  BY TableLengths DEF Names, Places, Categories, Primaries
<1>5. TreeOK' /\ ClaimsAnswer' /\ Keeps /\ Len(nodes') = Len(nodes) + 1
  BY <1>2, <1>3, <1>4, Registers
<1>6. TypeOK'
  <2>1. context' \in [{"lcd", "touch", "codec"} -> (0 .. 12) \X Places]
    <3>1. context \in [{"lcd", "touch", "codec"} -> (0 .. 12) \X Places]
      BY TableLengths DEF Inv, TypeOK
    <3>2. <<i, TouchAddrs[k]>> \in (0 .. 12) \X Places
      BY <1>4
    <3> QED BY <1>2, <3>1, <3>2
  <2>2. TypeOK
    BY DEF Inv
  <2> QED BY <1>2, <1>5, <2>1, <2>2, TypesFollow DEF TypeOK
<1>7. WithinBudget'
  BY <1>2, <1>5 DEF Inv, TreeOK, TouchReady, WithinBudget
<1> QED BY <1>2, <1>5, <1>6, <1>7 DEF Inv

LEMMA TouchFaultInv == Inv /\ TouchFault => Inv' /\ Keeps
<1> SUFFICES ASSUME Inv, TouchFault PROVE Inv' /\ Keeps
  OBVIOUS
<1>1. /\ phase = "touch" /\ phase' = "fault" /\ step' = 1
      /\ UNCHANGED <<board, nodes, primary, context, found, disturbed>>
  BY DEF TouchFault, Enter
<1>2. TreeOK' /\ ClaimsAnswer' /\ Keeps
  BY <1>1, RegistersNone
<1>3. TypeOK'
  BY <1>1, <1>2, TypesFollow, TableLengths DEF Inv, TypeOK
<1>4. WithinBudget'
  BY <1>1 DEF Inv, WithinBudget
<1> QED BY <1>1, <1>2, <1>3, <1>4 DEF Inv

LEMMA AssumeDacInv == Inv /\ AssumeDac => Inv' /\ Keeps
<1> SUFFICES ASSUME Inv, AssumeDac PROVE Inv' /\ Keeps
  OBVIOUS
<1> DEFINE category == IF Codecs[8].adc THEN {"AUDIO_OUT", "AUDIO_IN"} ELSE {"AUDIO_OUT"}
<1>1. /\ phase = "audio" /\ phase' = "sensors" /\ step' = 1
      /\ context' = [context EXCEPT !["codec"] = <<8, 0>>]
      /\ Register(Codecs[8].name, category, "I2S", 0)
      /\ UNCHANGED <<board, found, disturbed>>
  BY TableLengths DEF AssumeDac, UseCodec, Enter
<1>2. Codecs[8].name \in Names /\ 0 \in Places /\ category \in SUBSET Categories
  BY TableLengths DEF Names, Places, Categories, Primaries
<1> HIDE DEF category
<1>3. TreeOK' /\ ClaimsAnswer' /\ Keeps /\ Len(nodes') = Len(nodes) + 1
  BY <1>1, <1>2, Registers
<1>4. TypeOK'
  <2>1. context' \in [{"lcd", "touch", "codec"} -> (0 .. 12) \X Places]
    <3>1. context \in [{"lcd", "touch", "codec"} -> (0 .. 12) \X Places]
      BY TableLengths DEF Inv, TypeOK
    <3>2. <<8, 0>> \in (0 .. 12) \X Places
      BY <1>2
    <3> QED BY <1>1, <3>1, <3>2
  <2>2. TypeOK
    BY DEF Inv
  <2> QED BY <1>1, <1>3, <2>1, <2>2, TypesFollow DEF TypeOK
<1>5. WithinBudget'
  BY <1>1, <1>3 DEF Inv, TreeOK, WithinBudget
<1> QED BY <1>1, <1>3, <1>4, <1>5 DEF Inv

\* Reading at addr disturbs at most it, and within the bound; undisturbed
\* it returns a row that the chip there answers.
LEMMA ReadsCodec ==
  ASSUME TypeOK, NEW addr \in PolledOver, NEW i, ReadCodec(i, addr)
  PROVE  /\ disturbed \subseteq disturbed' /\ disturbed' \subseteq PolledOver
         /\ Cardinality(disturbed') <= MaxDisturbed
         /\ i # 0 /\ addr \notin disturbed' =>
              i \in Candidates(addr) /\ Acks(addr) /\ CodecAgrees(i, addr)
<1>1. CASE Preempted(addr) /\ disturbed' = disturbed \cup {addr}
  BY <1>1 DEF TypeOK, Preempted
<1>2. CASE i \in CodecsAt(addr) /\ UNCHANGED disturbed
  <2> DEFINE Hits == {j \in Candidates(addr) : CodecAgrees(j, addr)}
  <2>1. CASE i # 0
    <3>1. Acks(addr) /\ Hits # {} /\ i = Min(Hits)
      BY <1>2, <2>1 DEF CodecsAt
    <3>2. Hits \in SUBSET (1 .. 12)
      BY TableLengths DEF Candidates
    <3> HIDE DEF Hits
    <3>3. i \in Hits
      BY <3>1, <3>2, MinExists
    <3> USE DEF Hits
    <3> QED BY <1>2, <3>1, <3>3 DEF TypeOK
  <2> QED BY <1>2, <2>1 DEF TypeOK
<1> QED BY <1>1, <1>2 DEF ReadCodec

LEMMA ProbeCodecInv == Inv /\ ProbeCodec => Inv' /\ Keeps
<1> SUFFICES ASSUME Inv, ProbeCodec PROVE Inv' /\ Keeps
  OBVIOUS
<1>1. TypeOK /\ step \in 1 .. 5 /\ phase = "audio" /\ UNCHANGED <<board, found>>
  BY TableLengths DEF Inv, TypeOK, ProbeCodec
<1>2. PICK addr : addr = AudioAddrs[step]
  OBVIOUS
<1>3. addr \in PolledOver /\ addr \in Places
  BY <1>1, <1>2, TableLengths DEF PolledOver, Places
<1>4. ASSUME NEW i \in Candidates(addr), ReadCodec(i, addr), UseCodec(i, addr)
      PROVE  Inv' /\ Keeps
  <2> DEFINE category == IF Codecs[i].adc THEN {"AUDIO_OUT", "AUDIO_IN"} ELSE {"AUDIO_OUT"}
             bus == IF addr = 0 THEN "I2S" ELSE "I2C"
  <2>1. i \in 1 .. 9 /\ i # 0
    BY <1>4, TableLengths DEF Candidates
  <2>2. /\ context' = [context EXCEPT !["codec"] = <<i, addr>>]
        /\ Register(Codecs[i].name, category, bus, addr)
        /\ phase' = "sensors" /\ step' = 1
    BY <1>4 DEF UseCodec, Enter
  <2>3. /\ disturbed \subseteq disturbed' /\ disturbed' \subseteq PolledOver
        /\ Cardinality(disturbed') <= MaxDisturbed
        /\ addr \notin disturbed' => Acks(addr) /\ CodecAgrees(i, addr)
    BY <1>1, <1>3, <1>4, <2>1, ReadsCodec
  <2>4. addr \notin disturbed' => AnswersAs(Codecs[i].name, addr)
    BY <1>4, <2>3 DEF AnswersAs
  <2>5. /\ Codecs[i].name \in Names /\ category \in SUBSET Categories
        /\ bus \in {"SPI", "I2C", "I2S"}
    BY <2>1, TableLengths DEF Names, Categories, Primaries
  <2> HIDE DEF category, bus
  <2>6. TreeOK' /\ ClaimsAnswer' /\ Keeps /\ Len(nodes') = Len(nodes) + 1
    BY <1>1, <1>3, <2>2, <2>3, <2>4, <2>5, Registers
  <2>7. TypeOK'
    <3>1. context' \in [{"lcd", "touch", "codec"} -> (0 .. 12) \X Places]
      <4>1. context \in [{"lcd", "touch", "codec"} -> (0 .. 12) \X Places]
        BY <1>1, TableLengths DEF TypeOK
      <4>2. <<i, addr>> \in (0 .. 12) \X Places
        BY <1>3, <2>1
      <4> QED BY <2>2, <4>1, <4>2
    <3> QED BY <1>1, <2>2, <2>3, <2>6, <3>1, TypesFollow DEF TypeOK
  <2>8. WithinBudget'
    BY <1>1, <2>2, <2>6 DEF Inv, TreeOK, WithinBudget
  <2> QED BY <2>2, <2>6, <2>7, <2>8 DEF Inv
<1>5. ASSUME ReadCodec(0, addr), step' = step + 1, UNCHANGED <<phase, nodes, primary, context>>
      PROVE  Inv' /\ Keeps
  <2>1. /\ disturbed \subseteq disturbed' /\ disturbed' \subseteq PolledOver
        /\ Cardinality(disturbed') <= MaxDisturbed
    BY <1>1, <1>3, <1>5, ReadsCodec
  <2>2. TreeOK' /\ ClaimsAnswer' /\ Keeps
    BY <1>1, <1>5, <2>1, RegistersNone
  <2>3. TypeOK'
    BY <1>1, <1>5, <2>1, <2>2, TypesFollow, TableLengths DEF TypeOK
  <2>4. WithinBudget'
    BY <1>1, <1>5 DEF Inv, WithinBudget
  <2> QED BY <1>1, <1>5, <2>2, <2>3, <2>4 DEF Inv
<1> QED BY <1>2, <1>4, <1>5 DEF ProbeCodec

\* Trying the addresses of a row disturbs at most some of them, and claims
\* none without an answer there.
LEMMA TriesAddresses ==
  ASSUME TypeOK, NEW k \in 1 .. 27, TryAddresses(Peripherals[k])
  PROVE  /\ disturbed \subseteq disturbed' /\ disturbed' \subseteq PolledOver
         /\ Cardinality(disturbed') <= MaxDisturbed
         /\ \/ UNCHANGED <<nodes, primary>>
            \/ \E addr \in Places :
                  /\ Register(Peripherals[k].name, {Peripherals[k].category}, "I2C", addr)
                  /\ addr \notin disturbed' => AnswersAs(Peripherals[k].name, addr)
<1> DEFINE row == Peripherals[k]
<1>0. {row.addrs[i] : i \in 1 .. Len(row.addrs)} \subseteq PolledOver
  BY TableLengths DEF PolledOver
<1>1. PICK n \in 1 .. Len(row.addrs) + 1,
           Bad \in SUBSET {row.addrs[i] : i \in 1 .. Len(row.addrs)} :
        /\ Bad # {} => Cardinality(disturbed \cup Bad) <= MaxDisturbed
        /\ (MatchAt(row, n, Bad) /\ Claim(row, n)) \/ UNCHANGED <<nodes, primary>>
        /\ disturbed' = disturbed \cup Bad
  BY DEF TryAddresses
<1>2. Bad \subseteq PolledOver
  BY <1>0
<1>3. /\ disturbed \subseteq disturbed' /\ disturbed' \subseteq PolledOver
      /\ Cardinality(disturbed') <= MaxDisturbed
  <2>1. CASE Bad = {}
    BY <1>1, <2>1 DEF TypeOK
  <2>2. CASE Bad # {}
    BY <1>1, <1>2, <2>2 DEF TypeOK
  <2> QED BY <2>1, <2>2
<1>4. ASSUME MatchAt(row, n, Bad), Claim(row, n)
      PROVE  \E addr \in Places :
                  /\ Register(row.name, {row.category}, "I2C", addr)
                  /\ addr \notin disturbed' => AnswersAs(row.name, addr)
  <2>1. n \in 1 .. Len(row.addrs)
    BY <1>1, <1>4 DEF MatchAt
  <2>2. row.addrs[n] \in Places
    <3>1. row.addrs[n] \in {row.addrs[i] : i \in 1 .. Len(row.addrs)}
      BY <2>1
    <3> QED BY <3>1, <1>0 DEF Places
  <2>3. row.addrs[n] \notin disturbed' => PeriphAgrees(row, row.addrs[n])
    BY <1>1, <1>4 DEF MatchAt
  <2>4. row.addrs[n] \notin disturbed' => AnswersAs(row.name, row.addrs[n])
    BY <2>3, TableLengths DEF AnswersAs, PeriphAgrees
  <2>5. Register(row.name, {row.category}, "I2C", row.addrs[n])
    BY <1>4 DEF Claim
  <2> QED BY <2>2, <2>4, <2>5
<1> QED BY <1>1, <1>3, <1>4

LEMMA ProbePeripheralInv == Inv /\ ProbePeripheral => Inv' /\ Keeps
<1> SUFFICES ASSUME Inv, ProbePeripheral PROVE Inv' /\ Keeps
  OBVIOUS
<1>1. /\ TypeOK /\ step \in 1 .. 27 /\ phase = "sensors" /\ nodes \in Seq(Nodes)
      /\ Len(nodes) \in Nat /\ UNCHANGED <<board, context, found>>
  BY TableLengths DEF Inv, TypeOK, ProbePeripheral
<1>2. /\ \/ UNCHANGED <<nodes, primary, disturbed>>
         \/ TryAddresses(Peripherals[step])
      /\ \/ step = 27 /\ phase' = "done" /\ step' = 1
         \/ step # 27 /\ phase' = phase /\ step' = step + 1
  BY TableLengths DEF ProbePeripheral, NextPeripheral, Enter
<1>3. /\ disturbed \subseteq disturbed' /\ disturbed' \subseteq PolledOver
      /\ Cardinality(disturbed') <= MaxDisturbed
      /\ TreeOK' /\ ClaimsAnswer' /\ Keeps
      /\ Len(nodes') = Len(nodes) \/ Len(nodes') = Len(nodes) + 1
  <2>1. CASE UNCHANGED <<nodes, primary, disturbed>>
    BY <1>1, <2>1, RegistersNone DEF TypeOK
  <2>2. CASE TryAddresses(Peripherals[step])
    <3>1. /\ disturbed \subseteq disturbed' /\ disturbed' \subseteq PolledOver
          /\ Cardinality(disturbed') <= MaxDisturbed
          /\ \/ UNCHANGED <<nodes, primary>>
             \/ \E addr \in Places :
                   /\ Register(Peripherals[step].name, {Peripherals[step].category}, "I2C", addr)
                   /\ addr \notin disturbed' => AnswersAs(Peripherals[step].name, addr)
      BY <1>1, <2>2, TriesAddresses
    <3>2. CASE UNCHANGED <<nodes, primary>>
      BY <1>1, <3>1, <3>2, RegistersNone
    <3>3. ASSUME NEW addr \in Places,
                 Register(Peripherals[step].name, {Peripherals[step].category}, "I2C", addr),
                 addr \notin disturbed' => AnswersAs(Peripherals[step].name, addr)
          PROVE  TreeOK' /\ ClaimsAnswer' /\ Keeps /\ Len(nodes') = Len(nodes) + 1
      <4>1. /\ Peripherals[step].name \in Names
            /\ {Peripherals[step].category} \in SUBSET Categories
        BY <1>1, TableLengths DEF Names, Categories
      <4> QED BY <1>1, <3>1, <3>3, <4>1, Registers
    <3> QED BY <3>1, <3>2, <3>3
  <2> QED BY <1>2, <2>1, <2>2
<1>4. TypeOK'
  <2>1. /\ phase' \in {"scan", "lcd", "touch", "audio", "sensors", "done", "fault"}
        /\ step' \in 1 .. 27
    <3>1. CASE step = 27
      BY <1>2, <3>1
    <3>2. CASE step # 27
      <4>1. phase' = phase /\ step' = step + 1
        BY <1>2, <3>2
      <4>2. step + 1 \in 1 .. 27
        BY <1>1, <3>2
      <4> QED BY <1>1, <4>1, <4>2
    <3> QED BY <3>1, <3>2
  <2> QED BY <1>1, <1>3, <2>1, TypesFollow, TableLengths DEF TypeOK
<1>5. WithinBudget'
  <2>1. Len(nodes) <= 2 + step /\ Len(nodes') \in Nat
    BY <1>1, <1>3 DEF Inv, WithinBudget
  <2> QED BY <1>1, <1>2, <1>3, <2>1 DEF WithinBudget
<1>6. phase' \in {"sensors", "done"}
  BY <1>1, <1>2
<1> QED BY <1>3, <1>4, <1>5, <1>6 DEF Inv

LEMMA NextInv == Inv /\ [Next]_vars => Inv' /\ (Keeps \/ UNCHANGED vars)
<1> SUFFICES ASSUME Inv, [Next]_vars PROVE Inv' /\ (Keeps \/ UNCHANGED vars)
  OBVIOUS
<1>1. CASE Scan
  BY <1>1, ScanInv
<1>2. CASE ProbeLcd
  BY <1>2, ProbeLcdInv
<1>3. CASE TouchReady
  BY <1>3, TouchReadyInv
<1>4. CASE TouchFault
  BY <1>4, TouchFaultInv
<1>5. CASE ProbeCodec
  BY <1>5, ProbeCodecInv
<1>6. CASE AssumeDac
  BY <1>6, AssumeDacInv
<1>7. CASE ProbePeripheral
  BY <1>7, ProbePeripheralInv
<1>8. CASE UNCHANGED vars
  <2>1. UNCHANGED <<board, phase, step, nodes, primary, context, found, disturbed>>
    BY <1>8 DEF vars
  <2>2. TreeOK' /\ ClaimsAnswer'
    BY <2>1, RegistersNone
  <2>3. TypeOK' /\ WithinBudget'
    BY <2>1 DEF Inv, TypeOK, WithinBudget
  <2> QED BY <1>8, <2>1, <2>2, <2>3 DEF Inv
<1> QED BY <1>1, <1>2, <1>3, <1>4, <1>5, <1>6, <1>7, <1>8 DEF Next

THEOREM Invariance == Spec => []Inv
<1>1. Init => Inv
  BY InitInv
<1>2. Inv /\ [Next]_vars => Inv'
  BY NextInv
<1> QED BY <1>1, <1>2, PTL DEF Spec

(***************************************************************************)
(* The properties.                                                         *)
(***************************************************************************)

\* Types: the table within its bound, the primaries indices of it, and no
\* disturbance but of an address that is read beside the poll task.
THEOREM DetectionTypes == Spec => []TypeOK
<1>1. Inv => TypeOK
  BY DEF Inv
<1> QED BY <1>1, Invariance, PTL

\* devtree_register turns no device away: a display, a touch controller, a
\* codec and the 27 rows of the database are 30 of 32 places.
THEOREM RoomForAll == Spec => []TableNeverFills
<1>1. Inv => TableNeverFills
  <2> SUFFICES ASSUME Inv PROVE Len(nodes) < 32
    BY DEF TableNeverFills, HasRoom, MAX_DEVICE_NODES
  <2>1. Len(nodes) \in Nat /\ Len(nodes) <= 30
    BY DEF Inv, TreeOK, WithinBudget
  <2> QED BY <2>1
<1> QED BY <1>1, Invariance, PTL

\* The quick-access pointers are the nodes that devtree_find gives.
THEOREM PrimariesAgree == Spec => []PrimariesAreFirst
<1>1. Inv => PrimariesAreFirst
  BY FirstIsFound DEF Inv
<1> QED BY <1>1, Invariance, PTL

\* No device is registered over I2C where no chip answers as its row asks.
THEOREM NoneMadeUp == Spec => []ClaimsAnswer
<1>1. Inv => ClaimsAnswer
  BY DEF Inv
<1> QED BY <1>1, Invariance, PTL

\* Registered devices keep their places and primaries their roles.
THEOREM PointersStay == Spec => ClaimsAreStable
<1>1. Inv /\ [Next]_vars =>
        [/\ Len(nodes') >= Len(nodes) /\ SubSeq(nodes', 1, Len(nodes)) = nodes
         /\ \A c \in Primaries : primary[c] # 0 => primary'[c] = primary[c]]_vars
  BY NextInv DEF Keeps
<1> QED BY <1>1, Invariance, PTL DEF Spec, ClaimsAreStable

(***************************************************************************)
(* The database of peripherals, row by row. Two rows that compare a bit of *)
(* the answer and share a register and an address expect different         *)
(* answers.                                                                *)
(***************************************************************************)
\* The addresses a row of the database lists.
AddrsOf(row) == {row.addrs[n] : n \in 1 .. Len(row.addrs)}

\* Row k reads reg at one of the addresses A and compares v under the mask m.
Row(k, A, reg, v, m) ==
  /\ AddrsOf(Peripherals[k]) = A /\ Peripherals[k].reg = reg
  /\ Peripherals[k].id = <<v>> /\ Peripherals[k].mask = <<m>>
  /\ \A a \in A : a \notin 0 .. \h1C

\* The database, row by row.
LEMMA Rows ==
  /\ Row(1, {\h68, \h69}, \h75, \h68, \hFF)
  /\ Row(2, {\h68, \h69}, \h75, \h71, \hFF)
  /\ Row(3, {\h68}, \h75, \h19, \hFF)
  /\ Row(4, {\h68, \h69}, \h75, \h47, \hFF)
  /\ Row(5, {\h68, \h69}, \h00, \hD1, \hFF)
  /\ Row(6, {\h6A, \h6B}, \h0F, \h69, \hFF)
  /\ Row(7, {\h6A, \h6B}, \h0F, \h6C, \hFF)
  /\ Row(8, {\h53, \h1D}, \h00, \hE5, \hFF)
  /\ Row(9, {\h76, \h77}, \hD0, \h58, \hFF)
  /\ Row(10, {\h76, \h77}, \hD0, \h60, \hFF)
  /\ Row(11, {\h76, \h77}, \hD0, \h61, \hFF)
  /\ Row(12, {\h38}, \h71, \h18, \hF8)
  /\ Row(13, {\h38}, \h71, \h08, \hF8)
  /\ Row(14, {\h44, \h45}, \h00, \h00, \h00)
  /\ Row(15, {\h5C}, \h00, \h00, \h00)
  /\ Row(16, {\h5C, \h5D}, \h0F, \hB1, \hFF)
  /\ Row(17, {\h70}, \hEF, \hC8, \hC8)
  /\ Row(18, {\h68}, \h00, \h00, \h00)
  /\ Row(19, {\h51}, \h00, \h00, \h00)
  /\ Row(20, {\h52}, \h28, \h00, \h00)
  /\ Row(21, {\h68}, \h07, \h00, \h00)
  /\ Row(22, {\h40, \h41, \h70}, \h00, \h00, \h00)
  /\ Row(23, {\h30, \h31, \h32}, \h00, \h00, \h00)
  /\ Row(24, {\h20, \h21, \h3F}, \h00, \h00, \h00)
  /\ Row(25, {\h20, \h21, \h27}, \h00, \h40, \hFE)
  /\ Row(26, {\h30, \h21}, \h0A, \h26, \hFF)
  /\ Row(27, {\h3C}, \h0A, \h56, \hFF)
<1>1. Row(1, {\h68, \h69}, \h75, \h68, \hFF)
  BY SMTT(30) DEF Row, AddrsOf, Peripherals, Periph
<1>2. Row(2, {\h68, \h69}, \h75, \h71, \hFF)
  BY SMTT(30) DEF Row, AddrsOf, Peripherals, Periph
<1>3. Row(3, {\h68}, \h75, \h19, \hFF)
  BY SMTT(30) DEF Row, AddrsOf, Peripherals, Periph
<1>4. Row(4, {\h68, \h69}, \h75, \h47, \hFF)
  BY SMTT(30) DEF Row, AddrsOf, Peripherals, Periph
<1>5. Row(5, {\h68, \h69}, \h00, \hD1, \hFF)
  BY SMTT(30) DEF Row, AddrsOf, Peripherals, Periph
<1>6. Row(6, {\h6A, \h6B}, \h0F, \h69, \hFF)
  BY SMTT(30) DEF Row, AddrsOf, Peripherals, Periph
<1>7. Row(7, {\h6A, \h6B}, \h0F, \h6C, \hFF)
  BY SMTT(30) DEF Row, AddrsOf, Peripherals, Periph
<1>8. Row(8, {\h53, \h1D}, \h00, \hE5, \hFF)
  BY SMTT(30) DEF Row, AddrsOf, Peripherals, Periph
<1>9. Row(9, {\h76, \h77}, \hD0, \h58, \hFF)
  BY SMTT(30) DEF Row, AddrsOf, Peripherals, Periph
<1>10. Row(10, {\h76, \h77}, \hD0, \h60, \hFF)
  BY SMTT(30) DEF Row, AddrsOf, Peripherals, Periph
<1>11. Row(11, {\h76, \h77}, \hD0, \h61, \hFF)
  BY SMTT(30) DEF Row, AddrsOf, Peripherals, Periph
<1>12. Row(12, {\h38}, \h71, \h18, \hF8)
  BY SMTT(30) DEF Row, AddrsOf, Peripherals, Periph
<1>13. Row(13, {\h38}, \h71, \h08, \hF8)
  BY SMTT(30) DEF Row, AddrsOf, Peripherals, Periph
<1>14. Row(14, {\h44, \h45}, \h00, \h00, \h00)
  BY SMTT(30) DEF Row, AddrsOf, Peripherals, Periph
<1>15. Row(15, {\h5C}, \h00, \h00, \h00)
  BY SMTT(30) DEF Row, AddrsOf, Peripherals, Periph
<1>16. Row(16, {\h5C, \h5D}, \h0F, \hB1, \hFF)
  BY SMTT(30) DEF Row, AddrsOf, Peripherals, Periph
<1>17. Row(17, {\h70}, \hEF, \hC8, \hC8)
  BY SMTT(30) DEF Row, AddrsOf, Peripherals, Periph
<1>18. Row(18, {\h68}, \h00, \h00, \h00)
  BY SMTT(30) DEF Row, AddrsOf, Peripherals, Periph
<1>19. Row(19, {\h51}, \h00, \h00, \h00)
  BY SMTT(30) DEF Row, AddrsOf, Peripherals, Periph
<1>20. Row(20, {\h52}, \h28, \h00, \h00)
  BY SMTT(30) DEF Row, AddrsOf, Peripherals, Periph
<1>21. Row(21, {\h68}, \h07, \h00, \h00)
  BY SMTT(30) DEF Row, AddrsOf, Peripherals, Periph
<1>22. Row(22, {\h40, \h41, \h70}, \h00, \h00, \h00)
  BY SMTT(30) DEF Row, AddrsOf, Peripherals, Periph
<1>23. Row(23, {\h30, \h31, \h32}, \h00, \h00, \h00)
  BY SMTT(30) DEF Row, AddrsOf, Peripherals, Periph
<1>24. Row(24, {\h20, \h21, \h3F}, \h00, \h00, \h00)
  BY SMTT(30) DEF Row, AddrsOf, Peripherals, Periph
<1>25. Row(25, {\h20, \h21, \h27}, \h00, \h40, \hFE)
  BY SMTT(30) DEF Row, AddrsOf, Peripherals, Periph
<1>26. Row(26, {\h30, \h21}, \h0A, \h26, \hFF)
  BY SMTT(30) DEF Row, AddrsOf, Peripherals, Periph
<1>27. Row(27, {\h3C}, \h0A, \h56, \hFF)
  BY SMTT(30) DEF Row, AddrsOf, Peripherals, Periph
<1> QED
  BY <1>1, <1>2, <1>3, <1>4, <1>5, <1>6, <1>7, <1>8, <1>9,
     <1>10, <1>11, <1>12, <1>13, <1>14, <1>15, <1>16, <1>17, <1>18,
     <1>19, <1>20, <1>21, <1>22, <1>23, <1>24, <1>25, <1>26, <1>27

\* No peripheral has an address of the codecs.
LEMMA PlaceOf ==
  ASSUME NEW k, NEW A, NEW reg, NEW v, NEW m, Row(k, A, reg, v, m)
  PROVE  \A a \in AddrsOf(Peripherals[k]) : a \notin 0 .. \h1C
BY DEF Row

LEMMA PeriphPlaces ==
  ASSUME NEW k \in 1 .. 27 PROVE \A a \in AddrsOf(Peripherals[k]) : a \notin 0 .. \h1C
<1>1. \A l \in 1 .. 27 : \E A, reg, v, m : Row(l, A, reg, v, m)
  BY Rows
<1>2. PICK A, reg, v, m : Row(k, A, reg, v, m)
  BY <1>1
<1> QED BY <1>2, PlaceOf

\* A bit that two rows compare and expect differently tells their chips apart.
LEMMA ApartBy ==
  ASSUME NEW v, NEW w, NEW m, NEW n, NEW i \in 0 .. 7,
         Bit(m, i) = 1, Bit(n, i) = 1, Bit(v, i) # Bit(w, i)
  PROVE  \A x : ~ (Agree(x, v, m) /\ Agree(x, w, n))
BY DEF Agree

\* The comparison of a row with one byte.
LEMMA AgreesOne ==
  ASSUME NEW k \in 1 .. 27, NEW A, NEW reg, NEW v, NEW m, Row(k, A, reg, v, m), NEW x
  PROVE  AgreeAll(x, Peripherals[k].id, Peripherals[k].mask) <=> Agree(x[1], v, m)
BY DEF Row, AgreeAll

\* A row under an empty mask.
LEMMA ComparesNone ==
  ASSUME NEW k \in 1 .. 27, NEW A, NEW reg, NEW v, Row(k, A, reg, v, 0)
  PROVE  Unidentified(Peripherals[k])
BY DEF Row, Unidentified

\* The rows that compare something, by the register they read.
LEMMA ByRegister ==
  ASSUME NEW k \in 1 .. 27, ~ Unidentified(Peripherals[k])
  PROVE
    \/ k \in {1, 2, 3, 4} /\ Peripherals[k].reg = \h75
    \/ k \in {5, 8, 25} /\ Peripherals[k].reg = \h00
    \/ k \in {6, 7, 16} /\ Peripherals[k].reg = \h0F
    \/ k \in {9, 10, 11} /\ Peripherals[k].reg = \hD0
    \/ k \in {12, 13} /\ Peripherals[k].reg = \h71
    \/ k \in {17} /\ Peripherals[k].reg = \hEF
    \/ k \in {26, 27} /\ Peripherals[k].reg = \h0A
<1>1. ASSUME k \in {14, 15, 18, 19, 20, 21, 22, 23, 24} PROVE Unidentified(Peripherals[k])
  BY <1>1, Rows, ComparesNone
<1>2. ASSUME k \in {1, 2, 3, 4} PROVE Peripherals[k].reg = \h75
  BY <1>2, Rows DEF Row
<1>3. ASSUME k \in {5, 8, 25} PROVE Peripherals[k].reg = \h00
  BY <1>3, Rows DEF Row
<1>4. ASSUME k \in {6, 7, 16} PROVE Peripherals[k].reg = \h0F
  BY <1>4, Rows DEF Row
<1>5. ASSUME k \in {9, 10, 11} PROVE Peripherals[k].reg = \hD0
  BY <1>5, Rows DEF Row
<1>6. ASSUME k \in {12, 13} PROVE Peripherals[k].reg = \h71
  BY <1>6, Rows DEF Row
<1>7. ASSUME k \in {17} PROVE Peripherals[k].reg = \hEF
  BY <1>7, Rows DEF Row
<1>8. ASSUME k \in {26, 27} PROVE Peripherals[k].reg = \h0A
  BY <1>8, Rows DEF Row
<1> QED BY <1>1, <1>2, <1>3, <1>4, <1>5, <1>6, <1>7, <1>8

\* A row that compares something refuses zeros.
LEMMA RefusesZeros ==
  ASSUME NEW k \in 1 .. 27, ~ Unidentified(Peripherals[k]), NEW x, x[1] = 0
  PROVE  ~ AgreeAll(x, Peripherals[k].id, Peripherals[k].mask)
<1>1. ASSUME NEW v, NEW m, NEW i \in 0 .. 7, Bit(m, i) = 1, Bit(v, i) = 1
      PROVE  ~ Agree(x[1], v, m)
  <2>1. Bit(0, i) = 0
    BY DEF Bit
  <2> QED BY <1>1, <2>1 DEF Agree
<1>2. k # 1 \/ ~ AgreeAll(x, Peripherals[k].id, Peripherals[k].mask)
  <2>1. Bit(\hFF, 3) = 1 /\ Bit(\h68, 3) = 1
    BY DEF Bit
  <2> QED BY <1>1, <2>1, Rows, AgreesOne
<1>3. k # 2 \/ ~ AgreeAll(x, Peripherals[k].id, Peripherals[k].mask)
  <2>1. Bit(\hFF, 0) = 1 /\ Bit(\h71, 0) = 1
    BY DEF Bit
  <2> QED BY <1>1, <2>1, Rows, AgreesOne
<1>4. k # 3 \/ ~ AgreeAll(x, Peripherals[k].id, Peripherals[k].mask)
  <2>1. Bit(\hFF, 0) = 1 /\ Bit(\h19, 0) = 1
    BY DEF Bit
  <2> QED BY <1>1, <2>1, Rows, AgreesOne
<1>5. k # 4 \/ ~ AgreeAll(x, Peripherals[k].id, Peripherals[k].mask)
  <2>1. Bit(\hFF, 0) = 1 /\ Bit(\h47, 0) = 1
    BY DEF Bit
  <2> QED BY <1>1, <2>1, Rows, AgreesOne
<1>6. k # 5 \/ ~ AgreeAll(x, Peripherals[k].id, Peripherals[k].mask)
  <2>1. Bit(\hFF, 0) = 1 /\ Bit(\hD1, 0) = 1
    BY DEF Bit
  <2> QED BY <1>1, <2>1, Rows, AgreesOne
<1>7. k # 6 \/ ~ AgreeAll(x, Peripherals[k].id, Peripherals[k].mask)
  <2>1. Bit(\hFF, 0) = 1 /\ Bit(\h69, 0) = 1
    BY DEF Bit
  <2> QED BY <1>1, <2>1, Rows, AgreesOne
<1>8. k # 7 \/ ~ AgreeAll(x, Peripherals[k].id, Peripherals[k].mask)
  <2>1. Bit(\hFF, 2) = 1 /\ Bit(\h6C, 2) = 1
    BY DEF Bit
  <2> QED BY <1>1, <2>1, Rows, AgreesOne
<1>9. k # 8 \/ ~ AgreeAll(x, Peripherals[k].id, Peripherals[k].mask)
  <2>1. Bit(\hFF, 0) = 1 /\ Bit(\hE5, 0) = 1
    BY DEF Bit
  <2> QED BY <1>1, <2>1, Rows, AgreesOne
<1>10. k # 9 \/ ~ AgreeAll(x, Peripherals[k].id, Peripherals[k].mask)
  <2>1. Bit(\hFF, 3) = 1 /\ Bit(\h58, 3) = 1
    BY DEF Bit
  <2> QED BY <1>1, <2>1, Rows, AgreesOne
<1>11. k # 10 \/ ~ AgreeAll(x, Peripherals[k].id, Peripherals[k].mask)
  <2>1. Bit(\hFF, 5) = 1 /\ Bit(\h60, 5) = 1
    BY DEF Bit
  <2> QED BY <1>1, <2>1, Rows, AgreesOne
<1>12. k # 11 \/ ~ AgreeAll(x, Peripherals[k].id, Peripherals[k].mask)
  <2>1. Bit(\hFF, 0) = 1 /\ Bit(\h61, 0) = 1
    BY DEF Bit
  <2> QED BY <1>1, <2>1, Rows, AgreesOne
<1>13. k # 12 \/ ~ AgreeAll(x, Peripherals[k].id, Peripherals[k].mask)
  <2>1. Bit(\hF8, 3) = 1 /\ Bit(\h18, 3) = 1
    BY DEF Bit
  <2> QED BY <1>1, <2>1, Rows, AgreesOne
<1>14. k # 13 \/ ~ AgreeAll(x, Peripherals[k].id, Peripherals[k].mask)
  <2>1. Bit(\hF8, 3) = 1 /\ Bit(\h08, 3) = 1
    BY DEF Bit
  <2> QED BY <1>1, <2>1, Rows, AgreesOne
<1>15. k # 16 \/ ~ AgreeAll(x, Peripherals[k].id, Peripherals[k].mask)
  <2>1. Bit(\hFF, 0) = 1 /\ Bit(\hB1, 0) = 1
    BY DEF Bit
  <2> QED BY <1>1, <2>1, Rows, AgreesOne
<1>16. k # 17 \/ ~ AgreeAll(x, Peripherals[k].id, Peripherals[k].mask)
  <2>1. Bit(\hC8, 3) = 1 /\ Bit(\hC8, 3) = 1
    BY DEF Bit
  <2> QED BY <1>1, <2>1, Rows, AgreesOne
<1>17. k # 25 \/ ~ AgreeAll(x, Peripherals[k].id, Peripherals[k].mask)
  <2>1. Bit(\hFE, 6) = 1 /\ Bit(\h40, 6) = 1
    BY DEF Bit
  <2> QED BY <1>1, <2>1, Rows, AgreesOne
<1>18. k # 26 \/ ~ AgreeAll(x, Peripherals[k].id, Peripherals[k].mask)
  <2>1. Bit(\hFF, 1) = 1 /\ Bit(\h26, 1) = 1
    BY DEF Bit
  <2> QED BY <1>1, <2>1, Rows, AgreesOne
<1>19. k # 27 \/ ~ AgreeAll(x, Peripherals[k].id, Peripherals[k].mask)
  <2>1. Bit(\hFF, 1) = 1 /\ Bit(\h56, 1) = 1
    BY DEF Bit
  <2> QED BY <1>1, <2>1, Rows, AgreesOne
<1> QED BY ByRegister, <1>2, <1>3, <1>4, <1>5, <1>6, <1>7, <1>8, <1>9, <1>10, <1>11, <1>12, <1>13, <1>14, <1>15, <1>16, <1>17, <1>18, <1>19

\* No chip answers two rows that read the same register at the same address and compare
\* something.
LEMMA TellApart ==
  ASSUME NEW k \in 1 .. 27, NEW l \in 1 .. 27, k < l,
         ~ Unidentified(Peripherals[k]), ~ Unidentified(Peripherals[l]),
         Peripherals[k].reg = Peripherals[l].reg,
         NEW a \in AddrsOf(Peripherals[k]) \cap AddrsOf(Peripherals[l]), NEW x,
         AgreeAll(x, Peripherals[k].id, Peripherals[k].mask),
         AgreeAll(x, Peripherals[l].id, Peripherals[l].mask)
  PROVE  FALSE
<1>1. ASSUME k = 1, l = 2 PROVE FALSE
  <2>1. Bit(\hFF, 0) = 1 /\ Bit(\hFF, 0) = 1 /\ Bit(\h68, 0) # Bit(\h71, 0)
    BY DEF Bit
  <2>2. Agree(x[1], \h68, \hFF) /\ Agree(x[1], \h71, \hFF)
    BY <1>1, Rows, AgreesOne
  <2>3. 0 \in 0 .. 7
    OBVIOUS
  <2> QED BY SMTT(30), <2>1, <2>2, <2>3, ApartBy
<1>2. ASSUME k = 1, l = 3 PROVE FALSE
  <2>1. Bit(\hFF, 0) = 1 /\ Bit(\hFF, 0) = 1 /\ Bit(\h68, 0) # Bit(\h19, 0)
    BY DEF Bit
  <2>2. Agree(x[1], \h68, \hFF) /\ Agree(x[1], \h19, \hFF)
    BY <1>2, Rows, AgreesOne
  <2>3. 0 \in 0 .. 7
    OBVIOUS
  <2> QED BY SMTT(30), <2>1, <2>2, <2>3, ApartBy
<1>3. ASSUME k = 1, l = 4 PROVE FALSE
  <2>1. Bit(\hFF, 0) = 1 /\ Bit(\hFF, 0) = 1 /\ Bit(\h68, 0) # Bit(\h47, 0)
    BY DEF Bit
  <2>2. Agree(x[1], \h68, \hFF) /\ Agree(x[1], \h47, \hFF)
    BY <1>3, Rows, AgreesOne
  <2>3. 0 \in 0 .. 7
    OBVIOUS
  <2> QED BY SMTT(30), <2>1, <2>2, <2>3, ApartBy
<1>4. ASSUME k = 2, l = 3 PROVE FALSE
  <2>1. Bit(\hFF, 3) = 1 /\ Bit(\hFF, 3) = 1 /\ Bit(\h71, 3) # Bit(\h19, 3)
    BY DEF Bit
  <2>2. Agree(x[1], \h71, \hFF) /\ Agree(x[1], \h19, \hFF)
    BY <1>4, Rows, AgreesOne
  <2>3. 3 \in 0 .. 7
    OBVIOUS
  <2> QED BY SMTT(30), <2>1, <2>2, <2>3, ApartBy
<1>5. ASSUME k = 2, l = 4 PROVE FALSE
  <2>1. Bit(\hFF, 1) = 1 /\ Bit(\hFF, 1) = 1 /\ Bit(\h71, 1) # Bit(\h47, 1)
    BY DEF Bit
  <2>2. Agree(x[1], \h71, \hFF) /\ Agree(x[1], \h47, \hFF)
    BY <1>5, Rows, AgreesOne
  <2>3. 1 \in 0 .. 7
    OBVIOUS
  <2> QED BY SMTT(30), <2>1, <2>2, <2>3, ApartBy
<1>6. ASSUME k = 3, l = 4 PROVE FALSE
  <2>1. Bit(\hFF, 1) = 1 /\ Bit(\hFF, 1) = 1 /\ Bit(\h19, 1) # Bit(\h47, 1)
    BY DEF Bit
  <2>2. Agree(x[1], \h19, \hFF) /\ Agree(x[1], \h47, \hFF)
    BY <1>6, Rows, AgreesOne
  <2>3. 1 \in 0 .. 7
    OBVIOUS
  <2> QED BY SMTT(30), <2>1, <2>2, <2>3, ApartBy
<1>7. ASSUME k = 6, l = 7 PROVE FALSE
  <2>1. Bit(\hFF, 0) = 1 /\ Bit(\hFF, 0) = 1 /\ Bit(\h69, 0) # Bit(\h6C, 0)
    BY DEF Bit
  <2>2. Agree(x[1], \h69, \hFF) /\ Agree(x[1], \h6C, \hFF)
    BY <1>7, Rows, AgreesOne
  <2>3. 0 \in 0 .. 7
    OBVIOUS
  <2> QED BY SMTT(30), <2>1, <2>2, <2>3, ApartBy
<1>8. ASSUME k = 9, l = 10 PROVE FALSE
  <2>1. Bit(\hFF, 3) = 1 /\ Bit(\hFF, 3) = 1 /\ Bit(\h58, 3) # Bit(\h60, 3)
    BY DEF Bit
  <2>2. Agree(x[1], \h58, \hFF) /\ Agree(x[1], \h60, \hFF)
    BY <1>8, Rows, AgreesOne
  <2>3. 3 \in 0 .. 7
    OBVIOUS
  <2> QED BY SMTT(30), <2>1, <2>2, <2>3, ApartBy
<1>9. ASSUME k = 9, l = 11 PROVE FALSE
  <2>1. Bit(\hFF, 0) = 1 /\ Bit(\hFF, 0) = 1 /\ Bit(\h58, 0) # Bit(\h61, 0)
    BY DEF Bit
  <2>2. Agree(x[1], \h58, \hFF) /\ Agree(x[1], \h61, \hFF)
    BY <1>9, Rows, AgreesOne
  <2>3. 0 \in 0 .. 7
    OBVIOUS
  <2> QED BY SMTT(30), <2>1, <2>2, <2>3, ApartBy
<1>10. ASSUME k = 10, l = 11 PROVE FALSE
  <2>1. Bit(\hFF, 0) = 1 /\ Bit(\hFF, 0) = 1 /\ Bit(\h60, 0) # Bit(\h61, 0)
    BY DEF Bit
  <2>2. Agree(x[1], \h60, \hFF) /\ Agree(x[1], \h61, \hFF)
    BY <1>10, Rows, AgreesOne
  <2>3. 0 \in 0 .. 7
    OBVIOUS
  <2> QED BY SMTT(30), <2>1, <2>2, <2>3, ApartBy
<1>11. ASSUME k = 12, l = 13 PROVE FALSE
  <2>1. Bit(\hF8, 4) = 1 /\ Bit(\hF8, 4) = 1 /\ Bit(\h18, 4) # Bit(\h08, 4)
    BY DEF Bit
  <2>2. Agree(x[1], \h18, \hF8) /\ Agree(x[1], \h08, \hF8)
    BY <1>11, Rows, AgreesOne
  <2>3. 4 \in 0 .. 7
    OBVIOUS
  <2> QED BY SMTT(30), <2>1, <2>2, <2>3, ApartBy
<1>12. ASSUME k = 5, l = 8 PROVE FALSE
  <2>1. AddrsOf(Peripherals[5]) = {\h68, \h69} /\ AddrsOf(Peripherals[8]) = {\h53, \h1D}
    BY Rows DEF Row
  <2> QED BY <1>12, <2>1
<1>13. ASSUME k = 5, l = 25 PROVE FALSE
  <2>1. AddrsOf(Peripherals[5]) = {\h68, \h69} /\ AddrsOf(Peripherals[25]) = {\h20, \h21, \h27}
    BY Rows DEF Row
  <2> QED BY <1>13, <2>1
<1>14. ASSUME k = 8, l = 25 PROVE FALSE
  <2>1. AddrsOf(Peripherals[8]) = {\h53, \h1D} /\ AddrsOf(Peripherals[25]) = {\h20, \h21, \h27}
    BY Rows DEF Row
  <2> QED BY <1>14, <2>1
<1>15. ASSUME k = 6, l = 16 PROVE FALSE
  <2>1. AddrsOf(Peripherals[6]) = {\h6A, \h6B} /\ AddrsOf(Peripherals[16]) = {\h5C, \h5D}
    BY Rows DEF Row
  <2> QED BY <1>15, <2>1
<1>16. ASSUME k = 7, l = 16 PROVE FALSE
  <2>1. AddrsOf(Peripherals[7]) = {\h6A, \h6B} /\ AddrsOf(Peripherals[16]) = {\h5C, \h5D}
    BY Rows DEF Row
  <2> QED BY <1>16, <2>1
<1>17. ASSUME k = 26, l = 27 PROVE FALSE
  <2>1. AddrsOf(Peripherals[26]) = {\h30, \h21} /\ AddrsOf(Peripherals[27]) = {\h3C}
    BY Rows DEF Row
  <2> QED BY <1>17, <2>1
<1> QED BY ByRegister, <1>1, <1>2, <1>3, <1>4, <1>5, <1>6, <1>7, <1>8, <1>9, <1>10, <1>11, <1>12, <1>13, <1>14, <1>15, <1>16, <1>17

(***************************************************************************)
(* The chips that the touch driver and the codec driver look for have      *)
(* other registers or other addresses.                                     *)
(***************************************************************************)
\* The rows that the touch driver gets past: those of the Goodix chips.
LEMMA GoodixRows ==
  ASSUME NEW j \in 1 .. 12, TouchIcs[j].callable
  PROVE  /\ j \in {1, 2} /\ TouchIcs[j].reg = \h8140
         /\ TouchIcs[j].addrs = {\h5D, \h14}
         /\ Len(TouchIcs[j].id) = 4 /\ TouchIcs[j].mask[1] = \hFF
         /\ TouchIcs[j].id[1] \in {\h31, \h39}
<1>1. j \in {1, 2}
  <2>1. \A i \in 3 .. 12 : ~ TouchIcs[i].callable
    <3>3. ~ TouchIcs[3].callable
      BY SMTT(30) DEF TouchIcs, Touch
    <3>4. ~ TouchIcs[4].callable
      BY SMTT(30) DEF TouchIcs, Touch
    <3>5. ~ TouchIcs[5].callable
      BY SMTT(30) DEF TouchIcs, Touch
    <3>6. ~ TouchIcs[6].callable
      BY SMTT(30) DEF TouchIcs, Touch
    <3>7. ~ TouchIcs[7].callable
      BY SMTT(30) DEF TouchIcs, Touch
    <3>8. ~ TouchIcs[8].callable
      BY SMTT(30) DEF TouchIcs, Touch
    <3>9. ~ TouchIcs[9].callable
      BY SMTT(30) DEF TouchIcs, Touch
    <3>10. ~ TouchIcs[10].callable
      BY SMTT(30) DEF TouchIcs, Touch
    <3>11. ~ TouchIcs[11].callable
      BY SMTT(30) DEF TouchIcs, Touch
    <3>12. ~ TouchIcs[12].callable
      BY SMTT(30) DEF TouchIcs, Touch
    <3> QED BY <3>3, <3>4, <3>5, <3>6, <3>7, <3>8, <3>9, <3>10, <3>11, <3>12
  <2> QED BY <2>1
<1>2. /\ TouchIcs[1].reg = \h8140
      /\ TouchIcs[1].addrs = {\h5D, \h14}
      /\ Len(TouchIcs[1].id) = 4 /\ TouchIcs[1].mask[1] = \hFF /\ TouchIcs[1].id[1] = \h39
  <2>1. TouchIcs[1].reg = \h8140
    BY SMTT(30) DEF TouchIcs, Touch
  <2>2. TouchIcs[1].addrs = {\h5D, \h14}
    BY SMTT(30) DEF TouchIcs, Touch
  <2>3. Len(TouchIcs[1].id) = 4 /\ TouchIcs[1].mask[1] = \hFF
    BY SMTT(30) DEF TouchIcs, Touch
  <2>4. TouchIcs[1].id[1] = \h39
    BY SMTT(30) DEF TouchIcs, Touch
  <2> QED BY <2>1, <2>2, <2>3, <2>4
<1>3. /\ TouchIcs[2].reg = \h8140
      /\ TouchIcs[2].addrs = {\h5D, \h14}
      /\ Len(TouchIcs[2].id) = 4 /\ TouchIcs[2].mask[1] = \hFF /\ TouchIcs[2].id[1] = \h31
  <2>1. TouchIcs[2].reg = \h8140
    BY SMTT(30) DEF TouchIcs, Touch
  <2>2. TouchIcs[2].addrs = {\h5D, \h14}
    BY SMTT(30) DEF TouchIcs, Touch
  <2>3. Len(TouchIcs[2].id) = 4 /\ TouchIcs[2].mask[1] = \hFF
    BY SMTT(30) DEF TouchIcs, Touch
  <2>4. TouchIcs[2].id[1] = \h31
    BY SMTT(30) DEF TouchIcs, Touch
  <2> QED BY <2>1, <2>2, <2>3, <2>4
<1> QED BY <1>1, <1>2, <1>3

\* Where the Goodix rows look.
LEMMA GoodixPlaces ==
  ASSUME NEW j \in 1 .. 12, TouchIcs[j].callable, NEW a \in TouchIcs[j].addrs
  PROVE  a \in {\h5D, \h14}
<1>1. TouchIcs[j].addrs = {\h5D, \h14}
  BY GoodixRows
<1> QED BY <1>1

\* Their registers have 16-bit addresses.
LEMMA GoodixWide ==
  ASSUME NEW j \in 1 .. 12, TouchIcs[j].callable
  PROVE  TouchIcs[j].wide = TRUE
<1>1. j \in {1, 2}
  BY GoodixRows
<1>2. TouchIcs[1].wide = TRUE
  BY SMTT(30) DEF TouchIcs, Touch
<1>3. TouchIcs[2].wide = TRUE
  BY SMTT(30) DEF TouchIcs, Touch
<1> QED BY <1>1, <1>2, <1>3

\* Codecs have addresses of their own.
LEMMA CodecPlaces ==
  ASSUME NEW j \in 1 .. 9
  PROVE  \A a \in Codecs[j].addrs : a \in 0 .. \h1C /\ a # \h14
<1>1. \A a \in Codecs[1].addrs : a \in 0 .. \h1C /\ a # \h14
  BY DEF Codecs, Codec
<1>2. \A a \in Codecs[2].addrs : a \in 0 .. \h1C /\ a # \h14
  BY DEF Codecs, Codec
<1>3. \A a \in Codecs[3].addrs : a \in 0 .. \h1C /\ a # \h14
  BY DEF Codecs, Codec
<1>4. \A a \in Codecs[4].addrs : a \in 0 .. \h1C /\ a # \h14
  BY DEF Codecs, Codec
<1>5. \A a \in Codecs[5].addrs : a \in 0 .. \h1C /\ a # \h14
  BY DEF Codecs, Codec
<1>6. \A a \in Codecs[6].addrs : a \in 0 .. \h1C /\ a # \h14
  BY DEF Codecs, Codec
<1>7. \A a \in Codecs[7].addrs : a \in 0 .. \h1C /\ a # \h14
  BY DEF Codecs, Codec
<1>8. \A a \in Codecs[8].addrs : a \in 0 .. \h1C /\ a # \h14
  BY DEF Codecs, Codec
<1>9. \A a \in Codecs[9].addrs : a \in 0 .. \h1C /\ a # \h14
  BY DEF Codecs, Codec
<1> QED BY <1>1, <1>2, <1>3, <1>4, <1>5, <1>6, <1>7, <1>8, <1>9

\* A chip that answers a Goodix row answers every peripheral's register with zeros.
LEMMA GoodixReadsZero ==
  ASSUME NEW j \in 1 .. 12, TouchIcs[j].callable, NEW a, TouchAccepts(j, a), NEW reg
  PROVE  Answer(a, FALSE, reg)[1] = 0
<1>1. /\ Len(TouchIcs[j].id) = 4 /\ TouchIcs[j].mask[1] = \hFF
      /\ TouchIcs[j].id[1] \in {\h31, \h39}
  BY GoodixRows
<1> DEFINE x == Answer(a, TouchIcs[j].wide, TouchIcs[j].reg)
<1>2. AgreeAll(x, TouchIcs[j].id, TouchIcs[j].mask)
  BY <1>1 DEF TouchAccepts
<1>3. Agree(x[1], TouchIcs[j].id[1], \hFF)
  <2> HIDE DEF x
  <2> QED BY <1>1, <1>2 DEF AgreeAll
<1>4. x[1] # 0
  <2>1. Bit(\hFF, 0) = 1 /\ Bit(\h31, 0) = 1 /\ Bit(\h39, 0) = 1 /\ Bit(0, 0) = 0
    BY DEF Bit
  <2>2. 0 \in 0 .. 7
    OBVIOUS
  <2> HIDE DEF x
  <2> QED BY <1>1, <1>3, <2>1, <2>2 DEF Agree
<1>5. board.chips[a].wide = TouchIcs[j].wide
  BY <1>4 DEF Answer, Sends
<1>6. TouchIcs[j].wide = TRUE
  BY GoodixWide
<1>7. ~ (board.chips[a].wide = FALSE)
  BY <1>5, <1>6, Zenon
<1> QED BY <1>7 DEF Answer, Sends

(***************************************************************************)
(* The order of the table. InOrder says of each node which driver          *)
(* registered it, and on what answer; it is inductive with Inv.            *)
(***************************************************************************)
\* Where a node comes from: what the driver that registered it knows of it.
FromTouch(n) ==
  /\ n.bus = "I2C"
  /\ \E j \in 1 .. 12 :
       TouchIcs[j].callable /\ n.name = TouchIcs[j].name /\ TouchAccepts(j, n.addr)

FromCodec(n) ==
  /\ \E j \in 1 .. 9 : n.name = Codecs[j].name
  /\ n.bus = "I2C" =>
       \E j \in Candidates(n.addr) :
         n.name = Codecs[j].name /\ (n.addr \in disturbed \/ CodecAgrees(j, n.addr))

\* One of the first K rows of the database.
FromPeriph(n, K) ==
  \E k \in 1 .. K :
    /\ n.name = Peripherals[k].name /\ n.addr \in AddrsOf(Peripherals[k])
    /\ n.addr \in disturbed \/ PeriphAgrees(Peripherals[k], n.addr)

\* The display comes first, then the touch controller, the codec and the peripherals,
\* each name once.
Arranged(K) ==
  /\ Len(nodes) >= 1 => nodes[1].bus = "SPI" /\ \E p \in 1 .. 10 : nodes[1].name = Panels[p].name
  /\ Len(nodes) >= 2 => FromTouch(nodes[2])
  /\ Len(nodes) >= 3 => FromCodec(nodes[3])
  /\ \A i \in 4 .. Len(nodes) : FromPeriph(nodes[i], K)
  /\ \A i, j \in 4 .. Len(nodes) : nodes[i].name = nodes[j].name => i = j

\* The rows of the database that were tried.
Tried == IF phase = "sensors" THEN step - 1 ELSE 27

InOrder ==
  /\ phase \in {"scan", "lcd"} => Len(nodes) = 0
  /\ phase \in {"touch", "fault"} => Len(nodes) = 1
  /\ phase = "audio" => Len(nodes) = 2
  /\ phase \in {"sensors", "done"} => Len(nodes) >= 3
  /\ Arranged(Tried)

\* What a chip answers does not change.
LEMMA BoardStays ==
  ASSUME UNCHANGED board
  PROVE  /\ \A j, a : TouchAccepts(j, a)' <=> TouchAccepts(j, a)
         /\ \A j, a : CodecAgrees(j, a)' <=> CodecAgrees(j, a)
         /\ \A row, a : PeriphAgrees(row, a)' <=> PeriphAgrees(row, a)
<1>1. \A a, w, r : Answer(a, w, r)' = Answer(a, w, r)
  BY DEF Answer
<1>2. \A a : Acks(a)' = Acks(a)
  BY DEF Acks
<1>3. \A j, a : TouchAccepts(j, a)' <=> TouchAccepts(j, a)
  BY <1>1, <1>2 DEF TouchAccepts
<1>4. \A j, a : CodecAgrees(j, a)' <=> CodecAgrees(j, a)
  BY <1>1 DEF CodecAgrees
<1>5. \A row, a : PeriphAgrees(row, a)' <=> PeriphAgrees(row, a)
  BY <1>1, <1>2 DEF PeriphAgrees
<1> QED BY <1>3, <1>4, <1>5

\* Nor does where a node comes from.
LEMMA OriginStays ==
  ASSUME UNCHANGED board, disturbed \subseteq disturbed', NEW n, NEW K \in Nat, NEW L \in Nat, K <= L
  PROVE  /\ FromTouch(n) => FromTouch(n)'
         /\ FromCodec(n) => FromCodec(n)'
         /\ FromPeriph(n, K) => FromPeriph(n, L)'
<1>1. FromTouch(n) => FromTouch(n)'
  BY BoardStays DEF FromTouch
<1>2. FromCodec(n) => FromCodec(n)'
  BY BoardStays DEF FromCodec
<1>3. FromPeriph(n, K) => FromPeriph(n, L)'
  BY BoardStays DEF FromPeriph
<1> QED BY <1>1, <1>2, <1>3

LEMMA ArrangedStays ==
  ASSUME UNCHANGED <<board, nodes>>, disturbed \subseteq disturbed',
         NEW K \in Nat, NEW L \in Nat, K <= L, Arranged(K)
  PROVE  Arranged(L)'
<1>1. \A n : /\ FromTouch(n) => FromTouch(n)'
             /\ FromCodec(n) => FromCodec(n)'
             /\ FromPeriph(n, K) => FromPeriph(n, L)'
  BY OriginStays
<1> QED BY <1>1 DEF Arranged

LEMMA ArrangedGrows ==
  ASSUME UNCHANGED board, disturbed \subseteq disturbed', nodes \in Seq(Nodes), NEW node \in Nodes,
         nodes' = Append(nodes, node),
         NEW K \in Nat, NEW L \in Nat, K <= L, Arranged(K),
         Len(nodes) = 0 => node.bus = "SPI" /\ \E p \in 1 .. 10 : node.name = Panels[p].name,
         Len(nodes) = 1 => FromTouch(node)',
         Len(nodes) = 2 => FromCodec(node)',
         Len(nodes) >= 3 => FromPeriph(node, L)' /\ ~ FoundByName(node.name)
  PROVE  Arranged(L)'
<1>1. \A n : /\ FromTouch(n) => FromTouch(n)'
             /\ FromCodec(n) => FromCodec(n)'
             /\ FromPeriph(n, K) => FromPeriph(n, L)'
  BY OriginStays
<1> DEFINE N == Len(nodes)
<1>2. /\ N \in Nat /\ Len(nodes') = N + 1 /\ nodes'[N + 1] = node
      /\ \A i \in 1 .. N : nodes'[i] = nodes[i]
  OBVIOUS
<1>3. PICK M : M = nodes'
  OBVIOUS
<1> HIDE DEF N
<1>4. N >= 0 /\ Len(M) = N + 1 /\ M[N + 1] = node /\ \A i \in 1 .. N : M[i] = nodes[i]
  BY <1>2, <1>3
<1>5. Len(M) >= 1 => M[1].bus = "SPI" /\ \E p \in 1 .. 10 : M[1].name = Panels[p].name
  BY <1>2, <1>4 DEF Arranged, N
<1>6. ASSUME Len(M) >= 2 PROVE FromTouch(M[2])'
  <2>1. CASE N = 1
    BY <1>4, <2>1 DEF N
  <2>2. CASE N >= 2
    <3>1. FromTouch(nodes[2]) /\ M[2] = nodes[2]
      BY <1>2, <1>4, <2>2 DEF Arranged, N
    <3> QED BY <1>1, <3>1
  <2> QED BY <1>2, <1>4, <1>6, <2>1, <2>2
<1>7. ASSUME Len(M) >= 3 PROVE FromCodec(M[3])'
  <2>1. CASE N = 2
    BY <1>4, <2>1 DEF N
  <2>2. CASE N >= 3
    <3>1. FromCodec(nodes[3]) /\ M[3] = nodes[3]
      BY <1>2, <1>4, <2>2 DEF Arranged, N
    <3> QED BY <1>1, <3>1
  <2> QED BY <1>2, <1>4, <1>7, <2>1, <2>2
<1>8. ASSUME NEW i \in 4 .. Len(M) PROVE FromPeriph(M[i], L)'
  <2>1. CASE i = N + 1
    <3>1. N >= 3
      BY <1>2, <2>1
    <3> QED BY <1>4, <2>1, <3>1 DEF N
  <2>2. CASE i # N + 1
    <3>1. i \in 4 .. N
      BY <1>2, <1>4, <2>2
    <3>2. FromPeriph(nodes[i], K) /\ M[i] = nodes[i]
      BY <1>2, <1>4, <3>1 DEF Arranged, N
    <3> QED BY <1>1, <3>2
  <2> QED BY <2>1, <2>2
<1>9. ASSUME NEW i \in 4 .. Len(M), NEW j \in 4 .. Len(M), M[i].name = M[j].name PROVE i = j
  <2>1. \A k \in 4 .. N : N >= 3 => M[k] = nodes[k] /\ M[k].name # node.name
    <3>1. ASSUME NEW k \in 4 .. N PROVE M[k] = nodes[k] /\ nodes[k].name # node.name
      <4>1. N >= 3 /\ k \in 1 .. N
        BY <1>2
      <4> QED BY <1>4, <4>1 DEF FoundByName, N
    <3> QED BY <3>1
  <2>2. (i \in 4 .. N \/ i = N + 1) /\ (j \in 4 .. N \/ j = N + 1) /\ N >= 3
    BY <1>2, <1>4
  <2>3. CASE i \in 4 .. N /\ j \in 4 .. N
    BY <1>9, <2>1, <2>2, <2>3 DEF Arranged, N
  <2> QED BY <1>4, <1>9, <2>1, <2>2, <2>3
<1> QED BY <1>3, <1>5, <1>6, <1>7, <1>8, <1>9 DEF Arranged

\* The node that is appended, and what it is.
Appended(name, bus, addr) ==
  \E node \in Nodes : /\ nodes' = Append(nodes, node) /\ Len(nodes') = Len(nodes) + 1
                      /\ node.name = name /\ node.bus = bus /\ node.addr = addr

LEMMA Appends ==
  ASSUME Inv, NEW name \in Names, NEW category \in SUBSET Categories,
         NEW bus \in {"SPI", "I2C", "I2S"}, NEW addr \in Places,
         Register(name, category, bus, addr)
  PROVE  Appended(name, bus, addr)
<1> DEFINE node == [name |-> name, category |-> category, bus |-> bus, addr |-> addr]
<1>1. HasRoom(nodes) /\ nodes \in Seq(Nodes)
  <2>1. Len(nodes) <= 30 /\ Len(nodes) \in Nat
    BY DEF Inv, WithinBudget, TreeOK
  <2> QED BY <2>1 DEF HasRoom, MAX_DEVICE_NODES, Inv, TypeOK
<1>2. nodes' = Append(nodes, node)
  BY <1>1 DEF Register
<1>3. node \in Nodes /\ node.name = name /\ node.bus = bus /\ node.addr = addr
  BY DEF Nodes
<1> HIDE DEF node
<1>4. Len(nodes') = Len(nodes) + 1
  BY <1>1, <1>2, <1>3
<1> QED BY <1>2, <1>3, <1>4 DEF Appended

LEMMA TableFacts ==
  ASSUME Inv
  PROVE  nodes \in Seq(Nodes) /\ Len(nodes) \in Nat /\ step \in 1 .. 27 /\ Tried \in 0 .. 27
<1>1. nodes \in Seq(Nodes) /\ step \in 1 .. 27
  BY TableLengths DEF Inv, TypeOK
<1>2. Tried \in 0 .. 27
  BY <1>1 DEF Tried
<1> QED BY <1>1, <1>2

LEMMA InOrderInit == Init => InOrder
BY DEF Init, InOrder, Arranged, Tried

LEMMA InOrderScan == ASSUME Inv, InOrder, Scan PROVE InOrder'
<1>1. /\ phase = "scan" /\ phase' = "lcd" /\ nodes' = nodes /\ board' = board
      /\ disturbed' = disturbed
  BY DEF Scan, Enter
<1>2. Tried = 27 /\ Tried' = 27
  BY <1>1 DEF Tried
<1>3. Arranged(27)'
  BY <1>1, <1>2, ArrangedStays DEF InOrder
<1> QED BY <1>1, <1>2, <1>3 DEF InOrder

LEMMA InOrderLcd == ASSUME Inv, InOrder, ProbeLcd PROVE InOrder'
<1>1. /\ phase = "lcd" /\ phase' = "touch" /\ board' = board /\ disturbed' = disturbed
      /\ Register(Panels[PanelFound].name, {"LCD"}, "SPI", 10)
  BY DEF ProbeLcd, Enter
<1>2. PanelFound \in 1 .. 10
  BY PanelFoundOK, TableLengths
<1>3. Panels[PanelFound].name \in Names /\ {"LCD"} \in SUBSET Categories /\ 10 \in Places
  BY <1>2, TableLengths DEF Names, Categories, Primaries, Places
<1>4. PICK node \in Nodes : /\ nodes' = Append(nodes, node) /\ Len(nodes') = Len(nodes) + 1
                            /\ node.name = Panels[PanelFound].name /\ node.bus = "SPI"
  <2>1. Appended(Panels[PanelFound].name, "SPI", 10)
    BY <1>1, <1>3, Appends
  <2> QED BY <2>1 DEF Appended
<1>5. Len(nodes) = 0 /\ Tried = 27 /\ Tried' = 27 /\ nodes \in Seq(Nodes)
  BY <1>1, TableFacts DEF InOrder, Tried
<1>6. Arranged(27)'
  <2>1. Arranged(27)
    BY <1>5 DEF InOrder
  <2> QED BY <1>1, <1>2, <1>4, <1>5, <2>1, ArrangedGrows
<1>7. Len(nodes') = 1
  BY <1>4, <1>5
<1> QED BY <1>1, <1>5, <1>6, <1>7 DEF InOrder

LEMMA InOrderTouch == ASSUME Inv, InOrder, TouchReady PROVE InOrder'
<1>1. PICK k \in 1 .. 8, i \in 1 .. 12 :
        TouchFound = <<i, TouchAddrs[k]>> /\ TouchAccepts(i, TouchAddrs[k])
  BY TouchFoundOK
<1>2. PICK a : a = TouchAddrs[k]
  OBVIOUS
<1>3. /\ phase = "touch" /\ phase' = "audio" /\ board' = board /\ disturbed' = disturbed
      /\ TouchIcs[i].callable
      /\ Register(TouchIcs[i].name, {"TOUCH"}, "I2C", a)
  BY <1>1, <1>2 DEF TouchReady, Enter
<1>4. TouchIcs[i].name \in Names /\ {"TOUCH"} \in SUBSET Categories /\ a \in Places
  BY <1>2, TableLengths DEF Names, Categories, Primaries, Places
<1>5. PICK node \in Nodes : /\ nodes' = Append(nodes, node) /\ Len(nodes') = Len(nodes) + 1
                            /\ node.name = TouchIcs[i].name /\ node.bus = "I2C" /\ node.addr = a
  <2>1. Appended(TouchIcs[i].name, "I2C", a)
    BY <1>3, <1>4, Appends
  <2> QED BY <2>1 DEF Appended
<1>6. Len(nodes) = 1 /\ Tried = 27 /\ Tried' = 27 /\ nodes \in Seq(Nodes)
  BY <1>3, TableFacts DEF InOrder, Tried
<1>7. FromTouch(node)
  BY <1>1, <1>2, <1>3, <1>5 DEF FromTouch
<1>8. FromTouch(node)'
  BY <1>3, <1>7, OriginStays
<1>9. Arranged(27)'
  <2>1. Arranged(27)
    BY <1>6 DEF InOrder
  <2> QED BY <1>3, <1>5, <1>6, <1>8, <2>1, ArrangedGrows
<1>10. Len(nodes') = 2
  BY <1>5, <1>6
<1> QED BY <1>3, <1>6, <1>9, <1>10 DEF InOrder

LEMMA InOrderFault == ASSUME Inv, InOrder, TouchFault PROVE InOrder'
<1>1. /\ phase = "touch" /\ phase' = "fault" /\ nodes' = nodes /\ board' = board
      /\ disturbed' = disturbed
  BY DEF TouchFault, Enter
<1>2. Tried = 27 /\ Tried' = 27
  BY <1>1 DEF Tried
<1>3. Arranged(27)'
  BY <1>1, <1>2, ArrangedStays DEF InOrder
<1> QED BY <1>1, <1>2, <1>3 DEF InOrder

\* A codec, or the DAC that is assumed, becomes the third device.
LEMMA InOrderUse ==
  ASSUME Inv, InOrder, phase = "audio", board' = board, disturbed \subseteq disturbed',
         NEW i \in 1 .. 9, NEW a \in Places, UseCodec(i, a),
         a # 0 => i \in Candidates(a) /\ (a \in disturbed' \/ CodecAgrees(i, a))
  PROVE  InOrder'
<1> DEFINE category == IF Codecs[i].adc THEN {"AUDIO_OUT", "AUDIO_IN"} ELSE {"AUDIO_OUT"}
           bus == IF a = 0 THEN "I2S" ELSE "I2C"
<1>1. /\ phase' = "sensors" /\ step' = 1
      /\ Register(Codecs[i].name, category, bus, a)
  BY DEF UseCodec, Enter
<1>2. /\ Codecs[i].name \in Names /\ category \in SUBSET Categories
      /\ bus \in {"SPI", "I2C", "I2S"}
  BY TableLengths DEF Names, Categories, Primaries
<1>3. bus = "I2C" => a # 0
  OBVIOUS
<1> HIDE DEF category, bus
<1>4. PICK node \in Nodes : /\ nodes' = Append(nodes, node) /\ Len(nodes') = Len(nodes) + 1
                            /\ node.name = Codecs[i].name /\ node.bus = bus /\ node.addr = a
  <2>1. Appended(Codecs[i].name, bus, a)
    BY <1>1, <1>2, Appends
  <2> QED BY <2>1 DEF Appended
<1>5. Len(nodes) = 2 /\ Tried = 27 /\ Tried' = 0 /\ nodes \in Seq(Nodes)
  BY <1>1, TableFacts DEF InOrder, Tried
<1>6. FromCodec(node)'
  <2>1. \A j, b : CodecAgrees(j, b) => CodecAgrees(j, b)'
    BY BoardStays
  <2> QED BY <1>3, <1>4, <2>1 DEF FromCodec
<1>7. Arranged(0)
  <2>1. Arranged(27)
    BY <1>5 DEF InOrder
  <2> QED BY <1>5, <2>1 DEF Arranged
<1>8. Arranged(0)'
  BY <1>4, <1>5, <1>6, <1>7, ArrangedGrows
<1>9. Len(nodes') = 3
  BY <1>4, <1>5
<1> QED BY <1>1, <1>5, <1>8, <1>9 DEF InOrder

LEMMA InOrderDac == ASSUME Inv, InOrder, AssumeDac PROVE InOrder'
<1>1. /\ phase = "audio" /\ board' = board /\ disturbed' = disturbed /\ UseCodec(8, 0)
  BY TableLengths DEF AssumeDac
<1>2. 0 \in Places /\ 8 \in 1 .. 9
  BY DEF Places
<1> QED BY <1>1, <1>2, InOrderUse

LEMMA InOrderCodec == ASSUME Inv, InOrder, ProbeCodec PROVE InOrder'
<1>1. TypeOK /\ step \in 1 .. 5 /\ phase = "audio" /\ board' = board
  BY TableLengths DEF Inv, TypeOK, ProbeCodec
<1>2. PICK a : a = AudioAddrs[step]
  OBVIOUS
<1>3. a \in PolledOver /\ a \in Places /\ a # 0
  <2>1. a \in PolledOver /\ a \in Places
    BY <1>1, <1>2, TableLengths DEF PolledOver, Places
  <2>2. a # 0
    BY <1>1, <1>2 DEF AudioAddrs
  <2> QED BY <2>1, <2>2
<1>4. ASSUME NEW i \in Candidates(a), ReadCodec(i, a), UseCodec(i, a) PROVE InOrder'
  <2>1. i \in 1 .. 9 /\ i # 0
    BY <1>4, TableLengths DEF Candidates
  <2>2. disturbed \subseteq disturbed' /\ (a \notin disturbed' => CodecAgrees(i, a))
    BY <1>1, <1>3, <1>4, <2>1, ReadsCodec
  <2> QED BY <1>1, <1>3, <1>4, <2>1, <2>2, InOrderUse
<1>5. ASSUME ReadCodec(0, a), step' = step + 1, UNCHANGED <<phase, nodes, primary, context>>
      PROVE  InOrder'
  <2>1. disturbed \subseteq disturbed'
    BY <1>1, <1>3, <1>5, ReadsCodec
  <2>2. Tried = 27 /\ Tried' = 27
    BY <1>1, <1>5 DEF Tried
  <2>3. Arranged(27)'
    BY <1>1, <1>5, <2>1, <2>2, ArrangedStays DEF InOrder
  <2> QED BY <1>1, <1>5, <2>2, <2>3 DEF InOrder
<1> QED BY <1>2, <1>4, <1>5 DEF ProbeCodec

\* At which address of a row detection stops.
LEMMA StopsAt ==
  ASSUME NEW k \in 1 .. 27, TryAddresses(Peripherals[k])
  PROVE  /\ disturbed \subseteq disturbed'
         /\ \E n \in 1 .. Len(Peripherals[k].addrs) + 1 :
              /\ \A m \in 1 .. n - 1 : \/ Peripherals[k].addrs[m] \in disturbed'
                                       \/ ~ PeriphAgrees(Peripherals[k], Peripherals[k].addrs[m])
              /\ \/ /\ n <= Len(Peripherals[k].addrs) /\ Claim(Peripherals[k], n)
                    /\ \/ Peripherals[k].addrs[n] \in disturbed'
                       \/ PeriphAgrees(Peripherals[k], Peripherals[k].addrs[n])
                 \/ n > Len(Peripherals[k].addrs) /\ UNCHANGED <<nodes, primary>>
<1> DEFINE row == Peripherals[k]
<1>0. PICK n \in 1 .. Len(row.addrs) + 1 :
        \E Bad \in SUBSET {row.addrs[i] : i \in {j \in 1 .. Len(row.addrs) : j <= n}} :
          /\ NoneBefore(row, n, Bad)
          /\ \/ MatchAt(row, n, Bad) /\ Claim(row, n)
             \/ n > Len(row.addrs) /\ UNCHANGED <<nodes, primary>>
          /\ disturbed' = disturbed \cup Bad
  BY DEF TryAddresses
<1>1. PICK Bad \in SUBSET {row.addrs[i] : i \in {j \in 1 .. Len(row.addrs) : j <= n}} :
          /\ NoneBefore(row, n, Bad)
          /\ \/ MatchAt(row, n, Bad) /\ Claim(row, n)
             \/ n > Len(row.addrs) /\ UNCHANGED <<nodes, primary>>
          /\ disturbed' = disturbed \cup Bad
  BY <1>0
<1>2. disturbed \subseteq disturbed' /\ Bad \subseteq disturbed'
  BY <1>1
<1>3. \A m \in 1 .. n - 1 : row.addrs[m] \in disturbed' \/ ~ PeriphAgrees(row, row.addrs[m])
  BY <1>1, <1>2 DEF NoneBefore
<1>4. MatchAt(row, n, Bad) => /\ n <= Len(row.addrs)
                              /\ row.addrs[n] \in disturbed' \/ PeriphAgrees(row, row.addrs[n])
  BY <1>2 DEF MatchAt
<1> QED BY <1>1, <1>2, <1>3, <1>4

LEMMA InOrderPeriph == ASSUME Inv, InOrder, ProbePeripheral PROVE InOrder'
<1>0. PICK s \in 1 .. 27 : s = step
  BY TableFacts
<1>1. /\ phase = "sensors" /\ nodes \in Seq(Nodes) /\ board' = board
      /\ Len(nodes) >= 3 /\ Len(nodes) \in Nat /\ Arranged(s - 1)
  BY <1>0, TableFacts DEF ProbePeripheral, InOrder, Tried
<1> DEFINE row == Peripherals[s]
<1>2. /\ phase' \in {"sensors", "done"} /\ Tried' = s
  <2>1. \/ s = 27 /\ phase' = "done" /\ step' = 1
        \/ s # 27 /\ phase' = phase /\ step' = s + 1
    BY <1>0, TableLengths DEF ProbePeripheral, NextPeripheral, Enter
  <2>2. CASE phase' = "done"
    BY <1>1, <2>1, <2>2 DEF Tried
  <2>3. CASE phase' = "sensors"
    BY <1>1, <2>1, <2>3 DEF Tried
  <2> QED BY <1>1, <2>1, <2>2, <2>3
<1>3. CASE UNCHANGED <<nodes, primary>> /\ disturbed \subseteq disturbed'
  <2>1. Arranged(s)'
    BY <1>1, <1>3, ArrangedStays
  <2>2. InOrder'
    <3>1. Arranged(Tried)'
      BY <1>2, <2>1
    <3>2. Len(nodes)' >= 3
      BY <1>1, <1>3
    <3> QED BY <1>2, <3>1, <3>2 DEF InOrder
  <2> QED BY <2>2
<1>4. ASSUME ~ FoundByName(row.name), TryAddresses(row) PROVE InOrder'
  <2>1. PICK n \in 1 .. Len(row.addrs) + 1 :
          \/ /\ n <= Len(row.addrs) /\ Claim(row, n)
             /\ row.addrs[n] \in disturbed' \/ PeriphAgrees(row, row.addrs[n])
          \/ UNCHANGED <<nodes, primary>>
    BY <1>1, <1>4, StopsAt
  <2>2. disturbed \subseteq disturbed'
    BY <1>1, <1>4, StopsAt
  <2>3. ASSUME n <= Len(row.addrs), Claim(row, n),
               row.addrs[n] \in disturbed' \/ PeriphAgrees(row, row.addrs[n])
        PROVE  InOrder'
    <3>1. n \in 1 .. Len(row.addrs)
      BY <2>3
    <3>2. PICK a : a = row.addrs[n]
      OBVIOUS
    <3>3. a \in AddrsOf(row)
      BY <3>1, <3>2 DEF AddrsOf
    <3>4. a \in Places /\ row.name \in Names /\ {row.category} \in SUBSET Categories
      <4>1. a \in PolledOver
        <5>1. a \in {Peripherals[s].addrs[m] : m \in 1 .. Len(Peripherals[s].addrs)}
          BY <3>1, <3>2
        <5> QED BY <5>1, TableLengths DEF PolledOver
      <4> QED BY <4>1, TableLengths DEF Places, Names, Categories
    <3>5. Register(row.name, {row.category}, "I2C", a)
      BY <2>3, <3>2 DEF Claim
    <3>6. PICK nm : nm = row.name
      OBVIOUS
    <3>7. PICK node \in Nodes : /\ nodes' = Append(nodes, node) /\ Len(nodes') = Len(nodes) + 1
                                /\ node.name = nm /\ node.bus = "I2C" /\ node.addr = a
      <4>1. Appended(nm, "I2C", a)
        BY <3>4, <3>5, <3>6, Appends
      <4> QED BY <4>1 DEF Appended
    <3>8. FromPeriph(node, s)'
      <4>1. \A r, b : PeriphAgrees(r, b) => PeriphAgrees(r, b)'
        BY <1>1, BoardStays
      <4>2. /\ node.name = Peripherals[s].name /\ node.addr \in AddrsOf(Peripherals[s])
            /\ node.addr \in disturbed' \/ PeriphAgrees(Peripherals[s], node.addr)'
        BY <2>3, <3>2, <3>3, <3>6, <3>7, <4>1
      <4>3. s \in 1 .. s
        OBVIOUS
      <4> QED BY <4>2, <4>3 DEF FromPeriph
    <3>9. Arranged(s)'
      <4>1. ~ FoundByName(node.name) /\ s - 1 \in Nat /\ s \in Nat /\ s - 1 <= s
        BY <1>4, <3>6, <3>7
      <4> QED BY <1>1, <2>2, <3>7, <3>8, <4>1, ArrangedGrows
    <3>10. Len(nodes)' >= 3
      BY <1>1, <3>7
    <3>11. Arranged(Tried)'
      BY <1>2, <3>9
    <3> QED BY <1>2, <3>10, <3>11 DEF InOrder
  <2> QED BY <1>3, <2>1, <2>2, <2>3
<1> QED BY <1>0, <1>3, <1>4 DEF ProbePeripheral

LEMMA InOrderNext == Inv /\ InOrder /\ [Next]_vars => InOrder'
<1> SUFFICES ASSUME Inv, InOrder, [Next]_vars PROVE InOrder'
  OBVIOUS
<1>1. CASE UNCHANGED vars
  <2>1. UNCHANGED <<board, phase, step, nodes, disturbed>>
    BY <1>1 DEF vars
  <2>2. Tried' = Tried /\ Tried \in Nat
    <3>1. Tried' = Tried
      BY <2>1 DEF Tried
    <3>2. Tried \in 0 .. 27
      BY TableFacts
    <3> QED BY <3>1, <3>2
  <2>3. PICK K \in Nat : K = Tried
    BY <2>2
  <2>4. Arranged(K)'
    BY <2>1, <2>3, ArrangedStays DEF InOrder
  <2> QED BY <2>1, <2>2, <2>3, <2>4 DEF InOrder
<1> QED BY <1>1, InOrderScan, InOrderLcd, InOrderTouch, InOrderFault, InOrderCodec, InOrderDac,
           InOrderPeriph DEF Next

(***************************************************************************)
(* Two devices at one address.                                             *)
(***************************************************************************)
\* Two rows that compare something are not both answered at one address.
LEMMA OneRowAnswers ==
  ASSUME NEW k \in 1 .. 27, NEW l \in 1 .. 27, k # l,
         ~ Unidentified(Peripherals[k]), ~ Unidentified(Peripherals[l]),
         NEW a \in AddrsOf(Peripherals[k]) \cap AddrsOf(Peripherals[l]),
         PeriphAgrees(Peripherals[k], a), PeriphAgrees(Peripherals[l], a)
  PROVE  FALSE
<1>1. ASSUME NEW m \in 1 .. 27, ~ Unidentified(Peripherals[m]), PeriphAgrees(Peripherals[m], a)
      PROVE  board.chips[a].reg = Peripherals[m].reg
  <2>1. PICK x : x = Answer(a, FALSE, Peripherals[m].reg)
    OBVIOUS
  <2>2. AgreeAll(x, Peripherals[m].id, Peripherals[m].mask)
    BY <1>1, <2>1 DEF PeriphAgrees
  <2>3. x[1] # 0
    BY <1>1, <2>2, RefusesZeros
  <2> QED BY <2>1, <2>3 DEF Answer, Sends
<1>2. Peripherals[k].reg = Peripherals[l].reg
  BY <1>1
<1>3. PICK x : x = Answer(a, FALSE, Peripherals[k].reg)
  OBVIOUS
<1>4. /\ AgreeAll(x, Peripherals[k].id, Peripherals[k].mask)
      /\ AgreeAll(x, Peripherals[l].id, Peripherals[l].mask)
  BY <1>2, <1>3 DEF PeriphAgrees
<1>5. CASE k < l
  BY <1>2, <1>4, <1>5, TellApart
<1>6. CASE l < k
  BY <1>2, <1>4, <1>6, TellApart
<1> QED BY <1>5, <1>6

\* A row of that name is answered at the address.
AnswersRow(name, a) ==
  \E k \in 1 .. 27 : /\ name = Peripherals[k].name /\ a \in AddrsOf(Peripherals[k])
                     /\ PeriphAgrees(Peripherals[k], a)

\* Two devices of one address that no disturbed transaction brought in.
LEMMA OverlapOfTwo ==
  ASSUME Inv, InOrder, NEW i \in 1 .. Len(nodes), NEW j \in 1 .. Len(nodes), i < j,
         nodes[i].bus = "I2C", nodes[j].bus = "I2C", nodes[i].addr = nodes[j].addr,
         nodes[i].addr \notin disturbed
  PROVE  OnAckAlone(nodes[i].name) \/ OnAckAlone(nodes[j].name)
<1>1. Arranged(Tried) /\ Tried \in 0 .. 27 /\ Len(nodes) \in Nat
  BY TableFacts DEF InOrder
<1>2. i # 1
  BY <1>1 DEF Arranged
<1>3. PICK a : a = nodes[i].addr
  OBVIOUS
<1>4. ASSUME NEW n \in 4 .. Len(nodes), nodes[n].addr = a
      PROVE  AnswersRow(nodes[n].name, a)
  <2>1. PICK K \in 0 .. 27 : K = Tried
    BY <1>1
  <2>2. FromPeriph(nodes[n], K)
    BY <1>1, <2>1 DEF Arranged
  <2>3. PICK k \in 1 .. K : /\ nodes[n].name = Peripherals[k].name
                            /\ nodes[n].addr \in AddrsOf(Peripherals[k])
                            /\ nodes[n].addr \in disturbed \/ PeriphAgrees(Peripherals[k], nodes[n].addr)
    BY <2>2 DEF FromPeriph
  <2>4. k \in 1 .. 27
    OBVIOUS
  <2> QED BY <1>3, <1>4, <2>3, <2>4 DEF AnswersRow
<1>5. \A k \in 1 .. 27, n \in 1 .. Len(nodes) :
        nodes[n].name = Peripherals[k].name /\ Unidentified(Peripherals[k]) => OnAckAlone(nodes[n].name)
  BY TableLengths DEF OnAckAlone
<1>6. CASE i = 2
  <2>1. PICK t \in 1 .. 12 : TouchIcs[t].callable /\ TouchAccepts(t, a)
    BY <1>1, <1>3, <1>6 DEF Arranged, FromTouch
  <2>2. a \in {\h5D, \h14}
    <3>1. a \in TouchIcs[t].addrs
      BY <2>1 DEF TouchAccepts
    <3> QED BY <2>1, <3>1, GoodixPlaces
  <2>3. CASE j = 3
    <3>1. FromCodec(nodes[3])
      BY <1>1, <2>3 DEF Arranged
    <3>2. PICK c \in 1 .. 9 : a \in Codecs[c].addrs
      BY <1>3, <2>3, <3>1, TableLengths DEF FromCodec, Candidates
    <3>3. a \in 0 .. \h1C /\ a # \h14
      BY <3>2, CodecPlaces
    <3> QED BY <2>2, <3>3
  <2>4. CASE j >= 4
    <3>1. PICK k \in 1 .. 27 : nodes[j].name = Peripherals[k].name /\ PeriphAgrees(Peripherals[k], a)
      <4>1. j \in 4 .. Len(nodes) /\ nodes[j].addr = a
        BY <1>1, <1>3, <2>4
      <4> QED BY <1>4, <4>1 DEF AnswersRow
    <3>2. PICK x : x = Answer(a, FALSE, Peripherals[k].reg)
      OBVIOUS
    <3>3. x[1] = 0
      BY <2>1, <3>2, GoodixReadsZero
    <3>4. Unidentified(Peripherals[k])
      BY <3>1, <3>2, <3>3, RefusesZeros DEF PeriphAgrees
    <3> QED BY <1>5, <3>1, <3>4
  <2> QED BY <1>1, <1>6, <2>3, <2>4
<1>7. CASE i = 3
  <2>1. FromCodec(nodes[3])
    BY <1>1, <1>7 DEF Arranged
  <2>2. PICK c \in 1 .. 9 : a \in Codecs[c].addrs
    BY <1>3, <1>7, <2>1, TableLengths DEF FromCodec, Candidates
  <2>3. PICK k \in 1 .. 27 : a \in AddrsOf(Peripherals[k])
    <3>1. j \in 4 .. Len(nodes) /\ nodes[j].addr = a
      BY <1>1, <1>3, <1>7
    <3> QED BY <1>4, <3>1 DEF AnswersRow
  <2>4. a \in 0 .. \h1C
    BY <2>2, CodecPlaces
  <2>5. a \notin 0 .. \h1C
    <3>1. \A b \in AddrsOf(Peripherals[k]) : b \notin 0 .. \h1C
      BY PeriphPlaces
    <3> QED BY <2>3, <3>1
  <2> QED BY <2>4, <2>5
<1>8. CASE i >= 4
  <2>0. /\ i \in 4 .. Len(nodes) /\ nodes[i].addr = a
        /\ j \in 4 .. Len(nodes) /\ nodes[j].addr = a
    BY <1>1, <1>3, <1>8
  <2>1. PICK k \in 1 .. 27 : /\ nodes[i].name = Peripherals[k].name
                             /\ a \in AddrsOf(Peripherals[k]) /\ PeriphAgrees(Peripherals[k], a)
    BY <1>4, <2>0 DEF AnswersRow
  <2>2. PICK l \in 1 .. 27 : /\ nodes[j].name = Peripherals[l].name
                             /\ a \in AddrsOf(Peripherals[l]) /\ PeriphAgrees(Peripherals[l], a)
    BY <1>4, <2>0 DEF AnswersRow
  <2>3. k # l
    <3>1. i \in 4 .. Len(nodes) /\ j \in 4 .. Len(nodes)
      BY <1>1, <1>8
    <3>2. nodes[i].name # nodes[j].name
      BY <1>1, <3>1 DEF Arranged
    <3> QED BY <2>1, <2>2, <3>2
  <2>4. Unidentified(Peripherals[k]) \/ Unidentified(Peripherals[l])
    BY <2>1, <2>2, <2>3, OneRowAnswers
  <2> QED BY <1>5, <2>1, <2>2, <2>4
<1> QED BY <1>1, <1>2, <1>6, <1>7, <1>8

LEMMA OverlapsFollow == Inv /\ InOrder => OverlapsOnAckAlone
<1> SUFFICES ASSUME Inv, InOrder, NEW i \in 1 .. Len(nodes), NEW j \in 1 .. Len(nodes), i # j,
                    nodes[i].bus = "I2C", nodes[j].bus = "I2C", nodes[i].addr = nodes[j].addr,
                    nodes[i].addr \notin disturbed
             PROVE  OnAckAlone(nodes[i].name) \/ OnAckAlone(nodes[j].name)
  BY DEF OverlapsOnAckAlone
<1>1. Len(nodes) \in Nat
  BY TableFacts
<1>2. CASE i < j
  BY <1>2, OverlapOfTwo
<1>3. CASE j < i
  BY <1>3, OverlapOfTwo
<1> QED BY <1>1, <1>2, <1>3

LEMMA OrderInvariance == Spec => [](Inv /\ InOrder)
<1>1. Init => Inv /\ InOrder
  BY InitInv, InOrderInit
<1>2. Inv /\ InOrder /\ [Next]_vars => (Inv /\ InOrder)'
  BY NextInv, InOrderNext
<1> QED BY <1>1, <1>2, PTL DEF Spec

\* Where two devices have one address and no transaction there was disturbed, one of
\* them was registered on an acknowledgement alone: no chip answers two rows that ask.
THEOREM OverlapsAreUnidentified == Spec => []OverlapsOnAckAlone
BY OrderInvariance, OverlapsFollow, PTL

(***************************************************************************)
(* What detection cannot miss. From here on boards are genuine: a chip of  *)
(* a row's name has its identification where the row looks for it. The     *)
(* names of the tables tell the rows apart.                                *)
(***************************************************************************)
\* The names of the peripherals.
LEMMA PeriphNames ==
  /\ Peripherals[1].name = "MPU6050"
  /\ Peripherals[2].name = "MPU9250"
  /\ Peripherals[3].name = "MPU6886"
  /\ Peripherals[4].name = "ICM42688"
  /\ Peripherals[5].name = "BMI160"
  /\ Peripherals[6].name = "LSM6DS3"
  /\ Peripherals[7].name = "LSM6DSO"
  /\ Peripherals[8].name = "ADXL345"
  /\ Peripherals[9].name = "BMP280"
  /\ Peripherals[10].name = "BME280"
  /\ Peripherals[11].name = "BME680"
  /\ Peripherals[12].name = "AHT20"
  /\ Peripherals[13].name = "AHT10"
  /\ Peripherals[14].name = "SHT31"
  /\ Peripherals[15].name = "DHT12"
  /\ Peripherals[16].name = "LPS22HB"
  /\ Peripherals[17].name = "SHTC3"
  /\ Peripherals[18].name = "DS3231"
  /\ Peripherals[19].name = "PCF8563"
  /\ Peripherals[20].name = "RV3028"
  /\ Peripherals[21].name = "DS1307"
  /\ Peripherals[22].name = "PCA9685"
  /\ Peripherals[23].name = "IS31FL3741"
  /\ Peripherals[24].name = "PCF8574"
  /\ Peripherals[25].name = "MCP23017"
  /\ Peripherals[26].name = "OV2640"
  /\ Peripherals[27].name = "OV5640"
<1>1. Peripherals[1].name = "MPU6050"
  BY DEF Peripherals, Periph
<1>2. Peripherals[2].name = "MPU9250"
  BY DEF Peripherals, Periph
<1>3. Peripherals[3].name = "MPU6886"
  BY DEF Peripherals, Periph
<1>4. Peripherals[4].name = "ICM42688"
  BY DEF Peripherals, Periph
<1>5. Peripherals[5].name = "BMI160"
  BY DEF Peripherals, Periph
<1>6. Peripherals[6].name = "LSM6DS3"
  BY DEF Peripherals, Periph
<1>7. Peripherals[7].name = "LSM6DSO"
  BY DEF Peripherals, Periph
<1>8. Peripherals[8].name = "ADXL345"
  BY DEF Peripherals, Periph
<1>9. Peripherals[9].name = "BMP280"
  BY DEF Peripherals, Periph
<1>10. Peripherals[10].name = "BME280"
  BY DEF Peripherals, Periph
<1>11. Peripherals[11].name = "BME680"
  BY DEF Peripherals, Periph
<1>12. Peripherals[12].name = "AHT20"
  BY DEF Peripherals, Periph
<1>13. Peripherals[13].name = "AHT10"
  BY DEF Peripherals, Periph
<1>14. Peripherals[14].name = "SHT31"
  BY DEF Peripherals, Periph
<1>15. Peripherals[15].name = "DHT12"
  BY DEF Peripherals, Periph
<1>16. Peripherals[16].name = "LPS22HB"
  BY DEF Peripherals, Periph
<1>17. Peripherals[17].name = "SHTC3"
  BY DEF Peripherals, Periph
<1>18. Peripherals[18].name = "DS3231"
  BY DEF Peripherals, Periph
<1>19. Peripherals[19].name = "PCF8563"
  BY DEF Peripherals, Periph
<1>20. Peripherals[20].name = "RV3028"
  BY DEF Peripherals, Periph
<1>21. Peripherals[21].name = "DS1307"
  BY DEF Peripherals, Periph
<1>22. Peripherals[22].name = "PCA9685"
  BY DEF Peripherals, Periph
<1>23. Peripherals[23].name = "IS31FL3741"
  BY DEF Peripherals, Periph
<1>24. Peripherals[24].name = "PCF8574"
  BY DEF Peripherals, Periph
<1>25. Peripherals[25].name = "MCP23017"
  BY DEF Peripherals, Periph
<1>26. Peripherals[26].name = "OV2640"
  BY DEF Peripherals, Periph
<1>27. Peripherals[27].name = "OV5640"
  BY DEF Peripherals, Periph
<1> QED
  BY <1>1, <1>2, <1>3, <1>4, <1>5, <1>6, <1>7, <1>8, <1>9, <1>10, <1>11, <1>12, <1>13, <1>14, <1>15, <1>16, <1>17, <1>18, <1>19, <1>20, <1>21, <1>22, <1>23, <1>24, <1>25, <1>26, <1>27

\* Those of the displays and of the codecs.
LEMMA PanelNames ==
  ASSUME NEW p \in 1 .. 10
  PROVE  Panels[p].name \in {"ILI9341", "ILI9488", "ST7789", "ST7735", "GC9A01", "NT35510", "HX8357D", "SSD1351", "RA8875", "ST7701S"}
<1>1. Panels[1].name = "ILI9341"
  BY DEF Panels, Panel
<1>2. Panels[2].name = "ILI9488"
  BY DEF Panels, Panel
<1>3. Panels[3].name = "ST7789"
  BY DEF Panels, Panel
<1>4. Panels[4].name = "ST7735"
  BY DEF Panels, Panel
<1>5. Panels[5].name = "GC9A01"
  BY DEF Panels, Panel
<1>6. Panels[6].name = "NT35510"
  BY DEF Panels, Panel
<1>7. Panels[7].name = "HX8357D"
  BY DEF Panels, Panel
<1>8. Panels[8].name = "SSD1351"
  BY DEF Panels, Panel
<1>9. Panels[9].name = "RA8875"
  BY DEF Panels, Panel
<1>10. Panels[10].name = "ST7701S"
  BY DEF Panels, Panel
<1> QED BY <1>1, <1>2, <1>3, <1>4, <1>5, <1>6, <1>7, <1>8, <1>9, <1>10

\* Those of the codecs.
LEMMA CodecNames ==
  ASSUME NEW p \in 1 .. 9
  PROVE  Codecs[p].name \in {"ES8388", "ES8374", "WM8978", "WM8960", "AC101", "TLV320", "UDA1380", "PCM5102A", "MAX98357A"}
<1>1. Codecs[1].name = "ES8388"
  BY DEF Codecs, Codec
<1>2. Codecs[2].name = "ES8374"
  BY DEF Codecs, Codec
<1>3. Codecs[3].name = "WM8978"
  BY DEF Codecs, Codec
<1>4. Codecs[4].name = "WM8960"
  BY DEF Codecs, Codec
<1>5. Codecs[5].name = "AC101"
  BY DEF Codecs, Codec
<1>6. Codecs[6].name = "TLV320"
  BY DEF Codecs, Codec
<1>7. Codecs[7].name = "UDA1380"
  BY DEF Codecs, Codec
<1>8. Codecs[8].name = "PCM5102A"
  BY DEF Codecs, Codec
<1>9. Codecs[9].name = "MAX98357A"
  BY DEF Codecs, Codec
<1> QED BY <1>1, <1>2, <1>3, <1>4, <1>5, <1>6, <1>7, <1>8, <1>9

\* Those of the Goodix chips.
LEMMA GoodixNames == TouchIcs[1].name = "GT911" /\ TouchIcs[2].name = "GT1151"
<1>1. TouchIcs[1].name = "GT911"
  BY SMTT(30) DEF TouchIcs, Touch
<1>2. TouchIcs[2].name = "GT1151"
  BY SMTT(30) DEF TouchIcs, Touch
<1> QED BY <1>1, <1>2

\* No two rows of the databases that detection comes to have the same name.
LEMMA NamesDiffer ==
  ASSUME NEW k \in 1 .. 27
  PROVE  /\ \A l \in 1 .. 27 : Peripherals[l].name = Peripherals[k].name => l = k
         /\ \A p \in 1 .. 10 : Panels[p].name # Peripherals[k].name
         /\ \A j \in 1 .. 12 : TouchIcs[j].callable => TouchIcs[j].name # Peripherals[k].name
         /\ \A c \in 1 .. 9 : Codecs[c].name # Peripherals[k].name
         /\ Peripherals[k].name = "OV5640" => k = 27
<1>1. ASSUME NEW l \in 1 .. 27, Peripherals[l].name = Peripherals[k].name PROVE l = k
  <2>1. ASSUME l = 1 PROVE k = 1
    BY <1>1, <2>1, PeriphNames
  <2>2. ASSUME l = 2 PROVE k = 2
    BY <1>1, <2>2, PeriphNames
  <2>3. ASSUME l = 3 PROVE k = 3
    BY <1>1, <2>3, PeriphNames
  <2>4. ASSUME l = 4 PROVE k = 4
    BY <1>1, <2>4, PeriphNames
  <2>5. ASSUME l = 5 PROVE k = 5
    BY <1>1, <2>5, PeriphNames
  <2>6. ASSUME l = 6 PROVE k = 6
    BY <1>1, <2>6, PeriphNames
  <2>7. ASSUME l = 7 PROVE k = 7
    BY <1>1, <2>7, PeriphNames
  <2>8. ASSUME l = 8 PROVE k = 8
    BY <1>1, <2>8, PeriphNames
  <2>9. ASSUME l = 9 PROVE k = 9
    BY <1>1, <2>9, PeriphNames
  <2>10. ASSUME l = 10 PROVE k = 10
    BY <1>1, <2>10, PeriphNames
  <2>11. ASSUME l = 11 PROVE k = 11
    BY <1>1, <2>11, PeriphNames
  <2>12. ASSUME l = 12 PROVE k = 12
    BY <1>1, <2>12, PeriphNames
  <2>13. ASSUME l = 13 PROVE k = 13
    BY <1>1, <2>13, PeriphNames
  <2>14. ASSUME l = 14 PROVE k = 14
    BY <1>1, <2>14, PeriphNames
  <2>15. ASSUME l = 15 PROVE k = 15
    BY <1>1, <2>15, PeriphNames
  <2>16. ASSUME l = 16 PROVE k = 16
    BY <1>1, <2>16, PeriphNames
  <2>17. ASSUME l = 17 PROVE k = 17
    BY <1>1, <2>17, PeriphNames
  <2>18. ASSUME l = 18 PROVE k = 18
    BY <1>1, <2>18, PeriphNames
  <2>19. ASSUME l = 19 PROVE k = 19
    BY <1>1, <2>19, PeriphNames
  <2>20. ASSUME l = 20 PROVE k = 20
    BY <1>1, <2>20, PeriphNames
  <2>21. ASSUME l = 21 PROVE k = 21
    BY <1>1, <2>21, PeriphNames
  <2>22. ASSUME l = 22 PROVE k = 22
    BY <1>1, <2>22, PeriphNames
  <2>23. ASSUME l = 23 PROVE k = 23
    BY <1>1, <2>23, PeriphNames
  <2>24. ASSUME l = 24 PROVE k = 24
    BY <1>1, <2>24, PeriphNames
  <2>25. ASSUME l = 25 PROVE k = 25
    BY <1>1, <2>25, PeriphNames
  <2>26. ASSUME l = 26 PROVE k = 26
    BY <1>1, <2>26, PeriphNames
  <2>27. ASSUME l = 27 PROVE k = 27
    BY <1>1, <2>27, PeriphNames
  <2> QED
    BY <2>1, <2>2, <2>3, <2>4, <2>5, <2>6, <2>7, <2>8, <2>9, <2>10, <2>11, <2>12, <2>13, <2>14, <2>15, <2>16, <2>17, <2>18, <2>19, <2>20, <2>21, <2>22, <2>23, <2>24, <2>25, <2>26, <2>27
<1>0. Peripherals[k].name \in {"MPU6050", "MPU9250", "MPU6886", "ICM42688", "BMI160",
                              "LSM6DS3", "LSM6DSO", "ADXL345", "BMP280", "BME280",
                              "BME680", "AHT20", "AHT10", "SHT31", "DHT12",
                              "LPS22HB", "SHTC3", "DS3231", "PCF8563", "RV3028",
                              "DS1307", "PCA9685", "IS31FL3741", "PCF8574", "MCP23017",
                              "OV2640", "OV5640"}
  BY PeriphNames
<1>2. ASSUME NEW p \in 1 .. 10 PROVE Panels[p].name # Peripherals[k].name
  BY <1>0, PanelNames
<1>3. ASSUME NEW j \in 1 .. 12, TouchIcs[j].callable PROVE TouchIcs[j].name # Peripherals[k].name
  BY <1>3, GoodixRows, GoodixNames, PeriphNames
<1>4. ASSUME NEW c \in 1 .. 9 PROVE Codecs[c].name # Peripherals[k].name
  BY <1>0, CodecNames
<1>5. Peripherals[k].name = "OV5640" => k = 27
  BY PeriphNames
<1> QED BY <1>1, <1>2, <1>3, <1>4, <1>5

\* The address of a Goodix chip is among the first two tried, and no other row has it.
LEMMA GoodixFirst ==
  /\ TouchAddrs[1] = \h5D /\ TouchAddrs[2] = \h14
  /\ TouchIcs[1].callable /\ TouchIcs[2].callable
  /\ \A j \in 1 .. 12 : \h5D \in TouchIcs[j].addrs \/ \h14 \in TouchIcs[j].addrs => j \in {1, 2}
<1>1. TouchAddrs[1] = \h5D /\ TouchAddrs[2] = \h14
  BY DEF TouchAddrs
<1>2. TouchIcs[1].callable /\ TouchIcs[2].callable
  BY SMTT(30) DEF TouchIcs, Touch
<1>3. \A j \in 3 .. 12 : \h5D \notin TouchIcs[j].addrs /\ \h14 \notin TouchIcs[j].addrs
  <2>3. \h5D \notin TouchIcs[3].addrs /\ \h14 \notin TouchIcs[3].addrs
    BY SMTT(30) DEF TouchIcs, Touch
  <2>4. \h5D \notin TouchIcs[4].addrs /\ \h14 \notin TouchIcs[4].addrs
    BY SMTT(30) DEF TouchIcs, Touch
  <2>5. \h5D \notin TouchIcs[5].addrs /\ \h14 \notin TouchIcs[5].addrs
    BY SMTT(30) DEF TouchIcs, Touch
  <2>6. \h5D \notin TouchIcs[6].addrs /\ \h14 \notin TouchIcs[6].addrs
    BY SMTT(30) DEF TouchIcs, Touch
  <2>7. \h5D \notin TouchIcs[7].addrs /\ \h14 \notin TouchIcs[7].addrs
    BY SMTT(30) DEF TouchIcs, Touch
  <2>8. \h5D \notin TouchIcs[8].addrs /\ \h14 \notin TouchIcs[8].addrs
    BY SMTT(30) DEF TouchIcs, Touch
  <2>9. \h5D \notin TouchIcs[9].addrs /\ \h14 \notin TouchIcs[9].addrs
    BY SMTT(30) DEF TouchIcs, Touch
  <2>10. \h5D \notin TouchIcs[10].addrs /\ \h14 \notin TouchIcs[10].addrs
    BY SMTT(30) DEF TouchIcs, Touch
  <2>11. \h5D \notin TouchIcs[11].addrs /\ \h14 \notin TouchIcs[11].addrs
    BY SMTT(30) DEF TouchIcs, Touch
  <2>12. \h5D \notin TouchIcs[12].addrs /\ \h14 \notin TouchIcs[12].addrs
    BY SMTT(30) DEF TouchIcs, Touch
  <2> QED BY <2>3, <2>4, <2>5, <2>6, <2>7, <2>8, <2>9, <2>10, <2>11, <2>12
<1> QED BY <1>1, <1>2, <1>3

\* The touch controller is taken at the first address that has one.
LEMMA TouchFoundFirst ==
  \E k \in 1 .. 8 : \E i \in 1 .. 12 :
    /\ TouchFound = <<i, TouchAddrs[k]>> /\ TouchAccepts(i, TouchAddrs[k])
    /\ \A l \in 1 .. 8, j \in 1 .. 12 : TouchAccepts(j, TouchAddrs[l]) => k <= l
<1> DEFINE Ks == {j \in 1 .. Len(TouchAddrs) : TouchHits(j) # {}}
<1>1. 9 \in TouchHits(5)
  BY Ns2009Row, TableLengths DEF TouchHits, TouchAccepts
<1>2. Ks \in SUBSET (1 .. 12) /\ Ks # {}
  BY <1>1, TableLengths
<1>3. Min(Ks) \in Ks /\ \A y \in Ks : Min(Ks) <= y
  BY <1>2, MinExists
<1>4. Min(Ks) \in 1 .. 8 /\ TouchHits(Min(Ks)) # {}
  BY <1>3, TableLengths
<1>5. TouchFound = <<Min(TouchHits(Min(Ks))), TouchAddrs[Min(Ks)]>>
  BY DEF TouchFound
<1>6. \A l \in 1 .. 8, j \in 1 .. 12 : TouchAccepts(j, TouchAddrs[l]) => l \in Ks
  BY TableLengths DEF TouchHits
<1> HIDE DEF Ks
<1>7. TouchHits(Min(Ks)) \in SUBSET (1 .. 12)
  BY TableLengths DEF TouchHits
<1>8. Min(TouchHits(Min(Ks))) \in TouchHits(Min(Ks))
  BY <1>4, <1>7, MinExists
<1>9. /\ Min(TouchHits(Min(Ks))) \in 1 .. 12
      /\ TouchAccepts(Min(TouchHits(Min(Ks))), TouchAddrs[Min(Ks)])
  BY <1>8, TableLengths DEF TouchHits
<1> QED BY <1>3, <1>4, <1>5, <1>6, <1>9

\* The Goodix chips, and the boards on which detection goes on.
HasGoodix ==
  \E a \in {\h5D, \h14} : Acks(a) /\ board.chips[a].name \in {"GT911", "GT1151"}

StopsWithoutGoodix ==
  /\ phase = "fault" => ~ HasGoodix
  /\ phase \in {"audio", "sensors", "done"} => HasGoodix

\* On a genuine board the driver that is found can be called exactly if there is a Goodix chip.
LEMMA GoodixIsCalled ==
  ASSUME Genuine(board)
  PROVE  TouchIcs[TouchFound[1]].callable <=> HasGoodix
<1>1. PICK k \in 1 .. 8, i \in 1 .. 12 :
        /\ TouchFound = <<i, TouchAddrs[k]>> /\ TouchAccepts(i, TouchAddrs[k])
        /\ \A l \in 1 .. 8, j \in 1 .. 12 : TouchAccepts(j, TouchAddrs[l]) => k <= l
  BY TouchFoundFirst
<1>2. PICK a : a = TouchAddrs[k]
  OBVIOUS
<1>3. \A j \in 1 .. 12 : \A b :
        TouchIcs[j].callable /\ b \in TouchIcs[j].addrs /\ Acks(b) =>
          (TouchAccepts(j, b) <=> board.chips[b].name = TouchIcs[j].name)
  <2> SUFFICES ASSUME NEW j \in 1 .. 12, NEW b,
                      TouchIcs[j].callable, b \in TouchIcs[j].addrs, Acks(b)
               PROVE  TouchAccepts(j, b) <=> board.chips[b].name = TouchIcs[j].name
    OBVIOUS
  <2>1. TouchIcs[j].wide = TRUE /\ Len(TouchIcs[j].id) # 0
    BY GoodixWide, CallableRowsAsk
  <2>2. board.chips[b].name = TouchIcs[j].name <=> Fits(board.chips[b], TRUE, TouchIcs[j])
    BY TableLengths DEF Genuine, Acks
  <2>3. TouchAccepts(j, b) <=> AgreeAll(Answer(b, TouchIcs[j].wide, TouchIcs[j].reg),
                                        TouchIcs[j].id, TouchIcs[j].mask)
    BY <2>1 DEF TouchAccepts
  <2>4. Answer(b, TouchIcs[j].wide, TouchIcs[j].reg) = Sends(board.chips[b], TRUE, TouchIcs[j].reg)
    BY <2>1 DEF Answer
  <2> QED BY <2>2, <2>3, <2>4 DEF Fits
<1>4. ASSUME TouchIcs[i].callable PROVE HasGoodix
  <2>1. /\ i \in {1, 2} /\ a \in TouchIcs[i].addrs /\ a \in {\h5D, \h14} /\ Acks(a)
    <3>1. i \in {1, 2} /\ TouchIcs[i].addrs = {\h5D, \h14}
      BY <1>4, GoodixRows
    <3>2. a \in TouchIcs[i].addrs /\ Acks(a)
      BY <1>1, <1>2, <1>4, CallableRowsAsk DEF TouchAccepts
    <3> QED BY <3>1, <3>2
  <2>2. board.chips[a].name = TouchIcs[i].name
    BY <1>1, <1>2, <1>3, <1>4, <2>1
  <2>3. board.chips[a].name \in {"GT911", "GT1151"}
    BY <2>1, <2>2, GoodixNames
  <2> QED BY <2>1, <2>3 DEF HasGoodix
<1>5. ASSUME HasGoodix PROVE TouchIcs[i].callable
  <2>1. PICK b \in {\h5D, \h14} : Acks(b) /\ board.chips[b].name \in {"GT911", "GT1151"}
    BY <1>5 DEF HasGoodix
  <2>2. PICK g \in {1, 2} : board.chips[b].name = TouchIcs[g].name
    BY <2>1, GoodixNames
  <2>3. TouchIcs[g].callable /\ b \in TouchIcs[g].addrs
    <3>1. TouchIcs[g].callable
      BY GoodixFirst
    <3>2. TouchIcs[g].addrs = {\h5D, \h14}
      BY <3>1, GoodixRows
    <3> QED BY <3>1, <3>2
  <2>4. TouchAccepts(g, b)
    BY <1>3, <2>1, <2>2, <2>3
  <2>5. PICK l \in {1, 2} : b = TouchAddrs[l]
    BY GoodixFirst
  <2>6. k \in {1, 2}
    BY <1>1, <2>4, <2>5
  <2>7. a \in {\h5D, \h14} /\ a \in TouchIcs[i].addrs
    BY <1>1, <1>2, <2>6, GoodixFirst DEF TouchAccepts
  <2> QED BY <2>7, GoodixFirst
<1> QED BY <1>1, <1>4, <1>5

\* A row that compares nothing accepts every answer, and a chip that fits a row answers it.
LEMMA FitsAnswers ==
  ASSUME Genuine(board), NEW a \in DOMAIN board.chips
  PROVE  /\ \A j \in 1 .. 9 : board.chips[a].name = Codecs[j].name => CodecAgrees(j, a)
         /\ \A k \in 1 .. 26 :
              board.chips[a].name = Peripherals[k].name => PeriphAgrees(Peripherals[k], a)
<1>1. ASSUME NEW j \in 1 .. 9, board.chips[a].name = Codecs[j].name PROVE CodecAgrees(j, a)
  <2>1. Fits(board.chips[a], FALSE, Codecs[j])
    BY <1>1, TableLengths DEF Genuine
  <2> QED BY <2>1 DEF Fits, CodecAgrees, Answer
<1>2. ASSUME NEW k \in 1 .. 26, board.chips[a].name = Peripherals[k].name
      PROVE  PeriphAgrees(Peripherals[k], a)
  <2>1. k \in 1 .. 27 /\ k # 27
    OBVIOUS
  <2>2. board.chips[a].name # "OV5640"
    BY <1>2, <2>1, NamesDiffer
  <2>3. Fits(board.chips[a], FALSE, Peripherals[k])
    BY <1>2, <2>1, <2>2, TableLengths DEF Genuine
  <2> QED BY <2>3 DEF Fits, PeriphAgrees, Answer, Acks
<1> QED BY <1>1, <1>2

\* Every address where a codec of the database may be is tried.
LEMMA CodecAddresses ==
  ASSUME NEW j \in 1 .. 9, NEW a \in Codecs[j].addrs
  PROVE  \E m \in 1 .. 5 : a = AudioAddrs[m]
<1>0. /\ AudioAddrs[1] = \h10 /\ AudioAddrs[2] = \h11 /\ AudioAddrs[3] = \h18
      /\ AudioAddrs[4] = \h19 /\ AudioAddrs[5] = \h1A
  BY DEF AudioAddrs
<1>1. Codecs[1].addrs \subseteq {\h10, \h11, \h18, \h19, \h1A}
  BY DEF Codecs, Codec
<1>2. Codecs[2].addrs \subseteq {\h10, \h11, \h18, \h19, \h1A}
  BY DEF Codecs, Codec
<1>3. Codecs[3].addrs \subseteq {\h10, \h11, \h18, \h19, \h1A}
  BY DEF Codecs, Codec
<1>4. Codecs[4].addrs \subseteq {\h10, \h11, \h18, \h19, \h1A}
  BY DEF Codecs, Codec
<1>5. Codecs[5].addrs \subseteq {\h10, \h11, \h18, \h19, \h1A}
  BY DEF Codecs, Codec
<1>6. Codecs[6].addrs \subseteq {\h10, \h11, \h18, \h19, \h1A}
  BY DEF Codecs, Codec
<1>7. Codecs[7].addrs \subseteq {\h10, \h11, \h18, \h19, \h1A}
  BY DEF Codecs, Codec
<1>8. Codecs[8].addrs \subseteq {\h10, \h11, \h18, \h19, \h1A}
  BY DEF Codecs, Codec
<1>9. Codecs[9].addrs \subseteq {\h10, \h11, \h18, \h19, \h1A}
  BY DEF Codecs, Codec
<1>10. a \in {\h10, \h11, \h18, \h19, \h1A}
  BY <1>1, <1>2, <1>3, <1>4, <1>5, <1>6, <1>7, <1>8, <1>9
<1> QED BY <1>0, <1>10

\* A codec is passed over only if the transaction is disturbed.
LEMMA CodecPassedOver ==
  ASSUME Genuine(board), NEW a, HasCodec(a), ReadCodec(0, a)
  PROVE  a \in disturbed'
<1>1. CASE 0 \in CodecsAt(a)
  <2> DEFINE Hits == {j \in Candidates(a) : CodecAgrees(j, a)}
  <2>1. PICK j \in Candidates(a) : Codecs[j].name = board.chips[a].name
    BY DEF HasCodec
  <2>2. j \in 1 .. 9 /\ a \in DOMAIN board.chips
    BY TableLengths DEF Candidates, HasCodec, Acks
  <2>3. CodecAgrees(j, a)
    BY <2>1, <2>2, FitsAnswers
  <2>4. Hits # {} /\ Hits \in SUBSET (1 .. 12) /\ 0 \notin Hits
    BY <2>1, <2>3, TableLengths DEF Candidates
  <2>5. CodecsAt(a) = {Min(Hits)}
    BY <2>2, <2>4 DEF CodecsAt, Acks
  <2> HIDE DEF Hits
  <2>6. Min(Hits) \in Hits
    BY <2>4, MinExists
  <2> QED BY <1>1, <2>4, <2>5, <2>6
<1>2. CASE disturbed' = disturbed \cup {a}
  BY <1>2
<1> QED BY <1>1, <1>2 DEF ReadCodec

\* The codec that is taken there is of its own row, or of an earlier one that compares nothing.
LEMMA CodecTaken ==
  ASSUME Genuine(board), NEW a, HasCodec(a), a \notin disturbed',
         NEW i \in Candidates(a), ReadCodec(i, a)
  PROVE  TakenFor(i, a)
<1> DEFINE Hits == {j \in Candidates(a) : CodecAgrees(j, a)}
<1>1. PICK j \in Candidates(a) : Codecs[j].name = board.chips[a].name
  BY DEF HasCodec
<1>2. j \in 1 .. 9 /\ i \in 1 .. 9 /\ a \in DOMAIN board.chips /\ a \in Codecs[i].addrs
  BY TableLengths DEF Candidates, HasCodec, Acks
<1>3. CodecAgrees(j, a)
  BY <1>1, <1>2, FitsAnswers
<1>4. Hits # {} /\ Hits \in SUBSET (1 .. 12) /\ j \in Hits
  BY <1>1, <1>3, TableLengths DEF Candidates
<1>5. i \in CodecsAt(a)
  BY DEF ReadCodec
<1>6. i = Min(Hits)
  BY <1>2, <1>4, <1>5 DEF CodecsAt, Acks
<1> HIDE DEF Hits
<1>7. i \in Hits /\ i <= j
  BY <1>4, <1>6, MinExists
<1>8. Fits(board.chips[a], FALSE, Codecs[i])
  BY <1>7 DEF Hits, CodecAgrees, Answer, Fits
<1>9. Unidentified(Codecs[i]) \/ Codecs[i].name = board.chips[a].name
  BY <1>2, <1>8, TableLengths DEF Genuine
<1> QED BY <1>1, <1>2, <1>7, <1>9 DEF TakenFor

(***************************************************************************)
(* Complete says that no row and no address that detection has passed held *)
(* a chip it looked for; it is inductive with Inv and InOrder on a genuine *)
(* board.                                                                  *)
(***************************************************************************)
\* The n-th address of row k has its chip; a node of that name is at it or before it.
Present(k, n) ==
  LET a == Peripherals[k].addrs[n]
  IN  Acks(a) /\ board.chips[a].name = Peripherals[k].name /\ a \notin disturbed

Recorded(k, n) ==
  \E i \in 1 .. Len(nodes) : /\ nodes[i].name = Peripherals[k].name
                             /\ nodes[i].addr \in {Peripherals[k].addrs[m] : m \in 1 .. n}

RowFound(k) == \A n \in 1 .. Len(Peripherals[k].addrs) : Present(k, n) => Recorded(k, n)

CodecMissed(a) == HasCodec(a) /\ a \notin disturbed

\* What CodecFound asks of the codec that is used.
CodecKept(a) ==
  LET codec == context["codec"]
  IN  codec[2] \in 1 .. a /\ (codec[2] = a => TakenFor(codec[1], a))

\* Nothing was missed so far.
Complete ==
  /\ phase \in {"sensors", "done"} => \A k \in 1 .. Tried : k # 27 => RowFound(k)
  /\ phase = "audio" => \A m \in 1 .. step - 1 : ~ CodecMissed(AudioAddrs[m])
  /\ phase \in {"sensors", "done"} =>
       \A a \in DOMAIN board.chips : CodecMissed(a) => CodecKept(a)
  /\ phase = "fault" => ~ HasGoodix
  /\ phase \in {"audio", "sensors", "done"} => HasGoodix

\* What was found stays found, and what was not missed is not missed later.
LEMMA FoundStays ==
  ASSUME UNCHANGED board, disturbed \subseteq disturbed', Keeps, nodes \in Seq(Nodes)
  PROVE  /\ \A k \in 1 .. 27 : RowFound(k) => RowFound(k)'
         /\ \A a : CodecMissed(a)' => CodecMissed(a)
         /\ HasGoodix' <=> HasGoodix
<1>1. \A a : Acks(a)' = Acks(a)
  BY DEF Acks
<1>2. \A i \in 1 .. Len(nodes) : i \in 1 .. Len(nodes') /\ nodes'[i] = nodes[i]
  <2>1. Len(nodes) \in Nat /\ Len(nodes') >= Len(nodes) /\ SubSeq(nodes', 1, Len(nodes)) = nodes
    BY DEF Keeps
  <2>2. PICK M : M = nodes'
    OBVIOUS
  <2>3. ASSUME NEW i \in 1 .. Len(nodes) PROVE i \in 1 .. Len(M) /\ M[i] = nodes[i]
    <3>1. SubSeq(M, 1, Len(nodes))[i] = M[i]
      OBVIOUS
    <3> QED BY <2>1, <2>2, <3>1
  <2> QED BY <2>2, <2>3
<1>3. ASSUME NEW k \in 1 .. 27, RowFound(k) PROVE RowFound(k)'
  <2>1. ASSUME NEW n \in 1 .. Len(Peripherals[k].addrs), Present(k, n)' PROVE Recorded(k, n)'
    <3>1. Present(k, n)
      BY <1>1, <2>1 DEF Present
    <3>2. Recorded(k, n)
      BY <1>3, <3>1 DEF RowFound
    <3> QED BY <1>2, <3>2 DEF Recorded
  <2> QED BY <2>1 DEF RowFound
<1>4. ASSUME NEW a, CodecMissed(a)' PROVE CodecMissed(a)
  BY <1>1, <1>4 DEF CodecMissed, HasCodec
<1>5. HasGoodix' <=> HasGoodix
  BY <1>1 DEF HasGoodix
<1> QED BY <1>3, <1>4, <1>5

\* A row is new when its turn comes.
LEMMA RowIsNew ==
  ASSUME Inv, InOrder, phase = "sensors", NEW s \in 1 .. 27, s = step
  PROVE  ~ FoundByName(Peripherals[s].name)
<1>1. Arranged(s - 1) /\ Len(nodes) \in Nat
  BY TableFacts DEF InOrder, Tried
<1> SUFFICES ASSUME NEW i \in 1 .. Len(nodes) PROVE nodes[i].name # Peripherals[s].name
  BY DEF FoundByName
<1>2. CASE i = 1
  <2>1. \E p \in 1 .. 10 : nodes[1].name = Panels[p].name
    BY <1>1, <1>2 DEF Arranged
  <2> QED BY <1>2, <2>1, NamesDiffer
<1>3. CASE i = 2
  <2>1. \E j \in 1 .. 12 : TouchIcs[j].callable /\ nodes[2].name = TouchIcs[j].name
    BY <1>1, <1>3 DEF Arranged, FromTouch
  <2> QED BY <1>3, <2>1, NamesDiffer
<1>4. CASE i = 3
  <2>1. \E c \in 1 .. 9 : nodes[3].name = Codecs[c].name
    BY <1>1, <1>4 DEF Arranged, FromCodec
  <2> QED BY <1>4, <2>1, NamesDiffer
<1>5. CASE i \in 4 .. Len(nodes)
  <2>1. FromPeriph(nodes[i], s - 1)
    BY <1>1, <1>5 DEF Arranged
  <2>2. PICK k \in 1 .. s - 1 : nodes[i].name = Peripherals[k].name
    BY <2>1 DEF FromPeriph
  <2>3. k \in 1 .. 27 /\ k # s
    OBVIOUS
  <2> QED BY <2>2, <2>3, NamesDiffer
<1> QED BY <1>1, <1>2, <1>3, <1>4, <1>5

\* The row that is tried is found.
LEMMA RowIsFound ==
  ASSUME Inv, Genuine(board), UNCHANGED board, NEW s \in 1 .. 26, TryAddresses(Peripherals[s])
  PROVE  RowFound(s)'
<1> DEFINE row == Peripherals[s]
<1>0. s \in 1 .. 27
  OBVIOUS
<1>1. PICK q \in 1 .. Len(row.addrs) + 1 :
        /\ \A m \in 1 .. q - 1 : row.addrs[m] \in disturbed' \/ ~ PeriphAgrees(row, row.addrs[m])
        /\ \/ q <= Len(row.addrs) /\ Claim(row, q)
           \/ q > Len(row.addrs)
  BY <1>0, StopsAt
<1> SUFFICES ASSUME NEW n \in 1 .. Len(row.addrs), Present(s, n)' PROVE Recorded(s, n)'
  BY DEF RowFound
<1>2. PICK a : a = row.addrs[n]
  OBVIOUS
<1>3. a \in DOMAIN board.chips /\ board.chips[a].name = row.name /\ a \notin disturbed'
  BY <1>2 DEF Present, Acks
<1>4. PeriphAgrees(row, a)
  BY <1>3, FitsAnswers
<1>5. q <= n /\ q \in 1 .. n
  BY <1>1, <1>2, <1>3, <1>4
<1>6. Claim(row, q)
  BY <1>1, <1>5
<1>7. PICK nm, b : nm = row.name /\ b = row.addrs[q]
  OBVIOUS
<1>8. b \in Places /\ nm \in Names /\ {row.category} \in SUBSET Categories
  <2>1. b \in {row.addrs[m] : m \in 1 .. Len(row.addrs)}
    BY <1>5, <1>7
  <2>2. b \in PolledOver
    BY <1>0, <2>1, TableLengths DEF PolledOver
  <2> QED BY <1>0, <1>7, <2>2, TableLengths DEF Places, Names, Categories
<1>9. Appended(nm, "I2C", b)
  <2>1. Register(nm, {row.category}, "I2C", b)
    BY <1>6, <1>7 DEF Claim
  <2> QED BY <1>8, <2>1, Appends
<1>10. PICK node \in Nodes : /\ nodes' = Append(nodes, node) /\ Len(nodes') = Len(nodes) + 1
                             /\ node.name = nm /\ node.addr = b
  BY <1>9 DEF Appended
<1>11. PICK L \in Nat : L = Len(nodes)
  BY TableFacts
<1>12. L + 1 \in 1 .. Len(nodes') /\ nodes'[L + 1] = node
  BY <1>10, <1>11, TableFacts
<1>13. b \in {row.addrs[m] : m \in 1 .. n}
  BY <1>5, <1>7
<1> QED BY <1>7, <1>10, <1>12, <1>13 DEF Recorded

\* The addresses are tried in ascending order.
LEMMA AudioAscending ==
  ASSUME NEW s \in 1 .. 5, NEW m \in s .. 5
  PROVE  AudioAddrs[s] \in 1 .. AudioAddrs[m]
<1>1. /\ AudioAddrs[1] = \h10 /\ AudioAddrs[2] = \h11 /\ AudioAddrs[3] = \h18
      /\ AudioAddrs[4] = \h19 /\ AudioAddrs[5] = \h1A
  BY DEF AudioAddrs
<1>2. s \in {1, 2, 3, 4, 5} /\ m \in {1, 2, 3, 4, 5} /\ s <= m
  OBVIOUS
<1> QED BY <1>1, <1>2

LEMMA CompleteAudio ==
  ASSUME Inv, Genuine(board), Complete, ProbeCodec, Keeps PROVE Complete'
<1>1. /\ TypeOK /\ step \in 1 .. 5 /\ phase = "audio" /\ UNCHANGED board /\ HasGoodix
      /\ nodes \in Seq(Nodes)
  BY TableLengths DEF Inv, TypeOK, ProbeCodec, Complete
<1>2. PICK s \in 1 .. 5 : s = step
  BY <1>1
<1> DEFINE a == AudioAddrs[s]
<1>3. a \in PolledOver /\ a # 0
  <2>1. a \in PolledOver
    BY TableLengths DEF PolledOver
  <2>2. a # 0
    BY DEF AudioAddrs
  <2> QED BY <2>1, <2>2
<1> HIDE DEF a
<1>4. ASSUME NEW i \in Candidates(a), ReadCodec(i, a), UseCodec(i, a) PROVE Complete'
  <2>1. disturbed \subseteq disturbed'
    BY <1>1, <1>3, <1>4, ReadsCodec
  <2>2. HasGoodix'
    BY <1>1, <2>1, FoundStays
  <2>3. phase' = "sensors" /\ step' = 1 /\ context' = [context EXCEPT !["codec"] = <<i, a>>]
    BY <1>4 DEF UseCodec, Enter
  <2>4. \A b \in DOMAIN board'.chips : CodecMissed(b)' => CodecKept(b)'
    <3>1. context \in [{"lcd", "touch", "codec"} -> (0 .. 12) \X Places]
      BY <1>1, TableLengths DEF TypeOK
    <3>2. context'["codec"] = <<i, a>>
      BY <2>3, <3>1
    <3> SUFFICES ASSUME NEW b \in DOMAIN board'.chips, CodecMissed(b)' PROVE CodecKept(b)'
      OBVIOUS
    <3>3. CodecMissed(b) /\ b \notin disturbed'
      BY <1>1, <2>1, FoundStays DEF CodecMissed
    <3>4. PICK m \in 1 .. 5 : b = AudioAddrs[m]
      <4>1. PICK j \in 1 .. 9 : b \in Codecs[j].addrs
        BY <3>3, TableLengths DEF CodecMissed, HasCodec, Candidates
      <4> QED BY <4>1, CodecAddresses
    <3>5. m \in s .. 5
      BY <1>1, <1>2, <3>3, <3>4 DEF Complete
    <3>6. a \in 1 .. b
      BY <1>2, <3>4, <3>5, AudioAscending DEF a
    <3>7. a = b => TakenFor(i, b)
      BY <1>4, <3>3, CodecTaken DEF CodecMissed
    <3>8. TakenFor(i, b)' <=> TakenFor(i, b)
      BY <1>1 DEF TakenFor
    <3> QED BY <3>2, <3>6, <3>7, <3>8 DEF CodecKept
  <2>5. Tried' = 0
    BY <2>3 DEF Tried
  <2> QED BY <2>2, <2>3, <2>4, <2>5 DEF Complete
<1>5. ASSUME ReadCodec(0, a), step' = step + 1, UNCHANGED <<phase, nodes, primary, context>>
      PROVE  Complete'
  <2>1. disturbed \subseteq disturbed'
    BY <1>1, <1>3, <1>5, ReadsCodec
  <2>2. HasGoodix' /\ \A b : CodecMissed(b)' => CodecMissed(b)
    BY <1>1, <2>1, FoundStays
  <2>3. ~ CodecMissed(a)'
    <3>1. ASSUME CodecMissed(a)' PROVE FALSE
      <4>1. HasCodec(a)
        BY <2>2, <3>1 DEF CodecMissed
      <4>2. a \in disturbed'
        BY <1>5, <4>1, CodecPassedOver
      <4> QED BY <3>1, <4>2 DEF CodecMissed
    <3> QED BY <3>1
  <2>4. \A m \in 1 .. s : ~ CodecMissed(AudioAddrs[m])'
    <3>1. \A m \in 1 .. s - 1 : ~ CodecMissed(AudioAddrs[m])
      BY <1>1, <1>2 DEF Complete
    <3> QED BY <2>2, <2>3, <3>1 DEF a
  <2>5. phase' = "audio" /\ step' - 1 = s
    BY <1>1, <1>2, <1>5
  <2> QED BY <2>2, <2>4, <2>5 DEF Complete
<1> QED BY <1>2, <1>4, <1>5 DEF ProbeCodec, a

LEMMA CompleteDac ==
  ASSUME Inv, Complete, AssumeDac, Keeps PROVE Complete'
<1>1. /\ phase = "audio" /\ step > 5 /\ UNCHANGED <<board, disturbed>> /\ HasGoodix
      /\ nodes \in Seq(Nodes) /\ step \in Nat
  BY TableLengths DEF Inv, TypeOK, AssumeDac, Complete
<1>2. phase' = "sensors" /\ step' = 1
  BY DEF AssumeDac, UseCodec, Enter
<1>3. HasGoodix' /\ \A b : CodecMissed(b)' => CodecMissed(b)
  BY <1>1, FoundStays
<1>4. \A m \in 1 .. 5 : ~ CodecMissed(AudioAddrs[m])
  BY <1>1 DEF Complete
<1>5. Tried' = 0
  BY <1>2 DEF Tried
<1>6. \A b : ~ CodecMissed(b)'
  <2>1. ASSUME NEW b, CodecMissed(b) PROVE FALSE
    <3>1. PICK j \in 1 .. 9 : b \in Codecs[j].addrs
      BY <2>1, TableLengths DEF CodecMissed, HasCodec, Candidates
    <3>2. PICK m \in 1 .. 5 : b = AudioAddrs[m]
      BY <3>1, CodecAddresses
    <3> QED BY <1>4, <2>1, <3>2
  <2> QED BY <1>3, <2>1
<1> QED BY <1>2, <1>3, <1>5, <1>6 DEF Complete

LEMMA CompletePeriph ==
  ASSUME Inv, InOrder, Genuine(board), Complete, ProbePeripheral, Keeps PROVE Complete'
<1>1. PICK s \in 1 .. 27 : s = step
  BY TableFacts
<1>2. /\ phase = "sensors" /\ UNCHANGED <<board, context>> /\ HasGoodix /\ nodes \in Seq(Nodes)
  BY TableFacts DEF ProbePeripheral, Complete
<1>3. TryAddresses(Peripherals[s])
  BY <1>1, <1>2, RowIsNew DEF ProbePeripheral
<1>4. disturbed \subseteq disturbed'
  BY <1>3, StopsAt
<1>5. /\ \A k \in 1 .. 27 : RowFound(k) => RowFound(k)'
      /\ \A a : CodecMissed(a)' => CodecMissed(a)
      /\ HasGoodix'
  BY <1>2, <1>4, FoundStays
<1>6. \A k \in 1 .. s : k # 27 => RowFound(k)'
  <2>1. \A k \in 1 .. s - 1 : k # 27 => RowFound(k)
    BY <1>1, <1>2 DEF Complete, Tried
  <2>2. s # 27 => RowFound(s)'
    <3>1. ASSUME s # 27 PROVE RowFound(s)'
      <4>1. s \in 1 .. 26
        BY <3>1
      <4> QED BY <1>2, <1>3, <4>1, RowIsFound
    <3> QED BY <3>1
  <2> QED BY <1>5, <2>1, <2>2
<1>7. /\ phase' \in {"sensors", "done"} /\ Tried' = s
  <2>1. \/ s = 27 /\ phase' = "done" /\ step' = 1
        \/ s # 27 /\ phase' = phase /\ step' = s + 1
    BY <1>1, TableLengths DEF ProbePeripheral, NextPeripheral, Enter
  <2>2. CASE phase' = "done"
    <3>1. s = 27
      BY <1>2, <2>1, <2>2
    <3> QED BY <2>2, <3>1 DEF Tried
  <2>3. CASE phase' = "sensors"
    BY <1>1, <2>1, <2>3 DEF Tried
  <2> QED BY <1>2, <2>1, <2>2, <2>3
<1>8. \A a \in DOMAIN board'.chips : CodecMissed(a)' => CodecKept(a)'
  <2>1. \A a : CodecKept(a)' <=> CodecKept(a)
    BY <1>2 DEF CodecKept, TakenFor
  <2> QED BY <1>2, <1>5, <2>1 DEF Complete
<1> QED BY <1>5, <1>6, <1>7, <1>8 DEF Complete

LEMMA CompleteTouch ==
  ASSUME Inv, Genuine(board), TouchReady \/ TouchFault, Keeps PROVE Complete'
<1>1. UNCHANGED <<board, disturbed>> /\ nodes \in Seq(Nodes)
  BY TableFacts DEF TouchReady, TouchFault
<1>2. HasGoodix' <=> HasGoodix
  BY <1>1, FoundStays
<1>3. CASE TouchReady
  <2>1. phase' = "audio" /\ step' = 1 /\ HasGoodix
    BY <1>3, GoodixIsCalled DEF TouchReady, Enter
  <2> QED BY <1>2, <2>1 DEF Complete
<1>4. CASE TouchFault
  <2>1. phase' = "fault" /\ ~ HasGoodix
    BY <1>4, GoodixIsCalled DEF TouchFault, Enter
  <2> QED BY <1>2, <2>1 DEF Complete
<1> QED BY <1>3, <1>4

\* The invariant on genuine boards.
GenuineInv == Inv /\ InOrder /\ Genuine(board) /\ Complete

LEMMA GenuineInit ==
  ASSUME \A b \in Boards : Genuine(b)
  PROVE  Init => GenuineInv
<1> SUFFICES ASSUME Init PROVE GenuineInv
  OBVIOUS
<1>1. Genuine(board) /\ Complete
  BY DEF Init, Complete
<1> QED BY <1>1, InitInv, InOrderInit DEF GenuineInv

LEMMA GenuineNext == GenuineInv /\ [Next]_vars => GenuineInv'
<1> SUFFICES ASSUME Inv, InOrder, Genuine(board), Complete, [Next]_vars PROVE GenuineInv'
  BY DEF GenuineInv
<1>1. Inv' /\ (Keeps \/ UNCHANGED vars) /\ InOrder'
  BY NextInv, InOrderNext
<1>2. board' = board
  BY DEF Next, Scan, ProbeLcd, TouchReady, TouchFault, ProbeCodec, AssumeDac, ProbePeripheral, vars
<1>3. Genuine(board')
  BY <1>2
<1>4. Complete'
  <2>1. CASE UNCHANGED vars
    <3>1. UNCHANGED <<board, phase, step, nodes, primary, context, disturbed>>
      BY <2>1 DEF vars
    <3>2. PICK K : K = Tried
      OBVIOUS
    <3>3. Tried' = K
      BY <3>1, <3>2 DEF Tried
    <3>4. \A a : Acks(a)' <=> Acks(a)
      BY <3>1 DEF Acks
    <3>5. HasGoodix' <=> HasGoodix
      BY <3>1, <3>4 DEF HasGoodix
    <3>6. \A a : CodecMissed(a)' <=> CodecMissed(a)
      BY <3>1, <3>4 DEF CodecMissed, HasCodec
    <3>8. \A a : CodecKept(a)' <=> CodecKept(a)
      BY <3>1 DEF CodecKept, TakenFor
    <3>7. \A k : RowFound(k)' <=> RowFound(k)
      BY <3>1, <3>4 DEF RowFound, Present, Recorded
    <3> QED BY <3>1, <3>2, <3>3, <3>5, <3>6, <3>7, <3>8 DEF Complete
  <2>2. CASE Keeps /\ Next
    <3>1. CASE Scan
      <4>1. phase' = "lcd"
        BY <3>1 DEF Scan, Enter
      <4> QED BY <4>1 DEF Complete
    <3>2. CASE ProbeLcd
      <4>1. phase' = "touch"
        BY <3>2 DEF ProbeLcd, Enter
      <4> QED BY <4>1 DEF Complete
    <3>3. CASE TouchReady \/ TouchFault
      BY <2>2, <3>3, CompleteTouch
    <3>4. CASE ProbeCodec
      BY <2>2, <3>4, CompleteAudio
    <3>5. CASE AssumeDac
      BY <2>2, <3>5, CompleteDac
    <3>6. CASE ProbePeripheral
      BY <2>2, <3>6, CompletePeriph
    <3> QED BY <2>2, <3>1, <3>2, <3>3, <3>4, <3>5, <3>6 DEF Next
  <2> QED BY <1>1, <2>1, <2>2
<1> QED BY <1>1, <1>3, <1>4 DEF GenuineInv

LEMMA GenuineInvariance ==
  ASSUME \A b \in Boards : Genuine(b)
  PROVE  Spec => []GenuineInv
<1>1. Init => GenuineInv
  BY GenuineInit
<1>2. GenuineInv /\ [Next]_vars => GenuineInv'
  BY GenuineNext
<1> QED BY <1>1, <1>2, PTL DEF Spec

LEMMA NothingMissed == GenuineInv => KnownChipsFound
<1> SUFFICES ASSUME GenuineInv, phase = "done" PROVE PeripheralsFound /\ CodecFound
  BY DEF KnownChipsFound
<1>1. /\ \A k \in 1 .. 27 : k # 27 => RowFound(k)
      /\ \A a \in DOMAIN board.chips : CodecMissed(a) => CodecKept(a)
  BY DEF GenuineInv, Complete, Tried
<1>2. ASSUME NEW k \in 1 .. 27, NEW n \in 1 .. Len(Peripherals[k].addrs), Present(k, n)
      PROVE  Peripherals[k].name = "OV5640" \/ Recorded(k, n)
  <2>1. CASE k = 27
    BY <2>1, PeriphNames
  <2>2. CASE k # 27
    BY <1>1, <1>2, <2>2 DEF RowFound
  <2> QED BY <2>1, <2>2
<1>3. PeripheralsFound
  BY <1>2, TableLengths DEF PeripheralsFound, Present, Recorded
<1>4. CodecFound
  BY <1>1 DEF CodecFound, CodecMissed, CodecKept
<1> QED BY <1>3, <1>4

\* Whatever genuine chips a board carries, every peripheral but the OV5640 is
\* registered, and the codec in use is at the first address with a codec or
\* before it, under its own name or that of an earlier row that compares nothing
\* (devtree_probe_sensors and probe_codec).
THEOREM FindsEveryKnownChip ==
  ASSUME \A b \in Boards : Genuine(b)
  PROVE  Spec => []KnownChipsFound
BY GenuineInvariance, NothingMissed, PTL

\* What the misplaced init_fn of touch_probe.c's rows costs: the probe stops in
\* the crash handler on every board without a Goodix chip, and on no other.
THEOREM GoesOnWithGoodixOnly ==
  ASSUME \A b \in Boards : Genuine(b)
  PROVE  Spec => []StopsWithoutGoodix
<1>1. GenuineInv => StopsWithoutGoodix
  BY DEF GenuineInv, Complete, StopsWithoutGoodix
<1> QED BY <1>1, GenuineInvariance, PTL
=============================================================================
