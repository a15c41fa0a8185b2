------------------------------ MODULE Detection ------------------------------
(***************************************************************************)
(* The hardware detection of NanosOS (drivers/autodetect/) and the device  *)
(* tree it fills (system/devtree/).                                        *)
(*                                                                         *)
(* app_main scans the I2C bus, asks a display over SPI who it is, then     *)
(* looks for a touch controller, an audio codec and the peripherals of a   *)
(* database over I2C, and registers what it finds.  The touch driver it    *)
(* finds on the way starts a task of higher priority that polls the touch  *)
(* chip through the same I2C registers, without a lock: it may preempt any *)
(* later transaction of the detection, which then times out or reads       *)
(* bytes that its chip did not send.                                       *)
(*                                                                         *)
(* The hardware is a board: the display and, by address, the chips on the  *)
(* bus.  A chip answers its identification register with its bytes, any    *)
(* other register with zeros; at an address without a chip a transaction   *)
(* times out.                                                              *)
(***************************************************************************)
EXTENDS DeviceTables, FiniteSets, FiniteSetsExt

CONSTANTS
    Boards,         \* the boards the program may run on
    MaxDisturbed    \* bound: addresses with a disturbed transaction

ASSUME BoardsAssumption ==
    /\ MaxDisturbed \in Nat
    /\ \A b \in Boards : IsFiniteSet(DOMAIN b.chips) /\ DOMAIN b.chips \subseteq 8..119

(* What a chip sends when a driver reads register reg: i2c_read_reg8, or   *)
(* _reg16 if wide.                                                         *)
Sends(chip, wide, reg) ==
    [b \in 1..4 |-> IF chip.wide = wide /\ chip.reg = reg /\ b <= Len(chip.id)
                    THEN chip.id[b] ELSE 0]

(* What the completeness of detection needs of a board: a chip with the    *)
(* name of a row has its identification where the row looks for it, and    *)
(* only a chip of that name has the identification of a Goodix row or of a *)
(* codec's row that compares any byte.                                     *)
Fits(chip, wide, row) == AgreeAll(Sends(chip, wide, row.reg), row.id, row.mask)

Genuine(b) ==
    \A a \in DOMAIN b.chips :
        /\ \A j \in 1..Len(TouchIcs) :
              TouchIcs[j].callable =>
                  (b.chips[a].name = TouchIcs[j].name <=> Fits(b.chips[a], TRUE, TouchIcs[j]))
        /\ \A j \in 1..Len(Codecs) :
              /\ b.chips[a].name = Codecs[j].name => Fits(b.chips[a], FALSE, Codecs[j])
              /\ Fits(b.chips[a], FALSE, Codecs[j]) /\ a \in Codecs[j].addrs =>
                    Unidentified(Codecs[j]) \/ b.chips[a].name = Codecs[j].name
        /\ \A k \in 1..Len(Peripherals) :
              b.chips[a].name = Peripherals[k].name /\ b.chips[a].name # "OV5640" =>
                  Fits(b.chips[a], FALSE, Peripherals[k])

VARIABLES
    board,          \* the hardware, chosen once
    phase,          \* what devtree_probe_all does next
    step,           \* the address or row its loop has come to
    nodes,          \* g_devtree.nodes, up to node_count
    primary,        \* the primary_* pointers: an index of nodes, 0 for none
    context,        \* s_lcd_ctx, s_touch and s_audio_codec: row and address
    found,          \* i2c_devices_found
    disturbed       \* for the properties: addresses of disturbed transactions

vars == <<board, phase, step, nodes, primary, context, found, disturbed>>

-----------------------------------------------------------------------------
(* The device tree.                                                        *)

MAX_DEVICE_NODES == 32

Primaries == {"LCD", "TOUCH", "AUDIO_OUT", "AUDIO_IN"}

NoContext == <<0, 0>>

(* devtree_register with the room check, the new node and the primaries.   *)
(* A category is a set of bits: a codec with inputs is {OUT, IN}.          *)
HasRoom(table) == Len(table) < MAX_DEVICE_NODES

(* A slip: a test for the bit instead of the category.                     *)
BecomesPrimaryByBit(c, category) == c \in category /\ primary[c] = 0

BecomesPrimary(c, category) == category = {c} /\ primary[c] = 0

(* A slip: replacing the node that has the address.                        *)
RegisterReplacing(name, category, bus, addr) ==
    LET Same == {i \in 1..Len(nodes) : nodes[i].bus = bus /\ nodes[i].addr = addr}
        node == [name |-> name, category |-> category, bus |-> bus, addr |-> addr]
    IN  /\ nodes' = IF Same = {} THEN Append(nodes, node)
                                 ELSE [nodes EXCEPT ![Min(Same)] = node]
        /\ primary' = [c \in Primaries |-> IF BecomesPrimary(c, category)
                                           THEN Len(nodes') ELSE primary[c]]

Register(name, category, bus, addr) ==
    IF HasRoom(nodes)
    THEN /\ nodes' = Append(nodes, [name |-> name, category |-> category,
                                    bus |-> bus, addr |-> addr])
         /\ primary' = [c \in Primaries |-> IF BecomesPrimary(c, category)
                                            THEN Len(nodes) + 1 ELSE primary[c]]
    ELSE UNCHANGED <<nodes, primary>>

FoundByName(name) == \E i \in 1..Len(nodes) : nodes[i].name = name

(* devtree_find: the first node of exactly that category.                  *)
Find(category) ==
    LET Hits == {i \in 1..Len(nodes) : nodes[i].category = category}
    IN  IF Hits = {} THEN 0 ELSE Min(Hits)

-----------------------------------------------------------------------------
(* The buses.                                                              *)

Acks(addr) == addr \in DOMAIN board.chips

(* What a transaction at addr reads.                                       *)
Answer(addr, wide, reg) == Sends(board.chips[addr], wide, reg)

(* The poll task runs between two steps of a transaction at addr.          *)
Preempted(addr) ==
    /\ context["touch"] # NoContext
    /\ Cardinality(disturbed \cup {addr}) <= MaxDisturbed

PanelAnswer(cmd) ==
    [b \in 1..4 |-> IF board.panel.cmd = cmd /\ b <= Len(board.panel.id)
                    THEN board.panel.id[b] ELSE 0]

-----------------------------------------------------------------------------
Init ==
    /\ board \in Boards
    /\ phase = "scan" /\ step = 1
    /\ nodes = <<>>
    /\ primary = [c \in Primaries |-> 0]
    /\ context = [d \in {"lcd", "touch", "codec"} |-> NoContext]
    /\ found = 0
    /\ disturbed = {}

Enter(next) == phase' = next /\ step' = 1

(* devtree_scan_i2c: every address but the reserved ones.                  *)
Scan ==
    /\ phase = "scan"
    /\ found' = found + Cardinality({a \in 8..119 : Acks(a)})
    /\ Enter("lcd")
    /\ UNCHANGED <<board, nodes, primary, context, disturbed>>

(* probe_panel: the first row the display answers; the last when it        *)
(* answers none, so that the first set of pins is the only one tried.      *)
PanelFound ==
    LET Hits == {i \in 1..Len(Panels) - 1 :
                    AgreeAll(PanelAnswer(Panels[i].cmd), Panels[i].id, Panels[i].mask)}
    IN  IF board.panel.cs = 10 /\ Hits # {} THEN Min(Hits) ELSE Len(Panels)

ProbeLcd ==
    /\ phase = "lcd"
    /\ context' = [context EXCEPT !["lcd"] = <<PanelFound, 10>>]
    /\ Register(Panels[PanelFound].name, {"LCD"}, "SPI", 10)
    /\ Enter("touch")
    /\ UNCHANGED <<board, found, disturbed>>

-----------------------------------------------------------------------------
(* probe_touch_ic for one address: a row without identification bytes is   *)
(* taken without any transaction.                                          *)
TouchAccepts(i, addr) ==
    /\ addr \in TouchIcs[i].addrs
    /\ \/ Len(TouchIcs[i].id) = 0
       \/ /\ Acks(addr)
          /\ AgreeAll(Answer(addr, TouchIcs[i].wide, TouchIcs[i].reg),
                      TouchIcs[i].id, TouchIcs[i].mask)

TouchHits(k) == {i \in 1..Len(TouchIcs) : TouchAccepts(i, TouchAddrs[k])}

(* The first address with a row, and its first row.                        *)
TouchFound ==
    LET k == Min({j \in 1..Len(TouchAddrs) : TouchHits(j) # {}})
    IN  <<Min(TouchHits(k)), TouchAddrs[k]>>

(* devtree_probe_touch of a chip whose init_fn is a function: the driver   *)
(* is registered and its poll task started.                                *)
TouchReady ==
    /\ phase = "touch"
    /\ TouchIcs[TouchFound[1]].callable
    /\ context' = [context EXCEPT !["touch"] = TouchFound]
    /\ Register(TouchIcs[TouchFound[1]].name, {"TOUCH"}, "I2C", TouchFound[2])
    /\ Enter("audio")
    /\ UNCHANGED <<board, found, disturbed>>

(* The same where it is not: the crash handler stops the processor.        *)
TouchFault ==
    /\ phase = "touch"
    /\ ~ TouchIcs[TouchFound[1]].callable
    /\ Enter("fault")
    /\ UNCHANGED <<board, nodes, primary, context, found, disturbed>>

-----------------------------------------------------------------------------
(* probe_codec for one address.                                            *)
Candidates(addr) == {i \in 1..Len(Codecs) : addr \in Codecs[i].addrs}

CodecAgrees(i, addr) ==
    AgreeAll(Answer(addr, FALSE, Codecs[i].reg), Codecs[i].id, Codecs[i].mask)

(* A slip: leaving the loop after the first row with the address.          *)
CodecsAtFirstRow(addr) ==
    IF Acks(addr) /\ CodecAgrees(Min(Candidates(addr)), addr)
    THEN {Min(Candidates(addr))} ELSE {0}

(* The rows it may return, 0 for none.  A disturbed read may bring any     *)
(* bytes, which rows that compare none of them accept; the test for an     *)
(* acknowledgement may be disturbed too.                                   *)
CodecsAt(addr) ==
    LET Hits == {i \in Candidates(addr) : CodecAgrees(i, addr)}
    IN  IF Acks(addr) /\ Hits # {} THEN {Min(Hits)} ELSE {0}

CodecsIfDisturbed(addr) ==
    {0} \cup {i \in Candidates(addr) :
                \A j \in Candidates(addr) : j < i => ~ Unidentified(Codecs[j])}

(* init_fn only writes to the codec and its result is not used.            *)
UseCodec(i, addr) ==
    /\ context' = [context EXCEPT !["codec"] = <<i, addr>>]
    /\ Register(Codecs[i].name,
                IF Codecs[i].adc THEN {"AUDIO_OUT", "AUDIO_IN"} ELSE {"AUDIO_OUT"},
                IF addr = 0 THEN "I2S" ELSE "I2C", addr)
    /\ Enter("sensors")

ReadCodec(i, addr) ==
    \/ i \in CodecsAt(addr) /\ UNCHANGED disturbed
    \/ /\ Preempted(addr)
       /\ i \in CodecsIfDisturbed(addr)
       /\ disturbed' = disturbed \cup {addr}

ProbeCodec ==
    /\ phase = "audio"
    /\ step <= Len(AudioAddrs)
    /\ LET addr == AudioAddrs[step]
       IN  \/ \E i \in Candidates(addr) : ReadCodec(i, addr) /\ UseCodec(i, addr)
           \/ /\ ReadCodec(0, addr)
              /\ step' = step + 1
              /\ UNCHANGED <<phase, nodes, primary, context>>
    /\ UNCHANGED <<board, found>>

(* No codec on the bus: the last row but one is assumed.                   *)
AssumeDac ==
    /\ phase = "audio"
    /\ step > Len(AudioAddrs)
    /\ UseCodec(Len(Codecs) - 1, 0)
    /\ UNCHANGED <<board, found, disturbed>>

-----------------------------------------------------------------------------
(* devtree_probe_sensors for one row of the database.                      *)
PeriphAgrees(row, addr) ==
    Acks(addr) /\ AgreeAll(Answer(addr, FALSE, row.reg), row.id, row.mask)

(* The addresses before the n-th, or all of them if n is past the last,    *)
(* brought no match; those in Bad are disturbed.                           *)
NoneBefore(row, n, Bad) ==
    \A i \in 1..n - 1 : row.addrs[i] \in Bad \/ ~ PeriphAgrees(row, row.addrs[i])

(* A slip: not looking at the result of the read if nothing is to          *)
(* be compared.                                                            *)
MatchAtUnread(row, n, Bad) ==
    n <= Len(row.addrs) /\ \/ Unidentified(row)
                           \/ row.addrs[n] \in Bad
                           \/ PeriphAgrees(row, row.addrs[n])

MatchAt(row, n, Bad) ==
    n <= Len(row.addrs) /\ (row.addrs[n] \in Bad \/ PeriphAgrees(row, row.addrs[n]))

Claim(row, n) == Register(row.name, {row.category}, "I2C", row.addrs[n])

NextPeripheral ==
    IF step = Len(Peripherals) THEN Enter("done")
                               ELSE step' = step + 1 /\ UNCHANGED phase

TryAddresses(row) ==
    \E n \in 1..Len(row.addrs) + 1 :
    \E Bad \in SUBSET {row.addrs[i] : i \in {j \in 1..Len(row.addrs) : j <= n}} :
        /\ Bad # {} => /\ context["touch"] # NoContext
                       /\ Cardinality(disturbed \cup Bad) <= MaxDisturbed
        /\ NoneBefore(row, n, Bad)
        /\ \/ MatchAt(row, n, Bad) /\ Claim(row, n)
           \/ n > Len(row.addrs) /\ UNCHANGED <<nodes, primary>>
        /\ disturbed' = disturbed \cup Bad

ProbePeripheral ==
    /\ phase = "sensors"
    /\ LET row == Peripherals[step]
       IN  IF FoundByName(row.name)
           THEN UNCHANGED <<nodes, primary, disturbed>>
           ELSE TryAddresses(row)
    /\ NextPeripheral
    /\ UNCHANGED <<board, context, found>>

Next ==
    \/ Scan
    \/ ProbeLcd
    \/ TouchReady
    \/ TouchFault
    \/ ProbeCodec
    \/ AssumeDac
    \/ ProbePeripheral

Spec == Init /\ [][Next]_vars

-----------------------------------------------------------------------------
(* Properties.                                                             *)

Names ==
    {Panels[i].name : i \in 1..Len(Panels)} \cup {TouchIcs[i].name : i \in 1..Len(TouchIcs)}
    \cup {Codecs[i].name : i \in 1..Len(Codecs)}
    \cup {Peripherals[i].name : i \in 1..Len(Peripherals)}

Categories == Primaries \cup {Peripherals[i].category : i \in 1..Len(Peripherals)}

(* The addresses that are read after the poll task has started.            *)
PolledOver ==
    {AudioAddrs[k] : k \in 1..Len(AudioAddrs)}
    \cup UNION {{Peripherals[k].addrs[n] : n \in 1..Len(Peripherals[k].addrs)} :
                  k \in 1..Len(Peripherals)}

Places == {0, 10} \cup {TouchAddrs[k] : k \in 1..Len(TouchAddrs)} \cup PolledOver

Nodes == [name : Names, category : SUBSET Categories, bus : {"SPI", "I2C", "I2S"}, addr : Places]

(* Types: the table within its bound, the primaries indices of it.         *)
TypeOK ==
    /\ board \in Boards
    /\ phase \in {"scan", "lcd", "touch", "audio", "sensors", "done", "fault"}
    /\ step \in 1..Len(Peripherals)
    /\ nodes \in Seq(Nodes)
    /\ primary \in [Primaries -> 0..Len(nodes)]
    /\ context \in [{"lcd", "touch", "codec"} -> (0..Len(TouchIcs)) \X Places]
    /\ found \in 0..112
    /\ disturbed \subseteq PolledOver /\ Cardinality(disturbed) <= MaxDisturbed

(* The table has room for every device that detection can register, so     *)
(* that devtree_register never turns one away.                             *)
TableNeverFills == HasRoom(nodes)

(* The quick-access pointers name the device that devtree_find gives: the  *)
(* first of exactly that category.                                         *)
PrimariesAreFirst == \A c \in Primaries : primary[c] = Find({c})

(* A chip at addr answers as a row of that name asks.                      *)
AnswersAs(name, addr) ==
    /\ Acks(addr)
    /\ \/ \E j \in 1..Len(TouchIcs) : TouchIcs[j].name = name /\ TouchAccepts(j, addr)
       \/ \E j \in Candidates(addr) : Codecs[j].name = name /\ CodecAgrees(j, addr)
       \/ \E j \in 1..Len(Peripherals) :
              Peripherals[j].name = name /\ PeriphAgrees(Peripherals[j], addr)

(* No device is made up: where no transaction was disturbed, there is a    *)
(* chip that answers as the row of the node asks.                          *)
ClaimsAnswer ==
    \A i \in 1..Len(nodes) :
        nodes[i].bus = "I2C" /\ nodes[i].addr \notin disturbed =>
            AnswersAs(nodes[i].name, nodes[i].addr)

(* Two devices at one address: at least one was registered on an           *)
(* acknowledgement alone, or the address was disturbed.  The rows that ask *)
(* for an identification tell the chips of the database apart.             *)
OnAckAlone(name) ==
    \E j \in 1..Len(Peripherals) : Peripherals[j].name = name /\ Unidentified(Peripherals[j])

OverlapsOnAckAlone ==
    \A i, j \in 1..Len(nodes) :
        i # j /\ nodes[i].bus = "I2C" /\ nodes[j].bus = "I2C" /\ nodes[i].addr = nodes[j].addr =>
            \/ OnAckAlone(nodes[i].name)
            \/ OnAckAlone(nodes[j].name)
            \/ nodes[i].addr \in disturbed

(* No peripheral of the database is missed: at the end it is registered,   *)
(* at its address or at one its row lists before, unless a transaction     *)
(* there was disturbed.  The OV5640 is missed, since its register number   *)
(* does not fit the row.                                                   *)
PeripheralsFound ==
    \A k \in 1..Len(Peripherals) : \A n \in 1..Len(Peripherals[k].addrs) :
        LET row == Peripherals[k]
            addr == row.addrs[n]
        IN  Acks(addr) /\ board.chips[addr].name = row.name /\ addr \notin disturbed =>
              \/ row.name = "OV5640"
              \/ \E i \in 1..Len(nodes) : /\ nodes[i].name = row.name
                                         /\ nodes[i].addr \in {row.addrs[m] : m \in 1..n}

(* No codec is missed: if one answers at addr, undisturbed, the codec that *)
(* is used is there or at an address tried before, and one used at addr is *)
(* of the chip's own row or of an earlier one that compares no byte, which *)
(* is how a WM8960 or AC101 becomes a WM8978 and a UDA1380 a TLV320.       *)
HasCodec(addr) ==
    Acks(addr) /\ \E j \in Candidates(addr) : Codecs[j].name = board.chips[addr].name

TakenFor(i, addr) ==
    \/ Codecs[i].name = board.chips[addr].name
    \/ Unidentified(Codecs[i]) /\ \E j \in Candidates(addr) :
                                     i < j /\ Codecs[j].name = board.chips[addr].name

CodecFound ==
    \A addr \in DOMAIN board.chips :
        HasCodec(addr) /\ addr \notin disturbed =>
            LET codec == context["codec"]
            IN  codec[2] \in 1..addr /\ (codec[2] = addr => TakenFor(codec[1], addr))

KnownChipsFound == phase = "done" => PeripheralsFound /\ CodecFound

(* What the README's list of supported audio codecs says, and is not so: a *)
(* codec of the database is registered as what it is.                      *)
CodecsKeepTheirNames ==
    \A addr \in DOMAIN board.chips :
        phase = "done" /\ HasCodec(addr) /\ addr \notin disturbed /\ context["codec"][2] = addr =>
            \E i \in 1..Len(nodes) :
                nodes[i].addr = addr /\ nodes[i].name = board.chips[addr].name

(* What the README's list of supported touch controllers says, and is not  *)
(* so: on a board that has one of them detection gets past the touch       *)
(* controller.  It calls the misplaced init_fn of the row instead, unless  *)
(* the chip is a Goodix.                                                   *)
HasTouch(addr) ==
    \E j \in 1..Len(TouchIcs) :
        addr \in TouchIcs[j].addrs /\ TouchIcs[j].name = board.chips[addr].name

SupportedTouchStarts == phase = "fault" => \A addr \in DOMAIN board.chips : ~ HasTouch(addr)

(* A device keeps its place and a primary its role: pointers into the      *)
(* table that drivers and tasks hold stay valid while detection goes on.   *)
ClaimsAreStable ==
    [][/\ Len(nodes') >= Len(nodes) /\ SubSeq(nodes', 1, Len(nodes)) = nodes
       /\ \A c \in Primaries : primary[c] # 0 => primary'[c] = primary[c]]_vars
=============================================================================
