---------------------------- MODULE MCDetection ----------------------------
(* Boards for the model checker: a display and up to three chips of the    *)
(* databases, and one board that fills the bus.                            *)
EXTENDS Detection

ChipOf(row, wide) == [name |-> row.name, wide |-> wide, reg |-> row.reg, id |-> row.id]

TouchChip(i) == ChipOf(TouchIcs[i], TouchIcs[i].wide)
CodecChip(i) == ChipOf(Codecs[i], FALSE)
PeriphChip(i) == ChipOf(Peripherals[i], FALSE)

(* The OV5640 has its identification at a 16-bit register.                 *)
Camera == [name |-> "OV5640", wide |-> TRUE, reg |-> \h300A, id |-> <<\h56>>]

Display(i, cs) == [cmd |-> Panels[i].cmd, id |-> Panels[i].id, cs |-> cs]
Displays == {Display(1, 10), Display(8, 10), Display(4, 5), Display(10, 10)}

(* A function with the pairs <<address, chip>> of a set.                   *)
Bus(pairs) == [a \in {p[1] : p \in pairs} |-> (CHOOSE p \in pairs : p[1] = a)[2]]

Touches == {{}, {<<\h5D, TouchChip(1)>>}, {<<\h14, TouchChip(2)>>},
            {<<\h38, TouchChip(4)>>}, {<<\h48, TouchChip(9)>>}, {<<\h41, TouchChip(10)>>}}

Audios == {{}, {<<\h11, CodecChip(1)>>}, {<<\h10, CodecChip(2)>>},
           {<<\h1A, CodecChip(5)>>}, {<<\h18, CodecChip(7)>>}}

Sensors == {{}, {<<\h68, PeriphChip(1)>>}, {<<\h69, PeriphChip(2)>>}, {<<\h68, PeriphChip(18)>>},
            {<<\h77, PeriphChip(10)>>}, {<<\h38, PeriphChip(12)>>}, {<<\h30, PeriphChip(26)>>},
            {<<\h5C, PeriphChip(16)>>}, {<<\h21, PeriphChip(25)>>}, {<<\h3C, Camera>>}}

SmallBoards == {[panel |-> p, chips |-> Bus(t \cup a \cup s)] :
                    p \in {Display(1, 10)}, t \in Touches, a \in Audios, s \in Sensors}
               \cup {[panel |-> p, chips |-> Bus({<<\h5D, TouchChip(1)>>})] : p \in Displays}

CrowdedBoard ==
    [panel |-> Display(6, 10),
     chips |-> Bus({<<\h5D, TouchChip(2)>>, <<\h10, CodecChip(1)>>, <<\h19, CodecChip(6)>>,
                    <<\h68, PeriphChip(1)>>, <<\h69, PeriphChip(2)>>, <<\h6A, PeriphChip(6)>>,
                    <<\h6B, PeriphChip(7)>>, <<\h53, PeriphChip(8)>>, <<\h76, PeriphChip(9)>>,
                    <<\h77, PeriphChip(10)>>, <<\h38, PeriphChip(13)>>, <<\h44, PeriphChip(14)>>,
                    <<\h5C, PeriphChip(16)>>, <<\h70, PeriphChip(17)>>, <<\h51, PeriphChip(19)>>,
                    <<\h52, PeriphChip(20)>>, <<\h40, PeriphChip(22)>>, <<\h30, PeriphChip(26)>>,
                    <<\h20, PeriphChip(25)>>, <<\h3C, Camera>>})]

MCBoards == SmallBoards \cup {CrowdedBoard}

ASSUME BoardsAreGenuine == \A b \in Boards : Genuine(b)
=============================================================================
