------------------------------- MODULE MCBoot --------------------------------
EXTENDS Boot

ASSUME SequencesComplete

\* The board of the README, one with a panel of other size and command set, and
\* one without a display.
MCBoards ==
  {[panel |-> "ST7701S", audio |-> TRUE], [panel |-> "RA8875", audio |-> FALSE],
   [panel |-> NULL, audio |-> FALSE]}

TheBoard == {[panel |-> "ST7701S", audio |-> TRUE]}

\* A board for each display that the README says is detected.
EveryPanel == {[panel |-> chip, audio |-> TRUE] : chip \in Chips}

==============================================================================
