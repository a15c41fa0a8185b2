------------------------------ MODULE FileStore ------------------------------
(***************************************************************************)
(* What NanosFS promises the task that calls it: open files that are       *)
(* sequences of cells with a position.  A read delivers everything it is   *)
(* asked for and the file has.  A write changes the file in one step, at   *)
(* its return, takes the blocks by which the file has grown, and stops     *)
(* short only where the file has its greatest length or every block of the *)
(* store is taken.  The cache, the inodes and which blocks are whose are   *)
(* not seen.                                                               *)
(*                                                                         *)
(* What a file holds when it is opened is not promised, nor that blocks    *)
(* are ever given back before the power is cut.                            *)
(***************************************************************************)
EXTENDS Integers, Sequences, FiniteSets

CONSTANTS
  Handles,
  Data,              (* what the caller writes                              *)
  Cells,             (* what a file may hold                                *)
  Absent,            (* the content of a handle without a file              *)
  BlkLen, FileBlks,  (* cells per block, blocks per file                    *)
  StoreBlks,         (* blocks of the store                                 *)
  MaxLen             (* bound: longest read or write explored               *)

VARIABLES
  up,                (* the store is mounted                                *)
  file,              (* of each handle: cells and pos, or Unused            *)
  taken,             (* the number of blocks taken                          *)
  request            (* the read or write in progress                       *)

storeVars == <<up, file, taken, request>>

Unused  == [cells |-> Absent]
Nothing == [op |-> "none"]

IsOpen(h) == file[h] # Unused

\* What a file may hold.
Contents == UNION {[1 .. n -> Cells] : n \in 0 .. FileBlks * BlkLen}

Init ==
  /\ up = FALSE
  /\ file = [h \in Handles |-> Unused]
  /\ taken = 0
  /\ request = Nothing

Mount ==
  /\ ~up
  /\ up' = TRUE
  /\ UNCHANGED <<file, taken, request>>

PowerCut ==
  /\ up
  /\ up' = FALSE
  /\ file' = [h \in Handles |-> Unused]
  /\ taken' = 0
  /\ request' = Nothing

Quiet == up /\ request = Nothing

Open(h) ==
  /\ Quiet /\ ~IsOpen(h)
  /\ \E s \in Contents : file' = [file EXCEPT ![h] = [cells |-> s, pos |-> 0]]
  /\ UNCHANGED <<up, taken, request>>

Close(h) ==
  /\ Quiet /\ IsOpen(h)
  /\ file' = [file EXCEPT ![h] = Unused]
  /\ UNCHANGED <<up, taken, request>>

-----------------------------------------------------------------------------
(* Reading: got is what has been delivered so far.                         *)

StartRead(h, len) ==
  /\ Quiet /\ IsOpen(h)
  /\ LET rest == Len(file[h].cells) - file[h].pos
     IN  /\ rest > 0
         /\ request' = [op |-> "read", by |-> h, got |-> <<>>,
                        len |-> IF len <= rest THEN len ELSE rest]
  /\ UNCHANGED <<up, file, taken>>

\* More of the cells behind the position are delivered.
Deliver ==
  /\ request.op = "read"
  /\ LET from == file[request.by].pos
     IN  \E n \in Len(request.got) + 1 .. request.len :
           request' = [request EXCEPT !.got =
                         SubSeq(file[request.by].cells, from + 1, from + n)]
  /\ UNCHANGED <<up, file, taken>>

ReturnRead ==
  /\ request.op = "read"
  /\ Len(request.got) = request.len
  /\ file' = [file EXCEPT ![request.by].pos = @ + request.len]
  /\ request' = Nothing
  /\ UNCHANGED <<up, taken>>

-----------------------------------------------------------------------------
(* Writing.                                                                *)

StartWrite(h, len, d) ==
  /\ Quiet /\ IsOpen(h)
  /\ request' = [op |-> "write", by |-> h, len |-> len, value |-> d]
  /\ UNCHANGED <<up, file, taken>>

\* The content s with n cells of value d put over it behind pos.
PutOver(s, pos, n, d) ==
  SubSeq(s, 1, pos) \o [k \in 1 .. n |-> d] \o SubSeq(s, pos + n + 1, Len(s))

\* The blocks of a file, counted from 0, that it gains when it grows from len to new cells.
Gained(len, new) == {k \in 0 .. FileBlks - 1 : len <= BlkLen * k /\ BlkLen * k < new}

ReturnWrite(n) ==
  /\ request.op = "write" /\ n <= request.len
  /\ LET old == file[request.by]
         end == old.pos + n
         new == PutOver(old.cells, old.pos, n, request.value)
     IN  /\ file' = [file EXCEPT ![request.by] = [cells |-> new, pos |-> end]]
         /\ taken' = taken + Cardinality(Gained(Len(old.cells), Len(new)))
         /\ n < request.len => end = FileBlks * BlkLen \/ taken' = StoreBlks
  /\ request' = Nothing
  /\ UNCHANGED up

-----------------------------------------------------------------------------
Next ==
  \/ Mount \/ PowerCut
  \/ \E h \in Handles : Open(h) \/ Close(h)
  \/ \E h \in Handles, len \in 1 .. MaxLen :
       StartRead(h, len) \/ \E d \in Data : StartWrite(h, len, d)
  \/ Deliver \/ ReturnRead
  \/ \E n \in 0 .. MaxLen : ReturnWrite(n)

Spec == Init /\ [][Next]_storeVars
==============================================================================
