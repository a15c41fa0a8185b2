-------------------------------- MODULE Heap --------------------------------
(***************************************************************************)
(* The heap of mm/allocator.c: k_malloc and k_free on segregated lists of  *)
(* free blocks, found through two levels of bitmaps.                       *)
(*                                                                         *)
(* All sizes are multiples of HEAP_ALIGN, 16 bytes, and are counted in     *)
(* such units; addresses are counted from the first block.  Each call runs *)
(* under the mutex of the heap and is one action.  Sizes are unsigned: a   *)
(* difference wraps at WORD, the number of units of the address space.     *)
(***************************************************************************)
EXTENDS Integers, Sequences, FiniteSets, FiniteSetsExt

CONSTANTS
  HEAP_UNITS,        (* size of the block that mm_heap_init() makes         *)
  MAX_FL, MAX_SL,    (* levels, and sizes per level; a power of two         *)
  WORD,              (* units in the address space: at most 2 ^ 32 bytes    *)
  Requests           (* sizes asked for, after rounding                     *)

ASSUME HeapAssumption ==
  /\ HEAP_UNITS \in Nat \ {0}
  /\ MAX_FL \in Nat \ {0} /\ MAX_SL \in Nat \ {0}
  /\ WORD \in Nat /\ HEAP_UNITS < WORD /\ WORD <= 2 ^ 28
  /\ Requests \subseteq 1 .. WORD - 1

Levels  == 0 .. MAX_FL - 1
Buckets == 0 .. MAX_SL - 1

VARIABLES
  size,              (* the headers: size of the block at each address      *)
  lists,             (* the free lists with their bitmaps                   *)
  used, fre,         (* H.used and H.fre                                    *)
  asked              (* live blocks, with the size asked for                *)

vars == <<size, lists, used, fre, asked>>

Blocks == DOMAIN size
Live   == DOMAIN asked

\* floor(log2(n)), as 31 - clz(n) gives it.
Log2(n) == CHOOSE f \in 0 .. 31 : 2 ^ f <= n /\ n < 2 ^ (f + 1)

\* tlsf_map(): the list of the blocks of size n.  A block has at least 16 bytes, so
\* the lower bound of the level never applies.
Class(n) ==
  LET f == Log2(n)
  IN  IF f < MAX_FL THEN <<f, ((n * MAX_SL) \div 2 ^ f) % MAX_SL>>
      ELSE <<MAX_FL - 1, MAX_SL - 1>>

\* Every size that fits into the address space has a list.
ASSUME ClassAssumption ==
  \A n \in 1 .. WORD - 1 : Class(n) \in Levels \X Buckets

IsMin(m, S) == m \in S /\ \A n \in S : m <= n

(***************************************************************************)
(* The free lists.                                                         *)
(***************************************************************************)
EmptyLists ==
  [at |-> [c \in Levels \X Buckets |-> <<>>], flbmp |-> {}, slbmp |-> [f \in Levels |-> {}]]

\* ins(): block b of size n becomes the head of its list.
Ins(L, b, n) ==
  LET c == Class(n)
  IN  [at    |-> [L.at EXCEPT ![c] = <<b>> \o @],
       flbmp |-> L.flbmp \cup {c[1]},
       slbmp |-> [L.slbmp EXCEPT ![c[1]] = @ \cup {c[2]}]]

\* A slip: the bit of the level stays.
RemKeepsLevel(L, n) ==
  LET c    == Class(n)
      rest == Tail(L.at[c])
  IN  [at    |-> [L.at EXCEPT ![c] = rest],
       flbmp |-> L.flbmp,
       slbmp |-> IF rest = <<>> THEN [L.slbmp EXCEPT ![c[1]] = @ \ {c[2]}] ELSE L.slbmp]

\* rem(): the head of the list for size n is taken out.
Rem(L, n) ==
  LET c    == Class(n)
      rest == Tail(L.at[c])
      left == IF rest = <<>> THEN L.slbmp[c[1]] \ {c[2]} ELSE L.slbmp[c[1]]
  IN  [at    |-> [L.at EXCEPT ![c] = rest],
       flbmp |-> IF left = {} THEN L.flbmp \ {c[1]} ELSE L.flbmp,
       slbmp |-> [L.slbmp EXCEPT ![c[1]] = left]]

\* The buckets of the level of size n that find() looks at.
AllBucketsFor(n) == lists.slbmp[Class(n)[1]]
BucketsFor(n) == {s \in lists.slbmp[Class(n)[1]] : s >= Class(n)[2]}

\* A slip: the next level is passed over.
LevelsFarAbove(n) == {f \in lists.flbmp : f > Class(n)[1] + 1}

\* The levels it looks at next.
LevelsAbove(n) == {f \in lists.flbmp : f > Class(n)[1]}

\* find(): c is the list from which a block for size n is taken.
Found(c, n) ==
  IF BucketsFor(n) # {}
  THEN c[1] = Class(n)[1] /\ IsMin(c[2], BucketsFor(n))
  ELSE IsMin(c[1], LevelsAbove(n)) /\ IsMin(c[2], lists.slbmp[c[1]])

(***************************************************************************)
(* The calls.                                                              *)
(***************************************************************************)

\* No block reaches beyond the heap: what the program does after the first
\* one that does is not modelled.
Intact == \A b \in Blocks : b + size[b] <= HEAP_UNITS

\* A rest of r units becomes a block: a header and HEAP_ALIGN bytes fit in.
Splits(r) == r >= 2

\* The size of a block of size s that is given for size n.
Given(s, n) == IF Splits((s - n) % WORD) THEN n ELSE s

\* k_malloc() of n units takes the head of list c, all of it or its front.
TakeFrom(c, n) ==
  LET b     == Head(lists.at[c])
      s     == size[b]
      r     == (s - n) % WORD
      rest  == b + n
      taken == Rem(lists, s)
  IN  /\ IF Splits(r)
         THEN /\ size' = [a \in Blocks \cup {rest} |->
                            CASE a = rest -> r [] a = b -> Given(s, n) [] OTHER -> size[a]]
              /\ lists' = Ins(taken, rest, r)
         ELSE /\ size' = [size EXCEPT ![b] = Given(s, n)]
              /\ lists' = taken
      /\ used' = used + Given(s, n)
      /\ fre' = fre - Given(s, n)
      /\ asked' = [a \in Live \cup {b} |-> IF a = b THEN n ELSE asked[a]]

\* k_malloc() of n units; if find() finds nothing, nothing changes.
Malloc(n) ==
  /\ Intact
  /\ \E c \in Levels \X Buckets : Found(c, n) /\ TakeFrom(c, n)

\* A slip: the counters lose what was asked for.
ReturnedAsAsked(b) == asked[b]

\* What the counters of the heap count for a block that is freed.
Returned(b) == size[b]

\* k_free() of a live block; it is not joined to its neighbours.
Free(b) ==
  /\ Intact
  /\ lists' = Ins(lists, b, size[b])
  /\ used' = used - Returned(b)
  /\ fre' = fre + Returned(b)
  /\ asked' = [a \in Live \ {b} |-> asked[a]]
  /\ UNCHANGED size

Init ==
  /\ size = [b \in {0} |-> HEAP_UNITS]
  /\ lists = Ins(EmptyLists, 0, HEAP_UNITS)
  /\ used = 0 /\ fre = HEAP_UNITS
  /\ asked = <<>>

Next == (\E n \in Requests : Malloc(n)) \/ (\E b \in Live : Free(b))

Spec == Init /\ [][Next]_vars
-----------------------------------------------------------------------------
(***************************************************************************)
(* Properties.                                                             *)
(***************************************************************************)
FreeBlocks == Blocks \ Live
Listed(c)  == {lists.at[c][k] : k \in DOMAIN lists.at[c]}
Extent(b)  == b .. b + size[b] - 1
SizeOf(S)  == MapThenSumSet(LAMBDA b : size[b], S)

\* Every variable has its type; the two counters, which mm_stats_print() shows, are
\* the sums of the live and of the free blocks.
TypeOK ==
  /\ Blocks \subseteq Nat
  /\ size \in [Blocks -> 1 .. WORD - 1]
  /\ lists.at \in [Levels \X Buckets -> Seq(Blocks)]
  /\ lists.flbmp \subseteq Levels
  /\ lists.slbmp \in [Levels -> SUBSET Buckets]
  /\ Live \subseteq Blocks
  /\ asked \in [Live -> Requests]
  /\ Intact => used = SizeOf(Live) /\ fre = SizeOf(FreeBlocks)

\* The blocks tile the heap: after any sequence of splits each unit lies in exactly
\* one block, so live blocks do not overlap and no memory is lost.
Tiled ==
  Intact => \A u \in 0 .. HEAP_UNITS - 1 :
    \E b \in Blocks : u \in Extent(b) /\ \A a \in Blocks : u \in Extent(a) => a = b

\* The lists hold the free blocks, each once and in the list of its size, and the
\* two levels of bitmaps tell which lists are not empty.
ListsExact ==
  Intact =>
    /\ \A b \in FreeBlocks : b \in Listed(Class(size[b]))
    /\ \A c \in Levels \X Buckets :
         /\ \A b \in Listed(c) : b \in FreeBlocks /\ Class(size[b]) = c
         /\ \A j, k \in DOMAIN lists.at[c] : lists.at[c][j] = lists.at[c][k] => j = k
    /\ \A f \in Levels : lists.slbmp[f] = {s \in Buckets : lists.at[<<f, s>>] # <<>>}
    /\ lists.flbmp = {f \in Levels : lists.slbmp[f] # {}}

\* A live block has the size that was asked for, or one unit more.
SizeFits == Intact => \A b \in Live : size[b] \in asked[b] .. asked[b] + 1

\* Until k_malloc() splits a block that is smaller than the size asked for, the heap
\* is sound after any sequence of calls: what k_malloc hands out is as large as asked,
\* overlaps nothing, and can be found again once it is free.  Nothing is said of the
\* heap from that call on: see ShortOnlyInOwnClass and SplitsLargeRemainders.
HeapConsistent == Tiled /\ ListsExact /\ SizeFits

\* What find() delivers: as long as there is a block that is large enough, a list that
\* is not empty, and if it is not that of the very class of the request, a block that
\* fits.  In that class the first block may be too small although another one fits.
FindsWhatFits ==
  Intact => \A n \in Requests :
    (\E b \in FreeBlocks : size[b] >= n) =>
      \E c \in Levels \X Buckets :
        /\ Found(c, n) /\ lists.at[c] # <<>>
        /\ c # Class(n) => size[Head(lists.at[c])] >= n

\* k_malloc() takes a block that is too small only from the list of the very class
\* of the request, the class of which find() takes the first block unseen; and
\* nothing but such a block ever brings the heap out of order.
ShortOnlyInOwnClass ==
  [][ /\ \A b \in Live' \ Live : size[b] < asked'[b] => Class(size[b]) = Class(asked'[b])
      /\ Intact /\ ~Intact' => \E b \in Live' \ Live : size[b] < asked'[b] ]_vars

\* A block is split only if a remainder of 24 bytes is left, which in units of 16
\* bytes are two (README of the source, "split if remainder >= 24 bytes").
SplitsLargeRemainders ==
  [][ \A b \in Live' \ Live : Blocks' # Blocks => size[b] - asked'[b] >= 2 ]_vars
==============================================================================
