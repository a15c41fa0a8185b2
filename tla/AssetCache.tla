------------------------------ MODULE AssetCache -----------------------------
(***************************************************************************)
(* The asset cache of fs/asset_manager.c and the PSRAM allocator of        *)
(* mm/allocator.c below it.                                                *)
(*                                                                         *)
(* Memory is counted in units of 64 bytes, to which the allocator rounds.  *)
(* A load runs under s_lk from its lookup to its return.  Of the times of  *)
(* last use, in ms, only the order is kept, equal ones included.           *)
(***************************************************************************)
EXTENDS Integers, SequencesExt

CONSTANTS
  NULL,
  Units,             (* units behind P.base that boot has left              *)
  CacheN,            (* CACHE_N                                             *)
  Assets,            (* s_tbl                                               *)
  SizeOf             (* units a block for an asset takes, header included   *)

ASSUME AssetAssumption ==
  /\ Units \in Nat \ {0} /\ CacheN \in Nat \ {0}
  /\ SizeOf \in [Assets -> Nat \ {0}]
  /\ NULL \notin Assets

Slots == 1 .. CacheN

VARIABLES
  free,              (* the list P.free: blocks [at, n]                     *)
  s_c,               (* the slots: [idx, data, lu]; idx is NULL if invalid  *)
  stale,             (* history: slots whose data was freed and not replaced *)
  since,             (* history: the other slots used since a slot was      *)
  broken             (* a block that is not in use has been freed           *)

vars == <<free, s_c, stale, since, broken>>

-----------------------------------------------------------------------------
(* k_psram_alloc() and k_psram_free().                                     *)

Fitting(list, n) == {i \in DOMAIN list : list[i].n >= n}

First(indices) == CHOOSE i \in indices : \A j \in indices : i <= j

\* A slip: a rest of no units is split off as well.
TakeFromAlways(list, i, n) == [list EXCEPT ![i] = [at |-> @.at + n, n |-> @.n - n]]

\* A slip: a block that is not split stays in the list.
TakeFromKeep(list, i, n) ==
  IF list[i].n - n >= 2 THEN [list EXCEPT ![i] = [at |-> @.at + n, n |-> @.n - n]] ELSE list

\* The list without the first n units of block i.  A rest of one unit is dropped:
\* the block that is handed out does not have it either.
TakeFrom(list, i, n) ==
  IF list[i].n - n >= 2 THEN [list EXCEPT ![i] = [at |-> @.at + n, n |-> @.n - n]]
  ELSE RemoveAt(list, i)

\* Nothing is merged with its neighbours.
Freed(list, block) == IF block = NULL THEN list ELSE <<block>> \o list

-----------------------------------------------------------------------------
(* asset_load().                                                           *)

Valid(i) == s_c[i].idx # NULL

SlotOf(a) == {i \in Slots : s_c[i].idx = a}

\* The first invalid slot, or the first of the least recently used ones.
Victim ==
  LET invalid == {i \in Slots : ~Valid(i)}
  IN  IF invalid # {} THEN First(invalid)
      ELSE First({i \in Slots : \A j \in Slots : s_c[i].lu <= s_c[j].lu})

\* The times with slot i used now, which may be in the ms of the last use.  Only
\* the order of the times is kept: each is the number of different earlier ones.
Times(i, later) ==
  LET last == CHOOSE t \in {s_c[j].lu : j \in Slots} : \A j \in Slots : s_c[j].lu <= t
      lu   == [j \in Slots |-> IF j = i THEN last + later ELSE s_c[j].lu]
  IN  [j \in Slots |-> Cardinality({lu[k] : k \in {m \in Slots : lu[m] < lu[j]}})]

UsedNow(i) == [j \in Slots |-> IF j = i THEN {} ELSE since[j] \cup {i}]

\* A slip: a hit does not refresh the time.
HitTimesOld(i, later) == [j \in Slots |-> s_c[j].lu]

HitTimes(i, later) == Times(i, later)

Hit(a) ==
  \E i \in SlotOf(a), later \in {0, 1} :
    /\ ~broken
    /\ s_c' = [j \in Slots |-> [s_c[j] EXCEPT !.lu = HitTimes(i, later)[j]]]
    /\ since' = UsedNow(i)
    /\ UNCHANGED <<free, stale, broken>>

\* The free list once the victim's data is given back.
Released(i) == Freed(free, s_c[i].data)

Miss(a) ==
  LET ev == Victim  list == Released(ev)  n == SizeOf[a]
  IN  /\ ~broken /\ SlotOf(a) = {} /\ ev \notin stale
      /\ Fitting(list, n) # {}
      /\ LET b == First(Fitting(list, n))
         IN  \E later \in {0, 1} :
               /\ free' = TakeFrom(list, b, n)
               /\ s_c' = [j \in Slots |->
                            IF j = ev THEN [idx |-> a, data |-> [at |-> list[b].at, n |-> n],
                                            lu |-> Times(ev, later)[j]]
                            ELSE [s_c[j] EXCEPT !.lu = Times(ev, later)[j]]]
      /\ since' = UsedNow(ev)
      /\ UNCHANGED <<stale, broken>>

\* There is no memory for the asset.  The slot is left as it is, its data freed.
Fail(a) ==
  LET ev == Victim
  IN  /\ ~broken /\ SlotOf(a) = {} /\ ev \notin stale
      /\ Fitting(Released(ev), SizeOf[a]) = {}
      /\ free' = Released(ev)
      /\ stale' = IF s_c[ev].data = NULL THEN stale ELSE stale \cup {ev}
      /\ UNCHANGED <<s_c, since, broken>>

\* The data of such a slot is freed again, though it is free or someone else's.
\* What the list is from then on is not followed.
FreeAgain(a) ==
  /\ ~broken /\ SlotOf(a) = {} /\ Victim \in stale
  /\ broken' = TRUE
  /\ UNCHANGED <<free, s_c, stale, since>>

-----------------------------------------------------------------------------
\* mm_psram_init and asset_manager_init, with what boot allocates already gone.
Init ==
  /\ free = <<[at |-> 0, n |-> Units]>>
  /\ s_c = [i \in Slots |-> [idx |-> NULL, data |-> NULL, lu |-> 0]]
  /\ stale = {} /\ since = [i \in Slots |-> {}] /\ broken = FALSE

Next == \E a \in Assets : Hit(a) \/ Miss(a) \/ Fail(a) \/ FreeAgain(a)

Spec == Init /\ [][Next]_vars

-----------------------------------------------------------------------------
(* Properties.                                                             *)

Blocks == [at : 0 .. Units - 1, n : 1 .. Units]

\* Every variable has its type; the valid slots come first.
TypeOK ==
  /\ free \in Seq(Blocks)
  /\ s_c \in [Slots -> [idx : Assets \cup {NULL}, data : Blocks \cup {NULL}, lu : 0 .. CacheN]]
  /\ \A i, j \in Slots : i < j /\ Valid(j) => Valid(i)
  /\ stale \subseteq Slots /\ broken \in BOOLEAN
  /\ \A i \in Slots : since[i] \subseteq Slots \ {i}

Cells(block) == block.at .. block.at + block.n - 1

Fresh == {i \in Slots \ stale : s_c[i].data # NULL}

\* No unit is in two free blocks, in the data of two slots or in both, whatever was
\* split, dropped and given back; a slot has a block of the size of its asset.  Only
\* a load that finds no memory leaves a slot without data of its own, and without
\* such a load nothing is freed twice.
MemoryOwned ==
  /\ \A i, j \in DOMAIN free : i # j => Cells(free[i]) \cap Cells(free[j]) = {}
  /\ \A i \in Fresh :
       /\ s_c[i].data.n = SizeOf[s_c[i].idx]
       /\ \A j \in Fresh \ {i} : Cells(s_c[i].data) \cap Cells(s_c[j].data) = {}
       /\ \A k \in DOMAIN free : Cells(s_c[i].data) \cap Cells(free[k]) = {}
  /\ broken => stale # {}

\* A pointer to the data of a slot stays good - the block is neither freed nor given
\* to another asset, be it by a load that fails - until every other slot has been
\* used, unless two slots were last used in the same ms: then the first of them is
\* replaced, and it may be the one that was filled a moment ago.  The pointers of
\* slots whose data are freed already are the subject of HitsDeliver.
KeepsRecent ==
  [][ \A i \in Slots \ stale :
        (Valid(i) /\ (s_c'[i].data # s_c[i].data \/ i \in stale'))
          => \/ since[i] = Slots \ {i}
             \/ \E j \in Slots \ {i} : s_c[j].lu = s_c[i].lu ]_vars

\* A hit delivers the asset (the source's "Load asset into PSRAM cache"), not memory
\* that has been freed since.
HitsDeliver == [][ \A a \in Assets : Hit(a) => SlotOf(a) \cap stale = {} ]_vars

==============================================================================
