-------------------------- MODULE AssetCacheProofs ---------------------------
(***************************************************************************)
(* For any memory, any number of slots and any assets: who owns which unit *)
(* of the memory, and which slot a miss may replace.                       *)
(***************************************************************************)
EXTENDS AssetCache, FiniteSetTheorems, SequenceTheorems, WellFoundedInduction, TLAPS

-----------------------------------------------------------------------------
(* The inductive invariant.                                                *)

Entries == [idx : Assets \cup {NULL}, data : Blocks \cup {NULL}, lu : 0 .. CacheN]

Inside(block) == block.at + block.n <= Units

Types ==
  /\ free \in Seq(Blocks) /\ \A k \in DOMAIN free : Inside(free[k])
  /\ s_c \in [Slots -> Entries]
  /\ \A i \in Slots : s_c[i].data # NULL => Inside(s_c[i].data)
  /\ stale \subseteq Slots /\ broken \in BOOLEAN
  /\ since \in [Slots -> SUBSET Slots] /\ \A i \in Slots : i \notin since[i]

Disjoint(x, y) == Cells(x) \cap Cells(y) = {}

\* The blocks of a list and the blocks d of some slots have no unit in common.
Owned(list, slots, d) ==
  /\ \A i, j \in DOMAIN list : i # j => Disjoint(list[i], list[j])
  /\ \A i \in slots : \A j \in slots \ {i} : Disjoint(d[i], d[j])
  /\ \A i \in slots : \A k \in DOMAIN list : Disjoint(d[i], list[k])

Data == [i \in Slots |-> s_c[i].data]

Fits == \A i \in Fresh : s_c[i].data.n = SizeOf[s_c[i].idx]

\* The valid slots come first.
Prefix == \A i, j \in Slots : i < j /\ Valid(j) => Valid(i)

\* A slot with a later time than another's was used since that one was.
Order == \A i, j \in Slots : s_c[i].lu < s_c[j].lu => j \in since[i]

AssetInv ==
  /\ Types /\ Owned(free, Fresh, Data) /\ Fits /\ Prefix /\ Order
  /\ broken => stale # {}

-----------------------------------------------------------------------------
(* Least elements.                                                         *)

\* A set of natural numbers has a least one.
LEMMA Least ==
  ASSUME NEW T \in SUBSET Nat, T # {} PROVE \E x \in T : \A y \in T : x <= y
<1> DEFINE R == StrictSubsetOrdering(Nat)
           F == FiniteSubsetsOf(Nat)
           below(x) == {y \in T : y < x}
           B == {below(x) : x \in T}
<1>1. IsWellFoundedOn(R, F)
  BY FS_StrictSubsetOrderingWellFounded
<1>2. B \subseteq F /\ B # {}
  <2>1. ASSUME NEW x \in T PROVE IsFiniteSet(below(x))
    <3>1. \A s \in below(x) : s <= x
      OBVIOUS
    <3>2. below(x) \in SUBSET Nat /\ x \in Nat
      OBVIOUS
    <3> HIDE DEF below
    <3> QED BY <3>1, <3>2, FS_BoundedSetOfNaturals
  <2>2. \A x \in T : below(x) \in F
    BY <2>1 DEF FiniteSubsetsOf
  <2> QED BY <2>2
<1> HIDE DEF R, F
<1>3. PICK b \in B : \A c \in B : ~ (<<c, b>> \in R)
  <2> HIDE DEF B
  <2> QED BY <1>1, <1>2, WFMin
<1>4. PICK x \in T : b = below(x)
  OBVIOUS
<1>5. ASSUME NEW y \in T, y < x PROVE FALSE
  <2>a. x \in Nat /\ y \in Nat /\ \A z \in T : z \in Nat
    OBVIOUS
  <2>1. below(y) \subseteq below(x) /\ y \in below(x) /\ y \notin below(y)
    <3>1. \A z \in T : z < y => z < x
      BY <1>5, <2>a
    <3>2. ~ (y < y)
      BY <2>a
    <3> QED BY <1>5, <3>1, <3>2
  <2>2. below(y) # below(x) /\ below(y) \in SUBSET Nat /\ below(x) \in SUBSET Nat
    BY <2>1
  <2>3. <<below(y), below(x)>> \in R
    BY <2>1, <2>2 DEF R, StrictSubsetOrdering
  <2> QED BY <1>3, <1>4, <2>3
<1> QED BY <1>5

\* The first of some indices.
LEMMA FirstIs ==
  ASSUME NEW T \in SUBSET Nat, T # {}
  PROVE  First(T) \in T /\ \A y \in T : First(T) <= y
  BY Least DEF First

\* A set of bounded natural numbers has a greatest one.
LEMMA Greatest ==
  ASSUME NEW n \in Nat, NEW T \in SUBSET (0 .. n), T # {}
  PROVE  \E x \in T : \A y \in T : y <= x
<1> DEFINE U == {n - t : t \in T}
<1>a. \A t \in T : t \in Nat /\ t <= n
  OBVIOUS
<1>1. U \in SUBSET Nat /\ U # {}
  <2>1. \A t \in T : n - t \in Nat
    BY <1>a
  <2> QED BY <2>1
<1>2. PICK u \in U : \A v \in U : u <= v
  <2> HIDE DEF U
  <2> QED BY <1>1, Least
<1>3. PICK x \in T : u = n - x
  OBVIOUS
<1>4. \A y \in T : n - x <= n - y
  BY <1>2, <1>3
<1>5. ASSUME NEW y \in T PROVE y <= x
  <2>1. n - x <= n - y /\ x \in Nat /\ y \in Nat
    BY <1>a, <1>4
  <2> QED BY <2>1
<1> QED BY <1>5

-----------------------------------------------------------------------------
(* Blocks.                                                                 *)

\* A part of a list.
LEMMA PartIs ==
  ASSUME NEW S, NEW list \in Seq(S), NEW m \in Nat \ {0}, NEW n \in Nat,
         m <= n + 1, n <= Len(list)
  PROVE  /\ SubSeq(list, m, n) \in Seq(S) /\ Len(SubSeq(list, m, n)) = n - m + 1
         /\ \A k \in 1 .. n - m + 1 : SubSeq(list, m, n)[k] = list[m + k - 1]
<1>1. Len(list) \in Nat /\ \A k \in 1 .. Len(list) : list[k] \in S
  BY ElementOfSeq, LenProperties
<1>2. m \in Int /\ n \in Int /\ \A k \in m .. n : list[k] \in S
  BY <1>1
<1>3. /\ SubSeq(list, m, n) \in Seq(S)
      /\ Len(SubSeq(list, m, n)) = IF m <= n THEN n - m + 1 ELSE 0
      /\ \A k \in 1 .. n - m + 1 : SubSeq(list, m, n)[k] = list[m + k - 1]
  BY <1>2, SubSeqProperties
<1>4. (IF m <= n THEN n - m + 1 ELSE 0) = n - m + 1
  OBVIOUS
<1> QED BY <1>3, <1>4

\* A list without one of its blocks.
LEMMA RemoveAtIs ==
  ASSUME NEW S, NEW list \in Seq(S), NEW b \in DOMAIN list
  PROVE  LET new == RemoveAt(list, b)
         IN  /\ new \in Seq(S) /\ Len(new) = Len(list) - 1
             /\ \A k \in DOMAIN new : new[k] = list[IF k < b THEN k ELSE k + 1]
<1> DEFINE new == RemoveAt(list, b)
           front == SubSeq(list, 1, b - 1)
           back == SubSeq(list, b + 1, Len(list))
<1>1. Len(list) \in Nat /\ b \in 1 .. Len(list) /\ b \in Nat
  BY LenProperties
<1>2. front \in Seq(S) /\ Len(front) = b - 1 /\ \A k \in 1 .. b - 1 : front[k] = list[k]
  <2>1. b - 1 \in Nat /\ 1 <= b - 1 + 1 /\ b - 1 <= Len(list) /\ 1 \in Nat \ {0}
    BY <1>1
  <2>2. /\ front \in Seq(S) /\ Len(front) = b - 1 - 1 + 1
        /\ \A k \in 1 .. b - 1 - 1 + 1 : front[k] = list[1 + k - 1]
    BY <2>1, PartIs
  <2> HIDE DEF front
  <2>3. b - 1 - 1 + 1 = b - 1 /\ \A k \in 1 .. b - 1 : 1 + k - 1 = k
    BY <1>1
  <2> QED BY <2>2, <2>3
<1>3. /\ back \in Seq(S) /\ Len(back) = Len(list) - b
      /\ \A k \in 1 .. Len(list) - b : back[k] = list[b + k]
  <2>1. b + 1 \in Nat \ {0} /\ b + 1 <= Len(list) + 1
    BY <1>1
  <2>2. /\ back \in Seq(S) /\ Len(back) = Len(list) - (b + 1) + 1
        /\ \A k \in 1 .. Len(list) - (b + 1) + 1 : back[k] = list[b + 1 + k - 1]
    BY <1>1, <2>1, PartIs
  <2> HIDE DEF back
  <2>3. /\ Len(list) - (b + 1) + 1 = Len(list) - b
        /\ \A k \in 1 .. Len(list) - b : b + 1 + k - 1 = b + k
    BY <1>1
  <2> QED BY <2>2, <2>3
<1>4. new = front \o back
  BY DEF RemoveAt
<1> HIDE DEF front, back, new
<1>5. /\ new \in Seq(S) /\ Len(new) = Len(front) + Len(back)
      /\ \A k \in 1 .. Len(front) + Len(back) :
           new[k] = IF k <= Len(front) THEN front[k] ELSE back[k - Len(front)]
  BY <1>2, <1>3, <1>4, ConcatProperties
<1>6. Len(new) = Len(list) - 1 /\ Len(front) + Len(back) = Len(list) - 1
  BY <1>1, <1>2, <1>3, <1>5
<1>7. DOMAIN new = 1 .. Len(list) - 1
  BY <1>5, <1>6, LenProperties
<1>8. ASSUME NEW k \in 1 .. Len(list) - 1 PROVE new[k] = list[IF k < b THEN k ELSE k + 1]
  <2>1. new[k] = IF k <= b - 1 THEN front[k] ELSE back[k - (b - 1)]
    BY <1>2, <1>5, <1>6
  <2>2. CASE k < b
    <3>1. k <= b - 1 /\ k \in 1 .. b - 1
      BY <1>1, <2>2
    <3> QED BY <1>2, <2>1, <2>2, <3>1
  <2>3. CASE ~ (k < b)
    <3>1. ~ (k <= b - 1) /\ k - (b - 1) \in 1 .. Len(list) - b /\ b + (k - (b - 1)) = k + 1
      BY <1>1, <2>3
    <3> QED BY <1>3, <2>1, <2>3, <3>1
  <2> QED BY <2>2, <2>3
<1> QED BY <1>5, <1>6, <1>7, <1>8 DEF new

\* A block has a first unit, a part of a block only units of the block.
LEMMA Parts ==
  ASSUME NEW x \in Blocks, NEW n \in Nat, n < x.n
  PROVE  /\ Cells([at |-> x.at + n, n |-> x.n - n]) \subseteq Cells(x)
         /\ Cells([at |-> x.at, n |-> n]) \subseteq Cells(x)
         /\ Disjoint([at |-> x.at, n |-> n], [at |-> x.at + n, n |-> x.n - n])
  BY DEF Blocks, Cells, Disjoint

\* The list that a block is taken from: what it has then is what it had before
\* without the units that were handed out.
LEMMA TakeKeeps ==
  ASSUME NEW list \in Seq(Blocks), \A k \in DOMAIN list : Inside(list[k]),
         NEW slots, NEW d, Owned(list, slots, d),
         NEW b \in DOMAIN list, NEW n \in Nat \ {0}, n <= list[b].n
  PROVE  LET new == TakeFrom(list, b, n)  blk == [at |-> list[b].at, n |-> n]
         IN  /\ new \in Seq(Blocks) /\ \A k \in DOMAIN new : Inside(new[k])
             /\ Owned(new, slots, d)
             /\ \A k \in DOMAIN new : Disjoint(blk, new[k])
             /\ \A i \in slots : Disjoint(blk, d[i]) /\ Disjoint(d[i], blk)
             /\ blk \in Blocks /\ Inside(blk)
<1> DEFINE new == TakeFrom(list, b, n)
           blk == [at |-> list[b].at, n |-> n]
           rest == [at |-> list[b].at + n, n |-> list[b].n - n]
<1>1. /\ DOMAIN list = 1 .. Len(list) /\ Len(list) \in Nat
      /\ \A k \in DOMAIN list : list[k] \in Blocks
  BY LenProperties, ElementOfSeq
<1>2. Cells(blk) \subseteq Cells(list[b])
  BY <1>1 DEF Blocks, Cells
<1>3. blk \in Blocks /\ Inside(blk)
  BY <1>1, AssetAssumption DEF Blocks, Inside
<1>4. \A i \in slots : Disjoint(blk, d[i]) /\ Disjoint(d[i], blk)
  BY <1>2 DEF Owned, Disjoint
<1>5. CASE list[b].n - n >= 2
  <2>1. new = [list EXCEPT ![b] = rest]
    BY <1>5 DEF TakeFrom
  <2>2. /\ Cells(rest) \subseteq Cells(list[b]) /\ Disjoint(blk, rest)
        /\ rest \in Blocks /\ Inside(rest)
    <3>1. list[b] \in Blocks /\ n < list[b].n /\ Inside(list[b])
      BY <1>1, <1>5 DEF Blocks
    <3>2. rest \in Blocks /\ Inside(rest)
      BY <3>1, AssetAssumption DEF Blocks, Inside
    <3> QED BY <3>1, <3>2, Parts
  <2> HIDE DEF rest, blk
  <2>3. /\ DOMAIN new = DOMAIN list /\ new[b] = rest
        /\ \A k \in DOMAIN list \ {b} : new[k] = list[k]
    BY <2>1
  <2>4. new \in Seq(Blocks)
    BY <1>1, <2>1, <2>2, ExceptSeq
  <2> HIDE DEF new
  <2>5. \A k \in DOMAIN new : Cells(new[k]) \subseteq Cells(list[k])
    BY <2>2, <2>3
  <2>6. Owned(new, slots, d)
    BY <2>3, <2>5 DEF Owned, Disjoint
  <2>7. \A k \in DOMAIN new : Disjoint(blk, new[k])
    BY <1>2, <2>2, <2>3 DEF Owned, Disjoint
  <2>8. \A k \in DOMAIN new : Inside(new[k])
    BY <2>2, <2>3
  <2> QED BY <1>3, <1>4, <2>4, <2>6, <2>7, <2>8 DEF new, blk
<1>6. CASE ~ (list[b].n - n >= 2)
  <2>1. new = RemoveAt(list, b)
    BY <1>6 DEF TakeFrom
  <2>2. /\ new \in Seq(Blocks) /\ Len(new) = Len(list) - 1
        /\ \A k \in DOMAIN new : new[k] = list[IF k < b THEN k ELSE k + 1]
    BY <2>1, RemoveAtIs
  <2> HIDE DEF new, blk, rest
  <2> DEFINE old(k) == IF k < b THEN k ELSE k + 1
  <2>3. DOMAIN new = 1 .. Len(new)
    BY <2>2, LenProperties
  <2>4. /\ \A k \in DOMAIN new : old(k) \in DOMAIN list /\ old(k) # b /\ new[k] = list[old(k)]
        /\ \A j, k \in DOMAIN new : j # k => old(j) # old(k)
    BY <1>1, <2>2, <2>3
  <2> HIDE DEF old
  <2>5. Owned(new, slots, d)
    BY <2>4 DEF Owned
  <2>6. \A k \in DOMAIN new : Disjoint(blk, new[k])
    <3> SUFFICES ASSUME NEW k \in DOMAIN new PROVE Disjoint(blk, new[k])
      OBVIOUS
    <3>1. Disjoint(list[b], list[old(k)])
      BY <2>4 DEF Owned
    <3> QED BY <1>2, <2>4, <3>1 DEF Disjoint
  <2>7. \A k \in DOMAIN new : Inside(new[k])
    BY <2>4
  <2> QED BY <1>3, <1>4, <2>2, <2>5, <2>6, <2>7 DEF new, blk
<1> QED BY <1>5, <1>6

\* A slot's block goes to the head of the list.
LEMMA FreedKeeps ==
  ASSUME NEW list \in Seq(Blocks), \A k \in DOMAIN list : Inside(list[k]),
         NEW slots, NEW d, Owned(list, slots, d),
         NEW i, d[i] # NULL => i \in slots /\ d[i] \in Blocks /\ Inside(d[i])
  PROVE  LET new == Freed(list, d[i])
         IN  /\ new \in Seq(Blocks) /\ \A k \in DOMAIN new : Inside(new[k])
             /\ Owned(new, slots \ {i}, d)
<1>1. CASE d[i] = NULL
  BY <1>1 DEF Freed, Owned
<1>2. CASE d[i] # NULL
  <2> DEFINE new == <<d[i]>> \o list
  <2>1. Freed(list, d[i]) = new
    BY <1>2 DEF Freed
  <2>2. <<d[i]>> \in Seq(Blocks) /\ Len(<<d[i]>>) = 1 /\ <<d[i]>>[1] = d[i]
    BY <1>2
  <2>3. /\ new \in Seq(Blocks) /\ Len(new) = Len(list) + 1
        /\ \A k \in 1 .. Len(new) : new[k] = IF k = 1 THEN d[i] ELSE list[k - 1]
    <3> DEFINE one == <<d[i]>>
    <3>1. one \in Seq(Blocks) /\ Len(one) = 1 /\ one[1] = d[i]
      BY <2>2
    <3> HIDE DEF one
    <3>2. /\ one \o list \in Seq(Blocks) /\ Len(one \o list) = Len(one) + Len(list)
          /\ \A k \in 1 .. Len(one) + Len(list) :
               (one \o list)[k] = IF k <= Len(one) THEN one[k] ELSE list[k - Len(one)]
      BY <3>1, ConcatProperties
    <3>3. Len(list) \in Nat
      BY LenProperties
    <3>4. \A k \in 1 .. 1 + Len(list) : (one \o list)[k] = IF k = 1 THEN d[i] ELSE list[k - 1]
      BY <3>1, <3>2, <3>3
    <3> QED BY <3>1, <3>2, <3>3, <3>4 DEF one
  <2>4. /\ DOMAIN new = 1 .. Len(list) + 1 /\ DOMAIN list = 1 .. Len(list) /\ Len(list) \in Nat
    BY <2>3, LenProperties
  <2> HIDE DEF new
  <2>5. \A k \in DOMAIN new :
          \/ k = 1 /\ new[k] = d[i]
          \/ k # 1 /\ k - 1 \in DOMAIN list /\ new[k] = list[k - 1]
    BY <2>3, <2>4
  <2>6. \A k \in DOMAIN new : Inside(new[k])
    BY <1>2, <2>5
  <2>7. \A j, k \in DOMAIN new : j # k => Disjoint(new[j], new[k])
    <3> SUFFICES ASSUME NEW j \in DOMAIN new, NEW k \in DOMAIN new, j # k
                 PROVE  Disjoint(new[j], new[k])
      OBVIOUS
    <3>1. \A m \in DOMAIN list : Disjoint(d[i], list[m]) /\ Disjoint(list[m], d[i])
      BY <1>2 DEF Owned, Disjoint
    <3>2. j \in Nat /\ k \in Nat
      BY <2>4
    <3>3. CASE j # 1 /\ k # 1
      BY <2>5, <3>2, <3>3 DEF Owned
    <3> QED BY <2>5, <3>1, <3>3
  <2>8. Owned(new, slots \ {i}, d)
    BY <1>2, <2>5, <2>7 DEF Owned
  <2> QED BY <2>1, <2>3, <2>6, <2>8
<1> QED BY <1>1, <1>2

\* A slot that owns nothing gets a block that nobody owns.
LEMMA OneMore ==
  ASSUME NEW list, NEW slots, NEW d, Owned(list, slots, d),
         NEW i, i \notin slots, NEW e, NEW more \in SUBSET (slots \cup {i}),
         \A j \in slots : e[j] = d[j] /\ Disjoint(e[i], d[j]) /\ Disjoint(d[j], e[i]),
         \A k \in DOMAIN list : Disjoint(e[i], list[k])
  PROVE  Owned(list, more, e)
  BY DEF Owned

-----------------------------------------------------------------------------
(* Times and victims.                                                      *)

\* There are CacheN slots, at least one.
LEMMA SlotsFinite ==
  /\ IsFiniteSet(Slots) /\ Cardinality(Slots) = CacheN
  /\ Slots \in SUBSET Nat /\ Slots # {} /\ 1 \in Slots
<1>1. CacheN \in Nat \ {0}
  BY AssetAssumption
<1>2. IsFiniteSet(1 .. CacheN) /\ Cardinality(1 .. CacheN) = CacheN
  <2>1. 1 \in Int /\ CacheN \in Int /\ ~ (1 > CacheN) /\ CacheN - 1 + 1 = CacheN
    BY <1>1
  <2>2. /\ IsFiniteSet(1 .. CacheN)
        /\ Cardinality(1 .. CacheN) = IF 1 > CacheN THEN 0 ELSE CacheN - 1 + 1
    BY <2>1, FS_Interval
  <2> QED BY <2>1, <2>2
<1>3. Slots \in SUBSET Nat /\ 1 \in Slots
  BY <1>1 DEF Slots
<1> QED BY <1>2, <1>3 DEF Slots

\* The slot that is used gets the latest time, perhaps with others; the others keep
\* their order.
LEMMA TimesKeep ==
  ASSUME Types, NEW i \in Slots, NEW later \in {0, 1}
  PROVE  LET T == Times(i, later)
         IN  \A j, k \in Slots :
               /\ T[j] \in 0 .. CacheN
               /\ T[j] < T[k] => j # i /\ (k = i \/ s_c[j].lu < s_c[k].lu)
<1> DEFINE old == {s_c[j].lu : j \in Slots}
           last == CHOOSE t \in old : \A j \in Slots : s_c[j].lu <= t
           lu == [j \in Slots |-> IF j = i THEN last + later ELSE s_c[j].lu]
           below(j) == {lu[k] : k \in {m \in Slots : lu[m] < lu[j]}}
           T == Times(i, later)
<1>1. T = [j \in Slots |-> Cardinality(below(j))]
  BY DEF Times
<1>2. last \in old /\ \A j \in Slots : s_c[j].lu <= last
  <2>1. \A j \in Slots : s_c[j].lu \in 0 .. CacheN
    BY DEF Types, Entries
  <2>2. old \in SUBSET (0 .. CacheN) /\ old # {}
    BY <2>1
  <2>3. \E t \in old : \A y \in old : y <= t
    <3> HIDE DEF old
    <3> QED BY <2>2, Greatest, AssetAssumption
  <2>4. \E t \in old : \A j \in Slots : s_c[j].lu <= t
    BY <2>3
  <2> QED BY <2>4
<1>3. \A j \in Slots : s_c[j].lu \in Nat
  BY AssetAssumption DEF Types, Entries
<1>4. last \in Nat
  BY <1>2, <1>3
<1> HIDE DEF last, old
<1>5. /\ \A j \in Slots : lu[j] \in Nat /\ lu[j] <= lu[i]
      /\ \A j \in Slots \ {i} : lu[j] = s_c[j].lu
  BY <1>2, <1>3, <1>4
<1>6. DOMAIN lu = Slots
  OBVIOUS
<1> HIDE DEF lu
<1>7. ASSUME NEW j \in Slots
      PROVE  IsFiniteSet(below(j)) /\ Cardinality(below(j)) \in 0 .. CacheN
  <2> DEFINE img == {lu[k] : k \in Slots}
  <2>1. IsFiniteSet(img) /\ Cardinality(img) <= CacheN
    <3>1. lu \in [Slots -> img] /\ \A x \in img : \E k \in Slots : lu[k] = x
      BY <1>6 DEF lu
    <3> HIDE DEF img
    <3>2. lu \in Surjection(Slots, img)
      BY <3>1 DEF Surjection
    <3> QED BY <3>2, SlotsFinite, FS_Surjection
  <2>2. below(j) \in SUBSET img
    OBVIOUS
  <2> HIDE DEF below, img
  <2>3. IsFiniteSet(below(j)) /\ Cardinality(below(j)) <= Cardinality(img)
    BY <2>1, <2>2, FS_Subset
  <2>4. Cardinality(below(j)) \in Nat /\ Cardinality(img) \in Nat /\ CacheN \in Nat
    BY <2>1, <2>3, FS_CardinalityType, AssetAssumption
  <2> QED BY <2>1, <2>3, <2>4
<1>8. ASSUME NEW j \in Slots, NEW k \in Slots, lu[k] <= lu[j]
      PROVE  Cardinality(below(k)) <= Cardinality(below(j))
  <2>1. \A m \in Slots : lu[m] < lu[k] => lu[m] < lu[j]
    BY <1>5, <1>8
  <2>2. below(k) \in SUBSET below(j)
    BY <2>1
  <2> HIDE DEF below
  <2> QED BY <1>7, <2>2, FS_Subset
<1> HIDE DEF below, T
<1>9. SUFFICES ASSUME NEW j \in Slots, NEW k \in Slots
               PROVE  /\ T[j] \in 0 .. CacheN
                      /\ T[j] < T[k] => j # i /\ (k = i \/ s_c[j].lu < s_c[k].lu)
  BY DEF T
<1>10. T[j] = Cardinality(below(j)) /\ T[k] = Cardinality(below(k))
  BY <1>1
<1>11. T[j] \in 0 .. CacheN /\ T[j] \in Nat /\ T[k] \in Nat
  BY <1>7, <1>10, AssetAssumption
<1>12. ASSUME T[j] < T[k] PROVE lu[j] < lu[k]
  <2>1. ~ (lu[k] <= lu[j])
    BY <1>8, <1>10, <1>11, <1>12
  <2> QED BY <1>5, <2>1
<1>13. ASSUME T[j] < T[k] PROVE j # i
  BY <1>5, <1>12, <1>13
<1>14. ASSUME T[j] < T[k], k # i PROVE s_c[j].lu < s_c[k].lu
  BY <1>5, <1>12, <1>13, <1>14
<1> QED BY <1>11, <1>13, <1>14

\* The victim is the first slot without an asset, or a least recently used one.
LEMMA VictimIs ==
  ASSUME Types
  PROVE  /\ Victim \in Slots
         /\ \/ ~Valid(Victim) /\ \A j \in Slots : j < Victim => Valid(j)
            \/ \A j \in Slots : Valid(j) /\ s_c[Victim].lu <= s_c[j].lu
<1> DEFINE invalid == {i \in Slots : ~Valid(i)}
           least == {i \in Slots : \A j \in Slots : s_c[i].lu <= s_c[j].lu}
<1>1. invalid \in SUBSET Nat /\ least \in SUBSET Nat
  BY SlotsFinite
<1>2. Victim = IF invalid # {} THEN First(invalid) ELSE First(least)
  BY DEF Victim
<1>3. CASE invalid # {}
  <2>1. First(invalid) \in invalid /\ \A y \in invalid : First(invalid) <= y
    <3> HIDE DEF invalid
    <3> QED BY <1>1, <1>3, FirstIs
  <2>2. Victim = First(invalid)
    BY <1>2, <1>3
  <2>3. Victim \in Slots /\ ~Valid(Victim) /\ \A j \in Slots : ~Valid(j) => Victim <= j
    BY <2>1, <2>2
  <2>4. \A j \in Slots : j \in Nat
    BY SlotsFinite
  <2> QED BY <2>3, <2>4
<1>4. CASE invalid = {}
  <2>1. least # {}
    <3> DEFINE T == {s_c[j].lu : j \in Slots}
    <3>1. T \in SUBSET Nat /\ T # {}
      BY SlotsFinite, AssetAssumption DEF Types, Entries
    <3>2. \E x \in T : \A y \in T : x <= y
      <4> HIDE DEF T
      <4> QED BY <3>1, Least
    <3> QED BY <3>2
  <2>2. First(least) \in least
    <3> HIDE DEF least
    <3> QED BY <1>1, <2>1, FirstIs
  <2>3. Victim = First(least)
    BY <1>2, <1>4
  <2>4. Victim \in Slots /\ \A j \in Slots : s_c[Victim].lu <= s_c[j].lu
    BY <2>2, <2>3
  <2> QED BY <1>4, <2>4
<1> QED BY <1>3, <1>4

-----------------------------------------------------------------------------
(* The steps.                                                              *)

\* The order of use, when slot i is used.
LEMMA UseKeeps ==
  ASSUME Types, Order, NEW i \in Slots, NEW later \in {0, 1}, since' = UsedNow(i),
         \A j \in Slots : s_c'[j].lu = Times(i, later)[j]
  PROVE  /\ Order' /\ since' \in [Slots -> SUBSET Slots] /\ \A j \in Slots : j \notin since'[j]
         /\ \A j \in Slots : s_c'[j].lu \in 0 .. CacheN
<1>1. \A j \in Slots : since'[j] = IF j = i THEN {} ELSE since[j] \cup {i}
  BY DEF UsedNow
<1>2. /\ since' \in [Slots -> SUBSET Slots] /\ \A j \in Slots : j \notin since'[j]
  <2>1. since' = [j \in Slots |-> IF j = i THEN {} ELSE since[j] \cup {i}]
    BY DEF UsedNow
  <2>2. \A j \in Slots : since[j] \in SUBSET Slots /\ j \notin since[j]
    BY DEF Types
  <2> QED BY <2>1, <2>2
<1>3. \A j, k \in Slots :
        s_c'[j].lu < s_c'[k].lu => j # i /\ (k = i \/ s_c[j].lu < s_c[k].lu)
  BY TimesKeep
<1>4. Order'
  BY <1>1, <1>3 DEF Order
<1>5. \A j \in Slots : s_c'[j].lu \in 0 .. CacheN
  BY TimesKeep
<1> QED BY <1>2, <1>4, <1>5

\* A lookup that finds the asset.
LEMMA HitKeeps == ASSUME AssetInv, NEW a \in Assets, Hit(a) PROVE AssetInv'
<1> USE DEF AssetInv
<1>1. PICK i \in Slots, later \in {0, 1} :
        /\ s_c' = [j \in Slots |-> [s_c[j] EXCEPT !.lu = Times(i, later)[j]]]
        /\ since' = UsedNow(i) /\ UNCHANGED <<free, stale, broken>>
  BY DEF Hit, SlotOf, HitTimes
<1>2. \A j \in Slots : s_c[j] \in Entries
  BY DEF Types
<1>3. \A j \in Slots : /\ s_c'[j].lu = Times(i, later)[j]
                       /\ s_c'[j].idx = s_c[j].idx /\ s_c'[j].data = s_c[j].data
  BY <1>1, <1>2 DEF Entries
<1>4. /\ Order' /\ since' \in [Slots -> SUBSET Slots] /\ \A j \in Slots : j \notin since'[j]
      /\ \A j \in Slots : s_c'[j].lu \in 0 .. CacheN
  BY <1>1, <1>3, UseKeeps
<1>5. s_c' \in [Slots -> Entries]
  <2>1. \A j \in Slots : Times(i, later)[j] \in 0 .. CacheN
    BY <1>3, <1>4
  <2>2. \A j \in Slots : [s_c[j] EXCEPT !.lu = Times(i, later)[j]] \in Entries
    BY <1>2, <2>1 DEF Entries
  <2> QED BY <1>1, <2>2
<1>6. Types'
  BY <1>1, <1>3, <1>4, <1>5 DEF Types
<1>7. Fresh' = Fresh /\ Data' = Data
  BY <1>1, <1>3 DEF Fresh, Data
<1>8. Fits'
  BY <1>3, <1>7 DEF Fits, Fresh
<1>9. Prefix'
  BY <1>3 DEF Prefix, Valid
<1> QED BY <1>1, <1>4, <1>6, <1>7, <1>8, <1>9

\* The victim's block goes back to the list.
LEMMA ReleasedKeeps ==
  ASSUME AssetInv, NEW i \in Slots \ stale
  PROVE  /\ Released(i) \in Seq(Blocks) /\ \A k \in DOMAIN Released(i) : Inside(Released(i)[k])
         /\ Owned(Released(i), Fresh \ {i}, Data)
<1>1. Data[i] = s_c[i].data
  BY DEF Data
<1>2. Data[i] # NULL => i \in Fresh /\ Data[i] \in Blocks /\ Inside(Data[i])
  BY <1>1 DEF AssetInv, Types, Entries, Fresh
<1>3. /\ free \in Seq(Blocks) /\ \A k \in DOMAIN free : Inside(free[k])
      /\ Owned(free, Fresh, Data)
  BY DEF AssetInv, Types
<1>4. Released(i) = Freed(free, Data[i])
  BY <1>1 DEF Released
<1> QED BY <1>2, <1>3, <1>4, FreedKeeps

\* A lookup that loads the asset.
LEMMA MissKeeps == ASSUME AssetInv, NEW a \in Assets, Miss(a) PROVE AssetInv'
<1> USE DEF AssetInv
<1> DEFINE ev == Victim
           list == Released(ev)
           n == SizeOf[a]
           b == First(Fitting(list, n))
           blk == [at |-> list[b].at, n |-> n]
<1>1. /\ ev \in Slots \ stale
      /\ \/ ~Valid(ev) /\ \A j \in Slots : j < ev => Valid(j)
         \/ \A j \in Slots : Valid(j)
  BY VictimIs DEF Miss
<1>2. PICK later \in {0, 1} :
        /\ free' = TakeFrom(list, b, n)
        /\ s_c' = [j \in Slots |->
                     IF j = ev THEN [idx |-> a, data |-> blk, lu |-> Times(ev, later)[j]]
                     ELSE [s_c[j] EXCEPT !.lu = Times(ev, later)[j]]]
        /\ since' = UsedNow(ev) /\ UNCHANGED <<stale, broken>>
  BY DEF Miss
<1>3. Fitting(list, n) # {}
  BY DEF Miss
<1> HIDE DEF ev
<1>4. /\ list \in Seq(Blocks) /\ \A k \in DOMAIN list : Inside(list[k])
      /\ Owned(list, Fresh \ {ev}, Data)
  BY <1>1, ReleasedKeeps
<1>5. n \in Nat \ {0}
  BY AssetAssumption
<1> HIDE DEF list, n
<1>6. b \in DOMAIN list /\ n <= list[b].n
  <2>1. Fitting(list, n) \in SUBSET (DOMAIN list) /\ DOMAIN list \in SUBSET Nat
    BY <1>4, LenProperties DEF Fitting
  <2>2. b \in Fitting(list, n)
    BY <1>3, <2>1, FirstIs
  <2>3. \A k \in DOMAIN list : list[k] \in Blocks
    BY <1>4, ElementOfSeq, LenProperties
  <2>4. \A k \in DOMAIN list : list[k].n \in Nat
    BY <2>3 DEF Blocks
  <2> QED BY <1>4, <1>5, <2>2, <2>4 DEF Fitting
<1> HIDE DEF b
<1>7. /\ free' \in Seq(Blocks) /\ \A k \in DOMAIN free' : Inside(free'[k])
      /\ Owned(free', Fresh \ {ev}, Data)
      /\ \A k \in DOMAIN free' : Disjoint(blk, free'[k])
      /\ \A i \in Fresh \ {ev} : Disjoint(blk, Data[i]) /\ Disjoint(Data[i], blk)
      /\ blk \in Blocks /\ Inside(blk)
  BY <1>2, <1>4, <1>5, <1>6, TakeKeeps
<1> HIDE DEF blk
<1>8. \A j \in Slots : s_c[j] \in Entries
  BY DEF Types
<1>9. /\ s_c'[ev].idx = a /\ s_c'[ev].data = blk /\ s_c'[ev].lu = Times(ev, later)[ev]
      /\ \A j \in Slots \ {ev} : /\ s_c'[j].idx = s_c[j].idx /\ s_c'[j].data = s_c[j].data
                                 /\ s_c'[j].lu = Times(ev, later)[j]
  BY <1>1, <1>2, <1>8 DEF Entries
<1>10. /\ Order' /\ since' \in [Slots -> SUBSET Slots] /\ \A j \in Slots : j \notin since'[j]
       /\ \A j \in Slots : s_c'[j].lu \in 0 .. CacheN
  BY <1>1, <1>2, <1>9, UseKeeps
<1>11. s_c' \in [Slots -> Entries]
  <2>1. \A j \in Slots : Times(ev, later)[j] \in 0 .. CacheN
    BY <1>9, <1>10
  <2>2. \A j \in Slots : /\ [s_c[j] EXCEPT !.lu = Times(ev, later)[j]] \in Entries
                         /\ [idx |-> a, data |-> blk, lu |-> Times(ev, later)[j]] \in Entries
    BY <1>7, <1>8, <2>1 DEF Entries
  <2> QED BY <1>2, <2>2
<1>12. Types'
  BY <1>2, <1>7, <1>9, <1>10, <1>11 DEF Types
<1>13. /\ Fresh' \in SUBSET ((Fresh \ {ev}) \cup {ev})
       /\ Data'[ev] = blk /\ \A j \in Fresh \ {ev} : Data'[j] = Data[j]
  BY <1>1, <1>2, <1>9 DEF Fresh, Data
<1>14. Owned(free', Fresh', Data')
  BY <1>7, <1>13, OneMore
<1>15. Fits'
  BY <1>2, <1>9, <1>13 DEF Fits, Fresh, Blocks, blk, n
<1>16. Prefix'
  <2>1. a # NULL
    BY AssetAssumption
  <2>2. \A j \in Slots : Valid(j)' <=> j = ev \/ Valid(j)
    BY <1>9, <2>1 DEF Valid
  <2> QED BY <1>1, <2>2 DEF Prefix
<1> QED BY <1>2, <1>10, <1>12, <1>14, <1>15, <1>16

\* A lookup that finds no memory.
LEMMA FailKeeps == ASSUME AssetInv, NEW a \in Assets, Fail(a) PROVE AssetInv'
<1> USE DEF AssetInv
<1> DEFINE ev == Victim
<1>1. ev \in Slots \ stale
  BY VictimIs DEF Fail
<1>2. /\ free' = Released(ev) /\ UNCHANGED <<s_c, since, broken>>
      /\ stale' = IF s_c[ev].data = NULL THEN stale ELSE stale \cup {ev}
  BY DEF Fail
<1> HIDE DEF ev
<1>3. /\ free' \in Seq(Blocks) /\ \A k \in DOMAIN free' : Inside(free'[k])
      /\ Owned(free', Fresh \ {ev}, Data)
  BY <1>1, <1>2, ReleasedKeeps
<1>4. Fresh' = Fresh \ {ev} /\ Data' = Data
  BY <1>1, <1>2 DEF Fresh, Data
<1>5. Types'
  BY <1>1, <1>2, <1>3 DEF Types
<1>6. Fits' /\ Prefix' /\ Order'
  BY <1>2, <1>4 DEF Fits, Prefix, Order, Valid
<1> QED BY <1>2, <1>3, <1>4, <1>5, <1>6

-----------------------------------------------------------------------------
(* Theorems.                                                               *)

\* All the memory is in one free block.
LEMMA AssetStart == ASSUME Init PROVE AssetInv
<1> USE DEF Init
<1>1. [at |-> 0, n |-> Units] \in Blocks /\ Inside([at |-> 0, n |-> Units])
  BY AssetAssumption DEF Blocks, Inside
<1>2. free \in Seq(Blocks) /\ Len(free) = 1 /\ DOMAIN free = 1 .. 1 /\ free[1] = [at |-> 0, n |-> Units]
  BY <1>1
<1>3. s_c \in [Slots -> Entries]
  BY AssetAssumption DEF Entries
<1>4. Fresh = {}
  BY DEF Fresh
<1>5. Types
  <2>1. \A k \in DOMAIN free : Inside(free[k])
    BY <1>1, <1>2
  <2>2. \A i \in Slots : s_c[i].data = NULL
    OBVIOUS
  <2>3. since \in [Slots -> SUBSET Slots] /\ \A i \in Slots : i \notin since[i]
    OBVIOUS
  <2> QED BY <1>2, <1>3, <2>1, <2>2, <2>3 DEF Types
<1>6. Owned(free, Fresh, Data)
  BY <1>2, <1>4 DEF Owned
<1>7. Fits /\ Prefix /\ Order
  BY <1>4 DEF Fits, Prefix, Order, Valid
<1> QED BY <1>5, <1>6, <1>7 DEF AssetInv

\* Every step keeps the invariant.
LEMMA AssetStep == ASSUME AssetInv, [Next]_vars PROVE AssetInv'
<1>1. CASE UNCHANGED vars
  BY <1>1 DEF AssetInv, vars, Types, Owned, Fresh, Data, Fits, Prefix, Order, Valid
<1>2. ASSUME NEW a \in Assets, FreeAgain(a) PROVE AssetInv'
  <2>1. stale # {} /\ broken' = TRUE /\ UNCHANGED <<free, s_c, stale, since>>
    BY <1>2 DEF FreeAgain
  <2>2. Types' /\ Owned(free, Fresh, Data)'
    BY <2>1 DEF AssetInv, Types, Owned, Fresh, Data
  <2>3. Fits' /\ Prefix' /\ Order'
    BY <2>1 DEF AssetInv, Fits, Fresh, Prefix, Order, Valid
  <2> QED BY <2>1, <2>2, <2>3 DEF AssetInv
<1>3. ASSUME NEW a \in Assets, Hit(a) \/ Miss(a) \/ Fail(a) PROVE AssetInv'
  BY <1>3, HitKeeps, MissKeeps, FailKeeps
<1> QED BY <1>1, <1>2, <1>3 DEF Next

\* The invariant holds throughout.
THEOREM AssetInductive == Spec => []AssetInv
<1>1. Init => AssetInv
  BY AssetStart
<1>2. AssetInv /\ [Next]_vars => AssetInv'
  BY AssetStep
<1> QED BY <1>1, <1>2, PTL DEF Spec

\* Types; asset_load fills the slots from the first one on.
THEOREM AssetTypes == Spec => []TypeOK
<1>1. AssetInv => TypeOK
  <2> SUFFICES ASSUME AssetInv PROVE TypeOK
    OBVIOUS
  <2>1. \A i \in Slots : since[i] \subseteq Slots \ {i}
    BY DEF AssetInv, Types
  <2> QED BY <2>1 DEF AssetInv, Types, Prefix, Entries, TypeOK
<1> QED BY <1>1, AssetInductive, PTL

\* Whatever k_psram_alloc splits and k_psram_free gives back, no unit of the PSRAM has
\* two owners before asset_load frees a block twice, and that only after a load
\* without memory.
THEOREM MemoryStaysOwned == Spec => []MemoryOwned
<1>1. AssetInv => MemoryOwned
  <2> SUFFICES ASSUME AssetInv PROVE MemoryOwned
    OBVIOUS
  <2>1. \A i \in Fresh : i \in Slots /\ Data[i] = s_c[i].data
    BY DEF Fresh, Data
  <2> QED BY <2>1 DEF AssetInv, Owned, Disjoint, Fits, MemoryOwned
<1> QED BY <1>1, AssetInductive, PTL

\* asset_load frees the data of a slot, whether it then finds memory or not, only when
\* all the other slots have been used since, or when another was last used in the same ms.
THEOREM RecentKept == Spec => KeepsRecent
<1> DEFINE A == \A i \in Slots \ stale :
                  (Valid(i) /\ (s_c'[i].data # s_c[i].data \/ i \in stale'))
                    => \/ since[i] = Slots \ {i}
                       \/ \E j \in Slots \ {i} : s_c[j].lu = s_c[i].lu
<1>1. AssetInv /\ [Next]_vars => [A]_vars
  <2> SUFFICES ASSUME AssetInv, Next, NEW i \in Slots \ stale, Valid(i),
                      s_c'[i].data # s_c[i].data \/ i \in stale',
                      \A j \in Slots \ {i} : s_c[j].lu # s_c[i].lu
               PROVE  since[i] = Slots \ {i}
    OBVIOUS
  <2>1. \A j \in Slots : s_c[j] \in Entries
    BY DEF AssetInv, Types
  <2>2. i = Victim
    <3>1. PICK a \in Assets : Hit(a) \/ Miss(a) \/ Fail(a) \/ FreeAgain(a)
      BY DEF Next
    <3>2. ~Hit(a)
      <4> SUFFICES ASSUME Hit(a) PROVE FALSE
        OBVIOUS
      <4>1. PICK k \in Slots, later \in {0, 1} :
              /\ s_c' = [j \in Slots |-> [s_c[j] EXCEPT !.lu = HitTimes(k, later)[j]]]
              /\ stale' = stale
        BY DEF Hit, SlotOf
      <4> QED BY <2>1, <4>1 DEF Entries
    <3>3. CASE Miss(a)
      <4>1. stale' = stale /\ \A j \in Slots \ {Victim} : s_c'[j].data = s_c[j].data
        BY <2>1, <3>3 DEF Miss, Entries
      <4> QED BY <4>1
    <3>4. CASE Fail(a)
      <4>1. s_c' = s_c /\ stale' \subseteq stale \cup {Victim}
        BY <3>4 DEF Fail
      <4> QED BY <4>1
    <3> QED BY <3>1, <3>2, <3>3, <3>4 DEF FreeAgain
  <2>3. \A j \in Slots : s_c[i].lu <= s_c[j].lu
    BY <2>2, VictimIs DEF AssetInv
  <2>4. \A j \in Slots \ {i} : s_c[i].lu < s_c[j].lu
    BY <2>1, <2>3, AssetAssumption DEF Entries
  <2>5. \A j \in Slots \ {i} : j \in since[i]
    BY <2>4 DEF AssetInv, Order
  <2> QED BY <2>5 DEF AssetInv, Types
<1> QED BY <1>1, AssetInductive, PTL DEF Spec, KeepsRecent

=============================================================================
