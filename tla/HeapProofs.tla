----------------------------- MODULE HeapProofs -----------------------------
(***************************************************************************)
(* Proofs about Heap for every size of the heap, every division into       *)
(* levels and buckets and all requests: until k_malloc splits a block that *)
(* is too small, the blocks tile the heap, the lists and bitmaps are exact *)
(* and each live block is as large as was asked for.  Since tlsf_map()     *)
(* keeps the order of sizes, find() fails only if nothing is large enough, *)
(* and a block that is too small comes from the class of the request.  The *)
(* counters are the sums of the live and of the free blocks.               *)
(***************************************************************************)
EXTENDS Heap, SequenceTheorems, FiniteSetTheorems, WellFoundedInduction, TLAPS

Classes == Levels \X Buckets

(***************************************************************************)
(* The parts of the invariant, as relations of values.                     *)
(***************************************************************************)
ListsOK(L) ==
  /\ L.at \in [Classes -> Seq(Nat)]
  /\ L.flbmp \in SUBSET Levels
  /\ L.slbmp \in [Levels -> SUBSET Buckets]

\* The bitmaps tell which lists are empty.
BitsExact(L) ==
  /\ \A f \in Levels, s \in Buckets : s \in L.slbmp[f] <=> L.at[<<f, s>>] # <<>>
  /\ \A f \in Levels : f \in L.flbmp <=> L.slbmp[f] # {}

\* The lists hold the blocks of F, by the sizes sz, each once.
Hold(L, sz, F) ==
  /\ \A b \in F : \E k \in 1 .. Len(L.at[Class(sz[b])]) : L.at[Class(sz[b])][k] = b
  /\ \A c \in Classes : \A k \in 1 .. Len(L.at[c]) :
       L.at[c][k] \in F /\ Class(sz[L.at[c][k]]) = c
  /\ \A c \in Classes : \A j, k \in 1 .. Len(L.at[c]) : L.at[c][j] = L.at[c][k] => j = k

Sizes(B) == [B -> 1 .. WORD - 1]

\* The blocks B of sizes sz lie in the heap and tile it.
Tiles(B, sz) ==
  /\ \A b \in B : b + sz[b] <= HEAP_UNITS
  /\ \A u \in 0 .. HEAP_UNITS - 1 : \E b \in B : b <= u /\ u < b + sz[b]
  /\ \A a, b \in B : a < b => a + sz[a] <= b

(***************************************************************************)
(* The lists.                                                              *)
(***************************************************************************)

\* What a list is after its head is taken or a block is put before it.
LEMMA ListFacts ==
  ASSUME NEW q \in Seq(Nat), NEW b \in Nat
  PROVE  /\ <<b>> \o q \in Seq(Nat) /\ Len(<<b>> \o q) = Len(q) + 1
         /\ (<<b>> \o q)[1] = b
         /\ \A k \in 1 .. Len(q) : (<<b>> \o q)[k + 1] = q[k]
         /\ q # <<>> => /\ Tail(q) \in Seq(Nat) /\ Len(Tail(q)) = Len(q) - 1
                        /\ Len(q) >= 1 /\ Head(q) = q[1]
                        /\ \A k \in 1 .. Len(q) - 1 : Tail(q)[k] = q[k + 1]
         /\ q # <<>> <=> Len(q) >= 1
OBVIOUS

LEMMA InsHolds ==
  ASSUME NEW L, ListsOK(L), BitsExact(L),
         NEW B \in SUBSET Nat, NEW F \in SUBSET B, NEW sz \in Sizes(B), Hold(L, sz, F),
         NEW b \in Nat \ F, NEW B2 \in SUBSET Nat, F \cup {b} \subseteq B2,
         NEW sz2 \in Sizes(B2), \A a \in F : sz2[a] = sz[a]
  PROVE  /\ ListsOK(Ins(L, b, sz2[b])) /\ BitsExact(Ins(L, b, sz2[b]))
         /\ Hold(Ins(L, b, sz2[b]), sz2, F \cup {b})
<1> DEFINE n == sz2[b]
           c == Class(n)
           L2 == Ins(L, b, n)
           q  == <<b>> \o L.at[c]
<1>1. n \in 1 .. WORD - 1 /\ c \in Classes
  BY ClassAssumption DEF Sizes, Classes
<1>2. /\ L2.at = [L.at EXCEPT ![c] = q]
      /\ L2.flbmp = L.flbmp \cup {c[1]}
      /\ L2.slbmp = [L.slbmp EXCEPT ![c[1]] = @ \cup {c[2]}]
  BY DEF Ins
<1>3. c = <<c[1], c[2]>> /\ c[1] \in Levels /\ c[2] \in Buckets
  BY <1>1 DEF Classes
<1> HIDE DEF c, n, L2
<1>4. L.at[c] \in Seq(Nat)
  BY <1>1 DEF ListsOK
<1>5. /\ q \in Seq(Nat) /\ Len(q) = Len(L.at[c]) + 1 /\ q[1] = b /\ q # <<>>
      /\ \A k \in 1 .. Len(L.at[c]) : q[k + 1] = L.at[c][k]
  BY <1>4, ListFacts
<1> HIDE DEF q
<1>6. /\ L2.at[c] = q
      /\ \A d \in Classes : d # c => L2.at[d] = L.at[d]
  BY <1>1, <1>2 DEF ListsOK
<1>7. ListsOK(L2)
  BY <1>1, <1>2, <1>3, <1>5 DEF ListsOK
<1>8. BitsExact(L2)
  <2>1. \A f \in Levels, s \in Buckets : s \in L2.slbmp[f] <=> L2.at[<<f, s>>] # <<>>
    <3> SUFFICES ASSUME NEW f \in Levels, NEW s \in Buckets
                 PROVE  s \in L2.slbmp[f] <=> L2.at[<<f, s>>] # <<>>
      OBVIOUS
    <3>1. CASE <<f, s>> = c
      <4>1. f = c[1] /\ s = c[2]
        BY <3>1
      <4>2. L2.slbmp[c[1]] = L.slbmp[c[1]] \cup {c[2]}
        BY <1>2, <1>3 DEF ListsOK
      <4>3. L2.at[<<f, s>>] # <<>>
        BY <1>5, <1>6, <3>1
      <4> QED
        BY <4>1, <4>2, <4>3
    <3>2. CASE <<f, s>> # c
      <4>1. <<f, s>> \in Classes /\ L2.at[<<f, s>>] = L.at[<<f, s>>]
        BY <1>6, <3>2 DEF Classes
      <4>2. s \in L2.slbmp[f] <=> s \in L.slbmp[f]
        BY <1>2, <1>3, <3>2 DEF ListsOK
      <4> QED
        BY <4>1, <4>2 DEF BitsExact
    <3> QED
      BY <3>1, <3>2
  <2>2. \A f \in Levels : f \in L2.flbmp <=> L2.slbmp[f] # {}
    BY <1>2, <1>3 DEF ListsOK, BitsExact
  <2> QED
    BY <2>1, <2>2 DEF BitsExact
<1>9. Hold(L2, sz2, F \cup {b})
  <2>1. \A a \in F \cup {b} :
          \E k \in 1 .. Len(L2.at[Class(sz2[a])]) : L2.at[Class(sz2[a])][k] = a
    <3>1. \E k \in 1 .. Len(L2.at[Class(sz2[b])]) : L2.at[Class(sz2[b])][k] = b
      <4>1. 1 \in 1 .. Len(q)
        BY <1>4, <1>5
      <4> QED
        BY <4>1, <1>5, <1>6 DEF c, n
    <3>2. ASSUME NEW a \in F
          PROVE  \E k \in 1 .. Len(L2.at[Class(sz2[a])]) : L2.at[Class(sz2[a])][k] = a
      <4> DEFINE d == Class(sz2[a])
      <4>1. d \in Classes /\ d = Class(sz[a])
        BY ClassAssumption DEF Sizes, Classes
      <4> HIDE DEF d
      <4>2. PICK k \in 1 .. Len(L.at[d]) : L.at[d][k] = a
        BY <4>1 DEF Hold
      <4>3. CASE d = c
        <5>1. k \in 1 .. Len(L.at[c]) /\ L.at[c][k] = a /\ Len(L.at[c]) \in Nat
          BY <1>4, <4>2, <4>3
        <5>2. q[k + 1] = a
          BY <1>5, <5>1
        <5>3. k + 1 \in 1 .. Len(q)
          BY <1>5, <5>1
        <5> QED
          BY <1>6, <4>3, <5>2, <5>3 DEF d
      <4>4. CASE d # c
        BY <1>6, <4>1, <4>2, <4>4 DEF d
      <4> QED
        BY <4>3, <4>4
    <3> QED
      BY <3>1, <3>2
  <2>2. \A d \in Classes : \A k \in 1 .. Len(L2.at[d]) :
          L2.at[d][k] \in F \cup {b} /\ Class(sz2[L2.at[d][k]]) = d
    <3> SUFFICES ASSUME NEW d \in Classes, NEW k \in 1 .. Len(L2.at[d])
                 PROVE  L2.at[d][k] \in F \cup {b} /\ Class(sz2[L2.at[d][k]]) = d
      OBVIOUS
    <3>1. \A j \in 1 .. Len(L.at[d]) : /\ L.at[d][j] \in F
                                      /\ Class(sz2[L.at[d][j]]) = d
      BY DEF Hold
    <3>2. CASE d # c
      BY <1>6, <3>1, <3>2
    <3>3. CASE d = c /\ k = 1
      BY <1>5, <1>6, <3>3 DEF c, n
    <3>4. CASE d = c /\ k # 1
      <4>1. k - 1 \in 1 .. Len(L.at[c]) /\ (k - 1) + 1 = k
        BY <1>4, <1>5, <1>6, <3>4
      <4>2. L2.at[d][k] = L.at[c][k - 1]
        BY <1>5, <1>6, <3>4, <4>1
      <4> QED
        BY <3>1, <3>4, <4>1, <4>2
    <3> QED
      BY <3>2, <3>3, <3>4
  <2>3. \A d \in Classes : \A j, k \in 1 .. Len(L2.at[d]) :
          L2.at[d][j] = L2.at[d][k] => j = k
    <3> SUFFICES ASSUME NEW d \in Classes, NEW j \in 1 .. Len(L2.at[d]),
                        NEW k \in 1 .. Len(L2.at[d]), L2.at[d][j] = L2.at[d][k]
                 PROVE  j = k
      OBVIOUS
    <3>1. CASE d # c
      BY <1>6, <3>1 DEF Hold
    <3>2. CASE d = c
      <4>1. j \in 1 .. Len(L.at[c]) + 1 /\ k \in 1 .. Len(L.at[c]) + 1 /\ q[j] = q[k]
        BY <1>5, <1>6, <3>2
      <4>2. \A i \in 1 .. Len(L.at[c]) + 1 : i # 1 =>
              i - 1 \in 1 .. Len(L.at[c]) /\ q[i] = L.at[c][i - 1]
        <5> SUFFICES ASSUME NEW i \in 1 .. Len(L.at[c]) + 1, i # 1
                     PROVE  i - 1 \in 1 .. Len(L.at[c]) /\ q[i] = L.at[c][i - 1]
          OBVIOUS
        <5>1. Len(L.at[c]) \in Nat
          BY <1>4
        <5>2. i - 1 \in 1 .. Len(L.at[c]) /\ (i - 1) + 1 = i
          BY <5>1
        <5>3. q[(i - 1) + 1] = L.at[c][i - 1]
          BY <1>5, <5>2
        <5> QED
          BY <5>2, <5>3
      <4>3. \A i \in 1 .. Len(L.at[c]) : L.at[c][i] # b
        BY <1>1 DEF Hold
      <4>4. \A i, m \in 1 .. Len(L.at[c]) : L.at[c][i] = L.at[c][m] => i = m
        BY <1>1 DEF Hold
      <4>5. j = 1 <=> k = 1
        <5>1. ASSUME NEW i \in 1 .. Len(L.at[c]) + 1, i # 1 PROVE q[i] # q[1]
          <6>1. q[i] = L.at[c][i - 1] /\ i - 1 \in 1 .. Len(L.at[c])
            BY <4>2, <5>1
          <6> QED
            BY <1>5, <4>3, <6>1
        <5> QED
          BY <4>1, <5>1
      <4>6. CASE j # 1
        <5>1. j - 1 = k - 1
          BY ZenonT(60), <4>1, <4>2, <4>4, <4>5, <4>6
        <5> QED
          BY <1>4, <4>1, <5>1
      <4> QED
        BY <4>5, <4>6
    <3> QED
      BY <3>1, <3>2
  <2> QED
    BY <2>1, <2>2, <2>3 DEF Hold
<1> QED
  BY <1>7, <1>8, <1>9 DEF L2, n

LEMMA RemHolds ==
  ASSUME NEW L, ListsOK(L), BitsExact(L),
         NEW B \in SUBSET Nat, NEW F \in SUBSET B, NEW sz \in Sizes(B), Hold(L, sz, F),
         NEW n \in 1 .. WORD - 1, L.at[Class(n)] # <<>>
  PROVE  /\ ListsOK(Rem(L, n)) /\ BitsExact(Rem(L, n))
         /\ Hold(Rem(L, n), sz, F \ {Head(L.at[Class(n)])})
         /\ Head(L.at[Class(n)]) \in F
         /\ Class(sz[Head(L.at[Class(n)])]) = Class(n)
<1> DEFINE c    == Class(n)
           b    == Head(L.at[c])
           p    == L.at[c]
           q    == Tail(L.at[c])
           left == IF q = <<>> THEN L.slbmp[c[1]] \ {c[2]} ELSE L.slbmp[c[1]]
           L2   == Rem(L, n)
<1>1. c \in Classes
  BY ClassAssumption DEF Classes
<1>2. /\ L2.at = [L.at EXCEPT ![c] = q]
      /\ L2.flbmp = IF left = {} THEN L.flbmp \ {c[1]} ELSE L.flbmp
      /\ L2.slbmp = [L.slbmp EXCEPT ![c[1]] = left]
  BY DEF Rem
<1>3. c = <<c[1], c[2]>> /\ c[1] \in Levels /\ c[2] \in Buckets
  BY <1>1 DEF Classes
<1>4. p \in Seq(Nat) /\ p # <<>> /\ p = L.at[c]
  BY <1>1 DEF ListsOK
<1>5. left = IF q = <<>> THEN L.slbmp[c[1]] \ {c[2]} ELSE L.slbmp[c[1]]
  OBVIOUS
<1>4a. b = Head(p) /\ q = Tail(p)
  OBVIOUS
<1> HIDE DEF c, L2, left, q, p, b
<1>6. /\ q \in Seq(Nat) /\ Len(q) = Len(p) - 1 /\ b = p[1] /\ Len(p) >= 1
      /\ \A k \in 1 .. Len(p) - 1 : q[k] = p[k + 1]
      /\ Len(p) \in Nat
      /\ q # <<>> <=> Len(q) >= 1
  <2>1. /\ Tail(p) \in Seq(Nat) /\ Len(Tail(p)) = Len(p) - 1
        /\ Len(p) >= 1 /\ Head(p) = p[1]
        /\ \A k \in 1 .. Len(p) - 1 : Tail(p)[k] = p[k + 1]
    <3>1. 0 \in Nat
      OBVIOUS
    <3> QED
      BY <1>4, <3>1, ListFacts
  <2>2. Tail(p) # <<>> <=> Len(Tail(p)) >= 1
    <3>1. 0 \in Nat
      OBVIOUS
    <3> QED
      BY <2>1, <3>1, ListFacts
  <2>3. Len(p) \in Nat
    BY <1>4
  <2> QED
    BY <1>4a, <2>1, <2>2, <2>3
<1>7. /\ L2.at[c] = q
      /\ \A d \in Classes : d # c => L2.at[d] = L.at[d]
  BY <1>1, <1>2 DEF ListsOK
<1>8. left \in SUBSET Buckets
  BY <1>3, <1>5 DEF ListsOK
<1>9. ListsOK(L2)
  BY <1>1, <1>2, <1>3, <1>6, <1>8 DEF ListsOK
<1>10. L2.slbmp[c[1]] = left /\ \A f \in Levels : f # c[1] => L2.slbmp[f] = L.slbmp[f]
  BY <1>2, <1>3 DEF ListsOK
<1>11. BitsExact(L2)
  <2>1. \A f \in Levels, s \in Buckets : s \in L2.slbmp[f] <=> L2.at[<<f, s>>] # <<>>
    <3> SUFFICES ASSUME NEW f \in Levels, NEW s \in Buckets
                 PROVE  s \in L2.slbmp[f] <=> L2.at[<<f, s>>] # <<>>
      OBVIOUS
    <3>1. CASE <<f, s>> = c
      <4>1. f = c[1] /\ s = c[2]
        BY <3>1
      <4>2. c[2] \in L.slbmp[c[1]]
        BY <1>3, <1>4 DEF BitsExact
      <4>3. s \in L2.slbmp[f] <=> q # <<>>
        BY <1>5, <1>10, <4>1, <4>2
      <4> QED
        BY <1>7, <3>1, <4>3
    <3>2. CASE <<f, s>> # c
      <4>1. <<f, s>> \in Classes /\ L2.at[<<f, s>>] = L.at[<<f, s>>]
        BY <1>7, <3>2 DEF Classes
      <4>2. f = c[1] => s # c[2]
        BY <1>3, <3>2
      <4>3. s \in L2.slbmp[f] <=> s \in L.slbmp[f]
        BY <1>5, <1>10, <4>2
      <4> QED
        BY <4>1, <4>3 DEF BitsExact
    <3> QED
      BY <3>1, <3>2
  <2>2. \A f \in Levels : f \in L2.flbmp <=> L2.slbmp[f] # {}
    <3> SUFFICES ASSUME NEW f \in Levels
                 PROVE  f \in L2.flbmp <=> L2.slbmp[f] # {}
      OBVIOUS
    <3>1. CASE f = c[1]
      <4>1. c[1] \in L.flbmp
        BY <1>3, <1>4 DEF BitsExact
      <4> QED
        BY <1>2, <1>10, <3>1, <4>1
    <3>2. CASE f # c[1]
      <4>1. f \in L2.flbmp <=> f \in L.flbmp
        BY <1>2, <3>2
      <4> QED
        BY <1>10, <3>2, <4>1 DEF BitsExact
    <3> QED
      BY <3>1, <3>2
  <2> QED
    BY <2>1, <2>2 DEF BitsExact
<1>12. /\ \A k \in 1 .. Len(p) : p[k] \in F /\ Class(sz[p[k]]) = c
       /\ \A j, k \in 1 .. Len(p) : p[j] = p[k] => j = k
  BY <1>1, <1>4 DEF Hold
<1>13. b \in F /\ Class(sz[b]) = c
  BY <1>6, <1>12
<1>14. \A k \in 1 .. Len(q) : k + 1 \in 1 .. Len(p) /\ k + 1 # 1 /\ q[k] = p[k + 1]
  BY <1>6
<1>15. Hold(L2, sz, F \ {b})
  <2>1. \A a \in F \ {b} :
          \E k \in 1 .. Len(L2.at[Class(sz[a])]) : L2.at[Class(sz[a])][k] = a
    <3> SUFFICES ASSUME NEW a \in F, a # b
                 PROVE  \E k \in 1 .. Len(L2.at[Class(sz[a])]) : L2.at[Class(sz[a])][k] = a
      OBVIOUS
    <3> DEFINE d == Class(sz[a])
    <3>1. d \in Classes
      BY ClassAssumption DEF Sizes, Classes
    <3>2. PICK k \in 1 .. Len(L.at[d]) : L.at[d][k] = a
      BY DEF Hold
    <3> HIDE DEF d
    <3>3. CASE d = c
      <4>1. k \in 1 .. Len(p) /\ p[k] = a /\ k # 1
        BY <1>4, <1>6, <3>2, <3>3
      <4>2. k - 1 \in 1 .. Len(p) - 1 /\ (k - 1) + 1 = k
        BY <1>6, <4>1
      <4>3. q[k - 1] = a
        BY <1>6, <4>1, <4>2
      <4>4. k - 1 \in 1 .. Len(q)
        BY <1>6, <4>2
      <4> QED
        BY <1>7, <3>3, <4>3, <4>4 DEF d
    <3>4. CASE d # c
      BY <1>7, <3>1, <3>2, <3>4 DEF d
    <3> QED
      BY <3>3, <3>4
  <2>2. \A d \in Classes : \A k \in 1 .. Len(L2.at[d]) :
          L2.at[d][k] \in F \ {b} /\ Class(sz[L2.at[d][k]]) = d
    <3> SUFFICES ASSUME NEW d \in Classes, NEW k \in 1 .. Len(L2.at[d])
                 PROVE  L2.at[d][k] \in F \ {b} /\ Class(sz[L2.at[d][k]]) = d
      OBVIOUS
    <3>1. CASE d # c
      <4>1. L2.at[d] = L.at[d]
        BY <1>7, <3>1
      <4>2. L.at[d][k] \in F /\ Class(sz[L.at[d][k]]) = d
        BY <4>1 DEF Hold
      <4> QED
        BY <1>13, <3>1, <4>1, <4>2
    <3>2. CASE d = c
      <4>1. k \in 1 .. Len(q) /\ L2.at[d][k] = q[k]
        BY <1>7, <3>2
      <4>2. 1 \in 1 .. Len(p)
        BY <1>6
      <4>3. q[k] # b
        BY <1>6, <1>12, <1>14, <4>1, <4>2
      <4>4. q[k] \in F /\ Class(sz[q[k]]) = c
        BY <1>12, <1>14, <4>1
      <4> QED
        BY <3>2, <4>1, <4>3, <4>4
    <3> QED
      BY <3>1, <3>2
  <2>3. \A d \in Classes : \A j, k \in 1 .. Len(L2.at[d]) :
          L2.at[d][j] = L2.at[d][k] => j = k
    <3> SUFFICES ASSUME NEW d \in Classes, NEW j \in 1 .. Len(L2.at[d]),
                        NEW k \in 1 .. Len(L2.at[d]), L2.at[d][j] = L2.at[d][k]
                 PROVE  j = k
      OBVIOUS
    <3>1. CASE d # c
      BY <1>7, <3>1 DEF Hold
    <3>2. CASE d = c
      <4>1. j \in 1 .. Len(q) /\ k \in 1 .. Len(q) /\ q[j] = q[k]
        BY <1>7, <3>2
      <4>2. j + 1 = k + 1
        BY <1>12, <1>14, <4>1
      <4> QED
        BY <1>6, <4>1, <4>2
    <3> QED
      BY <3>1, <3>2
  <2> QED
    BY <2>1, <2>2, <2>3 DEF Hold
<1> QED
  BY <1>9, <1>11, <1>13, <1>15 DEF L2, c, b

\* The head of a list that is not empty is a block of F of the size of the list.
LEMMA HeadIsFree ==
  ASSUME NEW L, ListsOK(L), NEW sz, NEW F, Hold(L, sz, F),
         NEW c \in Classes, L.at[c] # <<>>
  PROVE  Head(L.at[c]) \in F /\ Class(sz[Head(L.at[c])]) = c
<1>1. L.at[c] \in Seq(Nat)
  BY DEF ListsOK
<1>2. 0 \in Nat
  OBVIOUS
<1>3. Head(L.at[c]) = L.at[c][1] /\ 1 \in 1 .. Len(L.at[c])
  BY <1>1, <1>2, ListFacts
<1> QED
  BY <1>3 DEF Hold

(***************************************************************************)
(* The tiling.                                                             *)
(***************************************************************************)

\* A block that is cut in two leaves a tiling.
LEMMA SplitTile ==
  ASSUME NEW B \in SUBSET Nat, NEW sz \in Sizes(B), Tiles(B, sz),
         NEW b \in B, NEW n \in Nat \ {0}, n < sz[b],
         NEW e \in Nat, e = b + n,
         NEW sz2 \in Sizes(B \cup {e}), sz2[b] = n, sz2[e] = sz[b] - n,
         \A a \in B : a # b /\ a # e => sz2[a] = sz[a]
  PROVE  e \notin B /\ Tiles(B \cup {e}, sz2)
<1> USE HeapAssumption
<1>1. \A a \in B : a \in Nat /\ sz[a] \in Nat /\ sz[a] >= 1
  BY DEF Sizes
<1>2. e \notin B
  BY <1>1 DEF Tiles
<1>3. \A a \in B : a # b => sz2[a] = sz[a]
  BY <1>2
<1>4. \A a \in B \cup {e} : a + sz2[a] <= HEAP_UNITS
  <2>1. \A a \in B : a + sz[a] <= HEAP_UNITS
    BY DEF Tiles
  <2>2. b + sz2[b] <= HEAP_UNITS /\ e + sz2[e] <= HEAP_UNITS
    BY <1>1, <2>1
  <2>3. ASSUME NEW a \in B, a # b PROVE a + sz2[a] <= HEAP_UNITS
    BY <1>3, <2>1, <2>3
  <2> QED
    BY <2>2, <2>3
<1>5. \A u \in 0 .. HEAP_UNITS - 1 : \E a \in B \cup {e} : a <= u /\ u < a + sz2[a]
  <2> SUFFICES ASSUME NEW u \in 0 .. HEAP_UNITS - 1
               PROVE  \E a \in B \cup {e} : a <= u /\ u < a + sz2[a]
    OBVIOUS
  <2>1. PICK a \in B : a <= u /\ u < a + sz[a]
    BY DEF Tiles
  <2>2. CASE a # b
    BY <1>3, <2>1, <2>2
  <2>3. CASE a = b /\ u < e
    BY <2>1, <2>3
  <2>4. CASE a = b /\ u >= e
    <3>1. u < e + sz2[e]
      BY <1>1, <2>1, <2>4
    <3> QED
      BY <2>4, <3>1
  <2> QED
    BY <1>1, <2>2, <2>3, <2>4
<1>6. \A a, d \in B \cup {e} : a < d => a + sz2[a] <= d
  <2> SUFFICES ASSUME NEW a \in B \cup {e}, NEW d \in B \cup {e}, a < d
               PROVE  a + sz2[a] <= d
    OBVIOUS
  <2>1. CASE a \in B /\ d \in B
    <3>1. a + sz[a] <= d
      BY <2>1 DEF Tiles
    <3> QED
      BY <1>1, <1>3, <2>1, <3>1
  <2>2. CASE a \in B /\ d = e
    <3>1. CASE a = b
      BY <2>2, <3>1, <1>1
    <3>2. CASE a # b
      <4>1. a < b
        <5>1. ~(b < a)
          <6> SUFFICES ASSUME b < a PROVE FALSE
            OBVIOUS
          <6>1. b + sz[b] <= a
            BY <2>2 DEF Tiles
          <6> QED
            BY <1>1, <2>2, <6>1
        <5> QED
          BY <1>1, <2>2, <3>2, <5>1
      <4>2. a + sz[a] <= b
        BY <2>2, <4>1 DEF Tiles
      <4> QED
        BY <1>1, <1>3, <2>2, <3>2, <4>2
    <3> QED
      BY <3>1, <3>2
  <2>3. CASE a = e /\ d \in B
    <3>1. b < d
      BY <1>1, <2>3
    <3>2. b + sz[b] <= d
      BY <2>3, <3>1 DEF Tiles
    <3> QED
      BY <1>1, <2>3, <3>2
  <2>4. CASE a = e /\ d = e
    BY <1>1, <2>4
  <2> QED
    BY <2>1, <2>2, <2>3, <2>4
<1> QED
  BY <1>2, <1>4, <1>5, <1>6 DEF Tiles

(***************************************************************************)
(* The inductive invariant.                                                *)
(***************************************************************************)
Sound(B, sz, L, A) ==
  /\ B \in SUBSET Nat /\ sz \in Sizes(B)
  /\ DOMAIN A \in SUBSET B /\ A \in [DOMAIN A -> Requests]
  /\ ListsOK(L)
  /\ Tiles(B, sz)
  /\ BitsExact(L)
  /\ Hold(L, sz, B \ DOMAIN A)
  /\ \A b \in DOMAIN A : sz[b] \in A[b] .. A[b] + 1

HeapInv == Intact => Sound(Blocks, size, lists, asked)

\* What k_malloc computes as a difference, for a block that is large enough and for
\* one that is too small.
LEMMA Difference ==
  ASSUME NEW s \in 1 .. WORD - 1, NEW n \in 1 .. WORD - 1
  PROVE  /\ s >= n => (s - n) % WORD = s - n
         /\ s < n => (s - n) % WORD = s - n + WORD
<1>1. WORD \in Nat /\ WORD > 1
  BY HeapAssumption
<1>2. \A a \in 0 .. WORD - 1 : a % WORD = a
  BY <1>1
<1>3. \A a \in Int : a < 0 /\ a + WORD > 0 => a % WORD = a + WORD
  BY <1>1
<1> QED
  BY <1>1, <1>2, <1>3

LEMMA SoundInit == Init => HeapInv
<1> SUFFICES ASSUME Init PROVE HeapInv
  OBVIOUS
<1> DEFINE none == [x \in {} |-> 1]
           L0   == EmptyLists
           sz0  == [b \in {0} |-> HEAP_UNITS]
<1>1. none \in Sizes({})
  BY DEF Sizes
<1>2. ListsOK(L0) /\ BitsExact(L0)
  <2>1. <<>> \in Seq(Nat)
    OBVIOUS
  <2> QED
    BY <2>1 DEF EmptyLists, ListsOK, BitsExact, Classes
<1>3. Hold(L0, none, {})
  <2>1. \A c \in Classes : L0.at[c] = <<>>
    BY DEF EmptyLists, Classes
  <2>2. \A c \in Classes : 1 .. Len(L0.at[c]) = {}
    BY <2>1
  <2> HIDE DEF L0, none
  <2> QED
    BY <2>2 DEF Hold
<1>4. sz0 \in Sizes({0}) /\ sz0[0] = HEAP_UNITS /\ {0} \in SUBSET Nat
  BY HeapAssumption DEF Sizes
<1>5. size = sz0 /\ lists = Ins(L0, 0, HEAP_UNITS) /\ asked = <<>>
  BY DEF Init
<1>6. Tiles({0}, sz0)
  BY HeapAssumption, <1>4 DEF Tiles
<1> HIDE DEF none, L0, sz0
<1>7. ListsOK(Ins(L0, 0, sz0[0])) /\ BitsExact(Ins(L0, 0, sz0[0]))
      /\ Hold(Ins(L0, 0, sz0[0]), sz0, {} \cup {0})
  <2>1. 0 \in Nat \ {} /\ {} \in SUBSET Nat /\ {} \in SUBSET {} /\ {} \cup {0} \subseteq {0}
    OBVIOUS
  <2> QED
    BY <1>1, <1>2, <1>3, <1>4, <2>1, InsHolds
<1>8. DOMAIN asked = {} /\ asked \in [{} -> Requests]
  BY <1>5
<1>9. Blocks = {0}
  BY <1>5 DEF Blocks, sz0
<1>10. {} \cup {0} = {0} \ {}
  OBVIOUS
<1> QED
  BY <1>4, <1>5, <1>6, <1>7, <1>8, <1>9, <1>10 DEF HeapInv, Sound

LEMMA SoundFree ==
  ASSUME HeapInv, NEW b \in Live, Free(b)
  PROVE  HeapInv'
<1> DEFINE F == Blocks \ Live
           lists2 == lists'
           asked2 == asked'
<1>1. Intact /\ lists' = Ins(lists, b, size[b]) /\ asked' = [a \in Live \ {b} |-> asked[a]]
      /\ size' = size
  BY DEF Free
<1>2. Sound(Blocks, size, lists, asked)
  BY <1>1 DEF HeapInv
<1>3. /\ Blocks \in SUBSET Nat /\ size \in Sizes(Blocks) /\ Live \in SUBSET Blocks
      /\ asked \in [Live -> Requests] /\ ListsOK(lists) /\ Tiles(Blocks, size)
      /\ BitsExact(lists) /\ Hold(lists, size, F)
      /\ \A a \in Live : size[a] \in asked[a] .. asked[a] + 1
  BY <1>2 DEF Sound, Live
<1>4. F \in SUBSET Blocks /\ b \in Nat \ F /\ F \cup {b} \subseteq Blocks
  BY <1>3
<1>5. ListsOK(lists2) /\ BitsExact(lists2) /\ Hold(lists2, size, F \cup {b})
  <2> HIDE DEF F
  <2>1. \A a \in F : size[a] = size[a]
    OBVIOUS
  <2> QED
    BY <1>1, <1>3, <1>4, <2>1, InsHolds
<1>6. DOMAIN asked2 = Live \ {b} /\ asked2 \in [Live \ {b} -> Requests]
      /\ \A a \in Live \ {b} : asked2[a] = asked[a]
  BY <1>1, <1>3
<1>7. Blocks \ (Live \ {b}) = F \cup {b}
  BY <1>3
<1> HIDE DEF lists2, asked2, F
<1>8. Sound(Blocks, size, lists2, asked2)
  BY <1>3, <1>5, <1>6, <1>7 DEF Sound
<1>9. Blocks' = Blocks
  BY <1>1 DEF Blocks
<1> QED
  BY <1>1, <1>8, <1>9 DEF HeapInv, lists2, asked2

LEMMA SoundTake ==
  ASSUME HeapInv, Intact, NEW n \in Requests, NEW c \in Classes, lists.at[c] # <<>>,
         TakeFrom(c, n)
  PROVE  HeapInv'
<1> DEFINE F      == Blocks \ Live
           size2  == size'
           lists2 == lists'
           asked2 == asked'
           b      == Head(lists.at[c])
           s      == size[b]
           r      == (s - n) % WORD
           rest   == b + n
           taken  == Rem(lists, s)
<1>1. /\ r >= 2 => /\ size2 = [a \in Blocks \cup {rest} |->
                                 CASE a = rest -> r [] a = b -> n [] OTHER -> size[a]]
                   /\ lists2 = Ins(taken, rest, r)
      /\ ~(r >= 2) => size2 = [size EXCEPT ![b] = s] /\ lists2 = taken
      /\ asked2 = [a \in Live \cup {b} |-> IF a = b THEN n ELSE asked[a]]
  BY DEF TakeFrom, Splits, Given
<1>2. Sound(Blocks, size, lists, asked)
  BY DEF HeapInv
<1>3. /\ Blocks \in SUBSET Nat /\ size \in Sizes(Blocks) /\ Live \in SUBSET Blocks
      /\ asked \in [Live -> Requests] /\ ListsOK(lists) /\ Tiles(Blocks, size)
      /\ BitsExact(lists) /\ Hold(lists, size, F)
      /\ \A a \in Live : size[a] \in asked[a] .. asked[a] + 1
  BY <1>2 DEF Sound, Live
<1>4. b \in F /\ Class(s) = c
  BY <1>3, HeadIsFree
<1>5. s \in 1 .. WORD - 1 /\ n \in 1 .. WORD - 1 /\ b \in Nat /\ b \in Blocks /\ b \notin Live
  BY <1>3, <1>4, HeapAssumption DEF Sizes
<1>6. /\ ListsOK(taken) /\ BitsExact(taken) /\ Hold(taken, size, F \ {b})
  <2>1. lists.at[Class(s)] # <<>> /\ Head(lists.at[Class(s)]) = b
    BY <1>4
  <2>2. F \in SUBSET Blocks
    OBVIOUS
  <2> HIDE DEF F, b, s, r, rest, taken
  <2> QED
    BY <1>3, <1>5, <2>1, <2>2, RemHolds DEF taken
<1>7. DOMAIN asked2 = Live \cup {b} /\ asked2 \in [Live \cup {b} -> Requests]
      /\ asked2[b] = n /\ \A a \in Live : asked2[a] = asked[a]
  <2> HIDE DEF b, asked2
  <2> QED
    BY <1>1, <1>3, <1>5
<1>8. /\ s >= n => r = s - n
      /\ s < n => r = s - n + WORD
  <2> HIDE DEF s
  <2> QED
    BY <1>5, Difference
<1>9. rest \in Nat /\ rest # b
  BY <1>5
<1>10. DOMAIN asked' = DOMAIN asked2 /\ Blocks' = DOMAIN size2 /\ lists2 = lists'
  BY DEF Blocks
<1> HIDE DEF F, size2, lists2, asked2, b, s, r, rest, taken
<1>11. CASE s < n
  <2>1. r = s - n + WORD /\ r >= 2 /\ r \in Nat
    BY <1>5, <1>8, <1>11, HeapAssumption
  <2>2. rest \in DOMAIN size2 /\ size2[rest] = r
    <3>1. size2 = [a \in Blocks \cup {rest} |->
                     CASE a = rest -> r [] a = b -> n [] OTHER -> size[a]]
      BY <1>1, <2>1
    <3> QED
      BY <1>9, <3>1
  <2>3. rest + r > HEAP_UNITS
    BY <1>5, <2>1, HeapAssumption DEF rest
  <2>4. ~(rest + r <= HEAP_UNITS)
    BY <1>9, <2>1, <2>3, HeapAssumption
  <2>5. ~(Intact')
    BY <1>10, <2>2, <2>4 DEF Intact, size2
  <2> QED
    BY <2>5 DEF HeapInv
<1>12. CASE s >= n /\ r >= 2
  <2>1. r = s - n /\ r \in 1 .. WORD - 1 /\ n < s /\ n \in Nat \ {0}
    BY <1>5, <1>8, <1>12, HeapAssumption
  <2> DEFINE B2 == Blocks \cup {rest}
  <2>2. /\ size2 = [a \in B2 |-> CASE a = rest -> r [] a = b -> n [] OTHER -> size[a]]
        /\ lists2 = Ins(taken, rest, r)
    BY <1>1, <1>12
  <2>3. /\ DOMAIN size2 = B2 /\ size2 \in Sizes(B2)
        /\ size2[rest] = r /\ size2[b] = n
        /\ \A a \in Blocks : a # b /\ a # rest => size2[a] = size[a]
    BY <1>3, <1>5, <1>9, <2>1, <2>2 DEF Sizes
  <2>4. rest \notin Blocks /\ Tiles(B2, size2)
    <3>1. s = size[b] /\ rest = b + n
      BY DEF s, rest
    <3>2. n < size[b] /\ size2[rest] = size[b] - n
      BY <2>1, <2>3, <3>1
    <3>3. b \in Blocks /\ n \in Nat \ {0}
      BY <1>5, <2>1
    <3> HIDE DEF B2
    <3>4. size2 \in Sizes(Blocks \cup {rest})
      BY <2>3 DEF B2
    <3> QED
      BY <1>3, <1>9, <2>3, <3>1, <3>2, <3>3, <3>4, SplitTile DEF B2
  <2>5. ListsOK(lists2) /\ BitsExact(lists2) /\ Hold(lists2, size2, (F \ {b}) \cup {rest})
    <3> DEFINE G == F \ {b}
    <3>1. /\ G \in SUBSET Blocks /\ rest \in Nat \ G /\ B2 \in SUBSET Nat
          /\ G \cup {rest} \subseteq B2
      BY <1>3, <1>9, <2>4 DEF F
    <3>2. \A a \in G : size2[a] = size[a]
      BY <2>3, <2>4 DEF F
    <3>3. lists2 = Ins(taken, rest, size2[rest])
      BY <2>2, <2>3
    <3>4. Hold(taken, size, G)
      BY <1>6
    <3> HIDE DEF G, B2
    <3>5. /\ ListsOK(Ins(taken, rest, size2[rest])) /\ BitsExact(Ins(taken, rest, size2[rest]))
          /\ Hold(Ins(taken, rest, size2[rest]), size2, G \cup {rest})
      BY <1>3, <1>6, <2>3, <3>1, <3>2, <3>4, InsHolds
    <3> QED
      BY <3>3, <3>5 DEF G
  <2>6. B2 \ (Live \cup {b}) = (F \ {b}) \cup {rest}
    BY <1>3, <1>5, <1>9, <2>4 DEF F
  <2>7. \A a \in Live \cup {b} : size2[a] \in asked2[a] .. asked2[a] + 1
    <3>1. size2[b] \in asked2[b] .. asked2[b] + 1
      BY <1>5, <1>7, <2>3
    <3>2. ASSUME NEW a \in Live
          PROVE  size2[a] = size[a] /\ asked2[a] = asked[a]
      BY <1>3, <1>5, <1>7, <2>3, <2>4
    <3> QED
      BY <1>3, <3>1, <3>2
  <2>8. B2 \in SUBSET Nat /\ Live \cup {b} \in SUBSET B2
    BY <1>3, <1>5, <1>9
  <2> HIDE DEF B2
  <2>9. Sound(B2, size2, lists2, asked2)
    BY <1>7, <2>3, <2>4, <2>5, <2>6, <2>7, <2>8 DEF Sound
  <2> QED
    BY <1>10, <2>3, <2>9 DEF HeapInv, size2, lists2, asked2
<1>13. CASE s >= n /\ ~(r >= 2)
  <2>1. s \in n .. n + 1
    BY <1>5, <1>8, <1>13
  <2>2. size2 = size /\ lists2 = taken
    BY <1>1, <1>3, <1>13 DEF Sizes, s
  <2>3. Blocks \ (Live \cup {b}) = F \ {b}
    BY DEF F
  <2>4. \A a \in Live \cup {b} : size[a] \in asked2[a] .. asked2[a] + 1
    <3>1. size[b] \in asked2[b] .. asked2[b] + 1
      BY <1>7, <2>1 DEF s
    <3>2. \A a \in Live : asked2[a] = asked[a]
      BY <1>7
    <3> QED
      BY <1>3, <3>1, <3>2
  <2>5. Live \cup {b} \in SUBSET Blocks
    BY <1>3, <1>5
  <2>6. Sound(Blocks, size, taken, asked2)
    BY <1>3, <1>6, <1>7, <2>3, <2>4, <2>5 DEF Sound
  <2> QED
    BY <1>10, <2>2, <2>6 DEF HeapInv, Blocks, size2, lists2, asked2
<1> QED
  <2>1. s < n \/ s >= n
    BY <1>5
  <2> QED
    BY <1>11, <1>12, <1>13, <2>1

LEMMA SoundMalloc ==
  ASSUME HeapInv, NEW n \in Requests, Malloc(n)
  PROVE  HeapInv'
<1>1. Intact
  BY DEF Malloc
<1>2. PICK c \in Classes : Found(c, n) /\ TakeFrom(c, n)
  BY DEF Malloc, Classes
<1>3. ListsOK(lists) /\ BitsExact(lists)
  BY <1>1 DEF HeapInv, Sound
<1>4. c[2] \in lists.slbmp[c[1]]
  <2>1. CASE BucketsFor(n) # {}
    BY <1>2, <2>1 DEF Found, BucketsFor, IsMin
  <2>2. CASE BucketsFor(n) = {}
    BY <1>2, <2>2 DEF Found, IsMin
  <2> QED
    BY <2>1, <2>2
<1>5. c = <<c[1], c[2]>> /\ c[1] \in Levels /\ c[2] \in Buckets
  BY DEF Classes
<1>6. lists.at[<<c[1], c[2]>>] # <<>>
  BY <1>3, <1>4, <1>5 DEF BitsExact
<1>7. lists.at[c] # <<>>
  BY <1>5, <1>6
<1> QED
  BY <1>1, <1>2, <1>7, SoundTake

THEOREM HeapInductive == Spec => []HeapInv
<1>1. HeapInv /\ [Next]_vars => HeapInv'
  <2> SUFFICES ASSUME HeapInv, [Next]_vars PROVE HeapInv'
    OBVIOUS
  <2>1. ASSUME NEW n \in Requests, Malloc(n) PROVE HeapInv'
    BY <2>1, SoundMalloc
  <2>2. ASSUME NEW b \in Live, Free(b) PROVE HeapInv'
    BY <2>2, SoundFree
  <2>3. CASE UNCHANGED vars
    BY <2>3 DEF vars, HeapInv, Intact, Blocks
  <2> QED
    BY <2>1, <2>2, <2>3 DEF Next
<1> QED
  BY <1>1, SoundInit, PTL DEF Spec

(***************************************************************************)
(* What follows from it.                                                   *)
(***************************************************************************)
LEMMA SoundIsTiled == HeapInv => Tiled
<1> SUFFICES ASSUME HeapInv, Intact, NEW u \in 0 .. HEAP_UNITS - 1
             PROVE  \E b \in Blocks : u \in Extent(b) /\ \A a \in Blocks : u \in Extent(a) => a = b
  BY DEF Tiled
<1>1. Blocks \in SUBSET Nat /\ size \in Sizes(Blocks) /\ Tiles(Blocks, size)
  BY DEF HeapInv, Sound
<1>2. \A b \in Blocks : b \in Nat /\ size[b] \in Nat
  BY <1>1, HeapAssumption DEF Sizes
<1>3. u \in Int
  BY HeapAssumption
<1>4. \A b \in Blocks : u \in Extent(b) <=> b <= u /\ u < b + size[b]
  BY <1>2, <1>3 DEF Extent
<1>5. PICK b \in Blocks : b <= u /\ u < b + size[b]
  BY <1>1 DEF Tiles
<1>6. ASSUME NEW a \in Blocks, a <= u, u < a + size[a]
      PROVE  a = b
  <2>1. ~(a < b)
    <3>1. a < b => a + size[a] <= b
      BY <1>1 DEF Tiles
    <3> QED
      BY <1>2, <1>3, <1>5, <1>6, <3>1
  <2>2. ~(b < a)
    <3>1. b < a => b + size[b] <= a
      BY <1>1 DEF Tiles
    <3> QED
      BY <1>2, <1>3, <1>5, <1>6, <3>1
  <2> QED
    BY <1>2, <2>1, <2>2
<1> QED
  BY <1>4, <1>5, <1>6

LEMMA SoundIsExact == HeapInv => ListsExact
<1> SUFFICES ASSUME HeapInv, Intact PROVE ListsExact
  BY DEF ListsExact
<1>1. ListsOK(lists) /\ BitsExact(lists) /\ Hold(lists, size, FreeBlocks)
  BY DEF HeapInv, Sound, FreeBlocks, Live
<1>2. \A c \in Classes : DOMAIN lists.at[c] = 1 .. Len(lists.at[c])
  BY <1>1 DEF ListsOK
<1>3. \A b \in FreeBlocks : Class(size[b]) \in Classes
  BY ClassAssumption DEF HeapInv, Sound, Sizes, Classes, FreeBlocks
<1>4. \A b \in FreeBlocks : b \in Listed(Class(size[b]))
  BY <1>1, <1>2, <1>3 DEF Hold, Listed
<1>5. \A c \in Classes : \A b \in Listed(c) : b \in FreeBlocks /\ Class(size[b]) = c
  BY <1>1, <1>2 DEF Hold, Listed
<1>6. \A c \in Classes : \A j, k \in DOMAIN lists.at[c] : lists.at[c][j] = lists.at[c][k] => j = k
  BY <1>1, <1>2 DEF Hold
<1>7. \A f \in Levels : lists.slbmp[f] = {s \in Buckets : lists.at[<<f, s>>] # <<>>}
  BY <1>1 DEF BitsExact, ListsOK
<1>8. lists.flbmp = {f \in Levels : lists.slbmp[f] # {}}
  BY <1>1 DEF BitsExact, ListsOK
<1> QED
  BY <1>4, <1>5, <1>6, <1>7, <1>8 DEF ListsExact, Classes

\* After any calls each unit of the heap lies in exactly one block, up to the first
\* call that reaches beyond the heap: splits neither lose memory nor overlap.
THEOREM HeapStaysTiled == Spec => []Tiled
  BY HeapInductive, SoundIsTiled, PTL

\* The lists hold exactly the free blocks and the bitmaps the lists that are not
\* empty, so that k_malloc never takes the head of an empty list.
THEOREM ListsStayExact == Spec => []ListsExact
  BY HeapInductive, SoundIsExact, PTL

\* A live block is as large as was asked for and at most one unit larger, up to the
\* first call that splits a block smaller than the size asked for.
THEOREM SizesStayFit == Spec => []SizeFits
<1>1. HeapInv => SizeFits
  BY DEF HeapInv, Sound, SizeFits, Live
<1> QED
  BY <1>1, HeapInductive, PTL

\* The three together, for any heap size, any shape of the table and any requests.
THEOREM HeapStaysConsistent == Spec => []HeapConsistent
<1>1. HeapConsistent <=> Tiled /\ ListsExact /\ SizeFits
  BY DEF HeapConsistent
<1> QED
  BY <1>1, HeapStaysTiled, ListsStayExact, SizesStayFit, PTL

(***************************************************************************)
(* Numbers: least elements, induction up to a bound, division, powers.     *)
(***************************************************************************)

\* A set of natural numbers has a least one.
LEMMA Least ==
  ASSUME NEW T \in SUBSET Nat, T # {} PROVE \E x \in T : \A y \in T : x <= y
<1> DEFINE R == StrictSubsetOrdering(Nat)
           F == FiniteSubsetsOf(Nat)
           below(x) == {y \in T : y < x}
           B == {below(x) : x \in T}
<1>1. IsWellFoundedOn(R, F)
  BY FS_StrictSubsetOrderingWellFounded
<1>2. B \subseteq F /\ B # {}
  <2>1. ASSUME NEW x \in T PROVE IsFiniteSet(below(x))
    <3>1. \A s \in below(x) : s <= x
      OBVIOUS
    <3>2. below(x) \in SUBSET Nat /\ x \in Nat
      OBVIOUS
    <3> HIDE DEF below
    <3> QED BY <3>1, <3>2, FS_BoundedSetOfNaturals
  <2>2. \A x \in T : below(x) \in F
    BY <2>1 DEF FiniteSubsetsOf
  <2> QED BY <2>2
<1> HIDE DEF R, F
<1>3. PICK b \in B : \A c \in B : ~ (<<c, b>> \in R)
  <2> HIDE DEF B
  <2> QED BY <1>1, <1>2, WFMin
<1>4. PICK x \in T : b = below(x)
  OBVIOUS
<1>5. ASSUME NEW y \in T, y < x PROVE FALSE
  <2>a. x \in Nat /\ y \in Nat /\ \A z \in T : z \in Nat
    OBVIOUS
  <2>1. below(y) \subseteq below(x) /\ y \in below(x) /\ y \notin below(y)
    <3>1. \A z \in T : z < y => z < x
      BY <1>5, <2>a
    <3>2. ~ (y < y)
      BY <2>a
    <3> QED BY <1>5, <3>1, <3>2
  <2>2. below(y) # below(x) /\ below(y) \in SUBSET Nat /\ below(x) \in SUBSET Nat
    BY <2>1
  <2>3. <<below(y), below(x)>> \in R
    BY <2>1, <2>2 DEF R, StrictSubsetOrdering
  <2> QED BY <1>3, <1>4, <2>3
<1> QED BY <1>5

\* What holds of 0 and passes on to the next number holds up to n.
LEMMA UpTo ==
  ASSUME NEW n \in Nat, NEW Good \in SUBSET Nat, 0 \in Good,
         \A i \in 1 .. n : i - 1 \in Good => i \in Good
  PROVE  \A i \in 0 .. n : i \in Good
<1> DEFINE bad == {i \in 0 .. n : i \notin Good}
<1> SUFFICES ASSUME bad # {} PROVE FALSE
  OBVIOUS
<1>1. PICK m \in bad : \A i \in bad : m <= i
  <2>1. bad \in SUBSET Nat
    OBVIOUS
  <2> HIDE DEF bad
  <2> QED BY <2>1, Least
<1>2. m \in 1 .. n /\ m - 1 \in 0 .. n /\ m - 1 < m
  <2>1. m \in 0 .. n /\ m # 0
    OBVIOUS
  <2> QED BY <2>1
<1>3. m - 1 \notin bad
  <2>1. m \in Nat /\ m - 1 \in Nat /\ ~ (m <= m - 1)
    BY <1>2
  <2> QED BY <1>1, <2>1
<1>4. m - 1 \in Good
  BY <1>2, <1>3
<1> QED BY <1>2, <1>4

\* Division with remainder.
LEMMA DivFacts ==
  ASSUME NEW n \in Nat \ {0}, NEW a \in Nat
  PROVE  a \div n \in Nat /\ a % n \in 0 .. n - 1 /\ a = n * (a \div n) + (a % n)
<1>1. a \div n \in Int /\ a \div n >= 0 /\ a % n \in 0 .. n - 1
  OBVIOUS
<1>2. \A m, b \in Nat : m > 0 => b = m * (b \div m) + (b % m)
  BY Z3
<1>3. n \in Nat /\ n > 0
  OBVIOUS
<1>4. a = n * (a \div n) + (a % n)
  BY <1>2, <1>3, Zenon
<1> QED BY <1>1, <1>4

\* The product grows by a factor at least.
LEMMA TimesGrows ==
  ASSUME NEW n \in Nat \ {0}, NEW a \in Nat, NEW b \in Nat, a < b
  PROVE  n * a + n <= n * b
OBVIOUS

\* Products of natural numbers are natural numbers.
LEMMA TimesInt == \A n, a \in Nat : n * a \in Nat
OBVIOUS

\* The size at which level k begins.
Pow(k) == 2 ^ k

\* The powers of two that occur, one by one: the provers compute 2 ^ k for a number
\* k, and have no law for it.
LEMMA PowDoubles ==
  ASSUME NEW k \in 0 .. 30 PROVE 2 ^ (k + 1) = 2 * 2 ^ k /\ 2 ^ k \in Nat \ {0}
<1>1. \/ k = 0 \/ k = 1 \/ k = 2 \/ k = 3 \/ k = 4 \/ k = 5 \/ k = 6 \/ k = 7
      \/ k = 8 \/ k = 9 \/ k = 10 \/ k = 11 \/ k = 12 \/ k = 13 \/ k = 14 \/ k = 15
      \/ k = 16 \/ k = 17 \/ k = 18 \/ k = 19 \/ k = 20 \/ k = 21 \/ k = 22 \/ k = 23
      \/ k = 24 \/ k = 25 \/ k = 26 \/ k = 27 \/ k = 28 \/ k = 29 \/ k = 30
  OBVIOUS
<1>2. k = 0 => 2 ^ (k + 1) = 2 * 2 ^ k /\ 2 ^ k \in Nat \ {0}
  OBVIOUS
<1>3. k = 1 => 2 ^ (k + 1) = 2 * 2 ^ k /\ 2 ^ k \in Nat \ {0}
  OBVIOUS
<1>4. k = 2 => 2 ^ (k + 1) = 2 * 2 ^ k /\ 2 ^ k \in Nat \ {0}
  OBVIOUS
<1>5. k = 3 => 2 ^ (k + 1) = 2 * 2 ^ k /\ 2 ^ k \in Nat \ {0}
  OBVIOUS
<1>6. k = 4 => 2 ^ (k + 1) = 2 * 2 ^ k /\ 2 ^ k \in Nat \ {0}
  OBVIOUS
<1>7. k = 5 => 2 ^ (k + 1) = 2 * 2 ^ k /\ 2 ^ k \in Nat \ {0}
  OBVIOUS
<1>8. k = 6 => 2 ^ (k + 1) = 2 * 2 ^ k /\ 2 ^ k \in Nat \ {0}
  OBVIOUS
<1>9. k = 7 => 2 ^ (k + 1) = 2 * 2 ^ k /\ 2 ^ k \in Nat \ {0}
  OBVIOUS
<1>10. k = 8 => 2 ^ (k + 1) = 2 * 2 ^ k /\ 2 ^ k \in Nat \ {0}
  OBVIOUS
<1>11. k = 9 => 2 ^ (k + 1) = 2 * 2 ^ k /\ 2 ^ k \in Nat \ {0}
  OBVIOUS
<1>12. k = 10 => 2 ^ (k + 1) = 2 * 2 ^ k /\ 2 ^ k \in Nat \ {0}
  OBVIOUS
<1>13. k = 11 => 2 ^ (k + 1) = 2 * 2 ^ k /\ 2 ^ k \in Nat \ {0}
  OBVIOUS
<1>14. k = 12 => 2 ^ (k + 1) = 2 * 2 ^ k /\ 2 ^ k \in Nat \ {0}
  OBVIOUS
<1>15. k = 13 => 2 ^ (k + 1) = 2 * 2 ^ k /\ 2 ^ k \in Nat \ {0}
  OBVIOUS
<1>16. k = 14 => 2 ^ (k + 1) = 2 * 2 ^ k /\ 2 ^ k \in Nat \ {0}
  OBVIOUS
<1>17. k = 15 => 2 ^ (k + 1) = 2 * 2 ^ k /\ 2 ^ k \in Nat \ {0}
  OBVIOUS
<1>18. k = 16 => 2 ^ (k + 1) = 2 * 2 ^ k /\ 2 ^ k \in Nat \ {0}
  OBVIOUS
<1>19. k = 17 => 2 ^ (k + 1) = 2 * 2 ^ k /\ 2 ^ k \in Nat \ {0}
  OBVIOUS
<1>20. k = 18 => 2 ^ (k + 1) = 2 * 2 ^ k /\ 2 ^ k \in Nat \ {0}
  OBVIOUS
<1>21. k = 19 => 2 ^ (k + 1) = 2 * 2 ^ k /\ 2 ^ k \in Nat \ {0}
  OBVIOUS
<1>22. k = 20 => 2 ^ (k + 1) = 2 * 2 ^ k /\ 2 ^ k \in Nat \ {0}
  OBVIOUS
<1>23. k = 21 => 2 ^ (k + 1) = 2 * 2 ^ k /\ 2 ^ k \in Nat \ {0}
  OBVIOUS
<1>24. k = 22 => 2 ^ (k + 1) = 2 * 2 ^ k /\ 2 ^ k \in Nat \ {0}
  OBVIOUS
<1>25. k = 23 => 2 ^ (k + 1) = 2 * 2 ^ k /\ 2 ^ k \in Nat \ {0}
  OBVIOUS
<1>26. k = 24 => 2 ^ (k + 1) = 2 * 2 ^ k /\ 2 ^ k \in Nat \ {0}
  OBVIOUS
<1>27. k = 25 => 2 ^ (k + 1) = 2 * 2 ^ k /\ 2 ^ k \in Nat \ {0}
  OBVIOUS
<1>28. k = 26 => 2 ^ (k + 1) = 2 * 2 ^ k /\ 2 ^ k \in Nat \ {0}
  OBVIOUS
<1>29. k = 27 => 2 ^ (k + 1) = 2 * 2 ^ k /\ 2 ^ k \in Nat \ {0}
  OBVIOUS
<1>30. k = 28 => 2 ^ (k + 1) = 2 * 2 ^ k /\ 2 ^ k \in Nat \ {0}
  OBVIOUS
<1>31. k = 29 => 2 ^ (k + 1) = 2 * 2 ^ k /\ 2 ^ k \in Nat \ {0}
  OBVIOUS
<1>32. k = 30 => 2 ^ (k + 1) = 2 * 2 ^ k /\ 2 ^ k \in Nat \ {0}
  OBVIOUS
<1> QED
  BY <1>1, <1>2, <1>3, <1>4, <1>5, <1>6, <1>7, <1>8, <1>9, <1>10, <1>11, <1>12, <1>13,
     <1>14, <1>15, <1>16, <1>17, <1>18, <1>19, <1>20, <1>21, <1>22, <1>23, <1>24,
     <1>25, <1>26, <1>27, <1>28, <1>29, <1>30, <1>31, <1>32, Zenon

\* What is needed of the powers of two.
LEMMA PowFacts ==
  /\ Pow(0) = 1
  /\ \A k \in 0 .. 30 : Pow(k + 1) = 2 * Pow(k) /\ Pow(k) \in Nat \ {0}
  /\ \A k \in 0 .. 31 : Pow(k) \in Nat \ {0}
<1>1. Pow(0) = 1
  BY DEF Pow
<1>2. \A k \in 0 .. 30 : Pow(k + 1) = 2 * Pow(k) /\ Pow(k) \in Nat \ {0}
  BY PowDoubles DEF Pow
<1>3. \A k \in 0 .. 31 : k \in 0 .. 30 \/ k = 30 + 1
  OBVIOUS
<1>4. Pow(30 + 1) \in Nat \ {0}
  <2>1. Pow(30 + 1) = 2 * Pow(30) /\ Pow(30) \in Nat \ {0}
    BY <1>2
  <2> QED BY <2>1
<1> QED BY <1>1, <1>2, <1>3, <1>4

\* A larger exponent gives at least the double.
LEMMA PowGrows ==
  ASSUME NEW f \in 0 .. 31, NEW g \in 0 .. 31, f < g PROVE 2 * Pow(f) <= Pow(g)
<1> DEFINE n == g - f
           Good == {d \in Nat : d <= n => d = 0 \/ 2 * Pow(f) <= Pow(f + d)}
<1>1. 0 \in Good
  OBVIOUS
<1>2. ASSUME NEW d \in 1 .. n, d - 1 \in Good PROVE d \in Good
  <2>1. f + (d - 1) \in 0 .. 30 /\ (f + (d - 1)) + 1 = f + d /\ f \in 0 .. 30 /\ d - 1 <= n
    OBVIOUS
  <2>2. Pow(f + d) = 2 * Pow(f + (d - 1)) /\ Pow(f + (d - 1)) \in Nat /\ Pow(f) \in Nat
    BY <2>1, PowFacts
  <2>3. CASE d - 1 = 0
    <3>1. f + (d - 1) = f
      BY <2>3
    <3> QED BY <2>2, <3>1
  <2>4. CASE d - 1 # 0
    <3>1. 2 * Pow(f) <= Pow(f + (d - 1))
      BY <1>2, <2>1, <2>4
    <3> QED BY <2>2, <3>1
  <2> QED BY <2>3, <2>4
<1>3. n \in 0 .. n /\ n \in Nat /\ n # 0 /\ f + n = g
  OBVIOUS
<1> HIDE DEF n
<1>4. n \in Good
  <2> HIDE DEF Good
  <2>1. Good \in SUBSET Nat
    BY DEF Good
  <2> QED BY <1>1, <1>2, <1>3, <2>1, UpTo
<1> QED BY <1>3, <1>4

\* Log2 finds the level of every size there is.
LEMMA Log2Facts ==
  ASSUME NEW n \in 1 .. WORD - 1
  PROVE  Log2(n) \in 0 .. 27 /\ Pow(Log2(n)) <= n /\ n < 2 * Pow(Log2(n))
<1>1. WORD \in Nat /\ WORD <= Pow(28) /\ Pow(28) \in Nat
  BY HeapAssumption, PowFacts DEF Pow
<1> DEFINE T == {k \in 0 .. 28 : n < Pow(k)}
<1>2. PICK m \in T : \A k \in T : m <= k
  <2>1. T \in SUBSET Nat /\ 28 \in T
    BY <1>1
  <2> HIDE DEF T
  <2> QED BY <2>1, Least
<1>3. m # 0
  BY <1>2, PowFacts
<1> DEFINE f == m - 1
<1>4. f \in 0 .. 27 /\ f + 1 = m /\ ~ (m <= f)
  BY <1>2, <1>3
<1>5. Pow(f) <= n /\ n < 2 * Pow(f)
  <2>1. f \notin T
    BY <1>2, <1>4
  <2>2. ~ (n < Pow(f)) /\ n < Pow(m) /\ Pow(m) = 2 * Pow(f) /\ Pow(f) \in Nat
    BY <1>2, <1>4, <2>1, PowFacts
  <2> QED BY <2>2
<1> HIDE DEF f
<1>6. ASSUME NEW g \in 0 .. 31
      PROVE  2 ^ g <= n /\ n < 2 ^ (g + 1) <=> g = f
  <2>1. /\ Pow(g) \in Nat /\ Pow(f) \in Nat /\ Pow(f + 1) = 2 * Pow(f) /\ n \in Nat
        /\ f \in 0 .. 31
    BY <1>4, PowFacts
  <2>2. CASE g < f
    <3>1. 2 * Pow(g) <= Pow(f) /\ Pow(g + 1) = 2 * Pow(g)
      <4>1. g \in 0 .. 30
        BY <1>4, <2>2
      <4>2. 2 * Pow(g) <= Pow(f)
        BY <2>1, <2>2, PowGrows
      <4> QED BY <4>1, <4>2, PowFacts
    <3>2. ~ (n < Pow(g + 1))
      BY <1>5, <2>1, <3>1
    <3> QED BY <1>4, <2>2, <3>2 DEF Pow
  <2>3. CASE f < g
    <3>1. 2 * Pow(f) <= Pow(g)
      BY <2>1, <2>3, PowGrows
    <3>2. ~ (Pow(g) <= n)
      BY <1>5, <2>1, <3>1
    <3> QED BY <1>4, <2>3, <3>2 DEF Pow
  <2>4. CASE g = f
    BY <1>5, <2>1, <2>4 DEF Pow
  <2> QED BY <1>4, <2>2, <2>3, <2>4
<1>7. Log2(n) = f
  <2>1. f \in 0 .. 31
    BY <1>4
  <2>2. \A g \in 0 .. 31 : 2 ^ g <= n /\ n < 2 ^ (g + 1) <=> g = f
    BY <1>6
  <2> QED BY <2>1, <2>2 DEF Log2
<1> QED BY <1>4, <1>5, <1>7

\* Quotient and remainder are determined.
LEMMA DivUnique ==
  ASSUME NEW n \in Nat \ {0}, NEW q \in Nat, NEW r \in 0 .. n - 1, NEW a \in Nat,
         a = n * q + r
  PROVE  a \div n = q /\ a % n = r
<1> DEFINE p == a \div n
           s == a % n
<1>1. p \in Nat /\ s \in 0 .. n - 1 /\ a = n * p + s
  BY DivFacts
<1> HIDE DEF p, s
<1>2. n * p \in Nat /\ n * q \in Nat
  BY <1>1, TimesInt
<1>3. ~ (p < q)
  <2>1. p < q => n * p + n <= n * q
    BY <1>1, TimesGrows
  <2> QED BY <1>1, <1>2, <2>1
<1>4. ~ (q < p)
  <2>1. q < p => n * q + n <= n * p
    BY <1>1, TimesGrows
  <2> QED BY <1>1, <1>2, <2>1
<1>5. p = q
  BY <1>1, <1>3, <1>4
<1> QED BY <1>1, <1>2, <1>5 DEF p, s

\* Division keeps the order.
LEMMA DivOrder ==
  ASSUME NEW n \in Nat \ {0}, NEW a \in Nat, NEW b \in Nat, a <= b
  PROVE  a \div n <= b \div n
<1> DEFINE p == a \div n
           q == b \div n
           r == a % n
           s == b % n
<1>1. /\ p \in Nat /\ r \in 0 .. n - 1 /\ a = n * p + r
      /\ q \in Nat /\ s \in 0 .. n - 1 /\ b = n * q + s
  BY DivFacts
<1> HIDE DEF p, q, r, s
<1>2. ~ (q < p)
  <2>1. q < p => n * q + n <= n * p
    BY <1>1, TimesGrows
  <2>2. n * p \in Nat /\ n * q \in Nat
    BY <1>1, TimesInt
  <2> QED BY <1>1, <2>1, <2>2
<1> QED BY <1>1, <1>2 DEF p, q

\* A quotient between two multiples.
LEMMA DivRange ==
  ASSUME NEW n \in Nat \ {0}, NEW a \in Nat, NEW l \in Nat, NEW u \in Nat,
         n * l <= a, a < n * u
  PROVE  a \div n \in l .. u - 1
<1> DEFINE p == a \div n
           r == a % n
<1>1. p \in Nat /\ r \in 0 .. n - 1 /\ a = n * p + r
  BY DivFacts
<1> HIDE DEF p, r
<1>2. n * p \in Nat /\ n * l \in Nat /\ n * u \in Nat
  BY <1>1, TimesInt
<1>3. ~ (p < l)
  <2>1. p < l => n * p + n <= n * l
    BY <1>1, TimesGrows
  <2> QED BY <1>1, <1>2, <2>1
<1>4. ~ (u <= p)
  <2>1. u = p \/ (u < p => n * u + n <= n * p)
    BY <1>1, TimesGrows
  <2> QED BY <1>1, <1>2, <2>1
<1> QED BY <1>1, <1>3, <1>4 DEF p

\* A remainder after one subtraction.
LEMMA ModOnce ==
  ASSUME NEW m \in Nat \ {0}, NEW a \in m .. 2 * m - 1
  PROVE  a % m = a - m
<1>1. a \in Nat /\ a - m \in 0 .. m - 1 /\ a = m * 1 + (a - m)
  OBVIOUS
<1> QED BY <1>1, DivUnique

\* The place of a size within its level.
Place(n) == (n * MAX_SL) \div Pow(Log2(n))

\* A level is divided evenly, and the sizes of one level keep their order.
LEMMA PlaceFacts ==
  ASSUME NEW n \in 1 .. WORD - 1
  PROVE  Place(n) \in MAX_SL .. 2 * MAX_SL - 1 /\ Place(n) % MAX_SL = Place(n) - MAX_SL
<1> DEFINE p == Pow(Log2(n))
<1>1. /\ p \in Nat \ {0} /\ p <= n /\ n < 2 * p /\ n \in Nat /\ MAX_SL \in Nat \ {0}
  <2>1. Log2(n) \in 0 .. 31
    BY Log2Facts
  <2> QED BY <2>1, Log2Facts, PowFacts, HeapAssumption
<1> HIDE DEF p
<1>2. /\ n * MAX_SL \in Nat /\ p * MAX_SL \in Nat /\ p * (2 * MAX_SL) \in Nat
      /\ 2 * MAX_SL \in Nat
  BY <1>1, TimesInt
<1>3. p * MAX_SL <= n * MAX_SL /\ n * MAX_SL < p * (2 * MAX_SL)
  <2>1. MAX_SL * p <= MAX_SL * n /\ MAX_SL * n < MAX_SL * (2 * p)
    <3>1. n < 2 * p => MAX_SL * n + MAX_SL <= MAX_SL * (2 * p)
      BY <1>1, TimesGrows
    <3>2. p = n \/ (p < n => MAX_SL * p + MAX_SL <= MAX_SL * n)
      BY <1>1, TimesGrows
    <3>3. MAX_SL * p \in Nat /\ MAX_SL * n \in Nat /\ 2 * p \in Nat /\ MAX_SL * (2 * p) \in Nat
      BY <1>1, TimesInt
    <3> QED BY <1>1, <3>1, <3>2, <3>3
  <2>2. /\ MAX_SL * p = p * MAX_SL /\ MAX_SL * n = n * MAX_SL
        /\ MAX_SL * (2 * p) = p * (2 * MAX_SL)
    BY <1>1
  <2> QED BY <2>1, <2>2
<1>4. (n * MAX_SL) \div p \in MAX_SL .. 2 * MAX_SL - 1
  BY <1>1, <1>2, <1>3, DivRange
<1>5. Place(n) \in MAX_SL .. 2 * MAX_SL - 1
  BY <1>4 DEF Place, p
<1> QED BY <1>1, <1>5, ModOnce

\* The list of c comes before that of d.
Before(c, d) == c[1] < d[1] \/ (c[1] = d[1] /\ c[2] <= d[2])

\* tlsf_map() by cases, with the remainder worked out.
LEMMA ClassIs ==
  ASSUME NEW n \in 1 .. WORD - 1
  PROVE  /\ Log2(n) < MAX_FL => Class(n) = <<Log2(n), Place(n) - MAX_SL>>
         /\ ~ (Log2(n) < MAX_FL) => Class(n) = <<MAX_FL - 1, MAX_SL - 1>>
<1>1. Class(n) = IF Log2(n) < MAX_FL THEN <<Log2(n), Place(n) % MAX_SL>>
                 ELSE <<MAX_FL - 1, MAX_SL - 1>>
  BY DEF Class, Place, Pow
<1> QED BY <1>1, PlaceFacts

\* tlsf_map() keeps the order of the sizes.
LEMMA ClassOrder ==
  ASSUME NEW m \in 1 .. WORD - 1, NEW n \in 1 .. WORD - 1, m <= n
  PROVE  Before(Class(m), Class(n))
<1>1. /\ Class(m) \in Levels \X Buckets /\ Class(n) \in Levels \X Buckets
      /\ MAX_FL \in Nat /\ MAX_SL \in Nat \ {0}
  BY ClassAssumption, HeapAssumption
<1>2. /\ Class(m)[1] \in 0 .. MAX_FL - 1 /\ Class(m)[2] \in 0 .. MAX_SL - 1
      /\ Class(n)[1] \in 0 .. MAX_FL - 1 /\ Class(n)[2] \in 0 .. MAX_SL - 1
  BY <1>1 DEF Levels, Buckets
<1> DEFINE f == Log2(m)
           g == Log2(n)
<1>3. /\ f \in 0 .. 27 /\ g \in 0 .. 27 /\ Pow(f) <= m /\ n < 2 * Pow(g)
      /\ Pow(f) \in Nat /\ Pow(g) \in Nat
  <2>1. f \in 0 .. 27 /\ g \in 0 .. 27 /\ Pow(f) <= m /\ n < 2 * Pow(g)
    BY Log2Facts
  <2>2. f \in 0 .. 31 /\ g \in 0 .. 31
    BY <2>1
  <2> HIDE DEF f, g
  <2> QED BY <2>1, <2>2, PowFacts
<1>4. f <= g
  <2> HIDE DEF f, g
  <2>1. ASSUME g < f PROVE FALSE
    <3>1. f \in 0 .. 31 /\ g \in 0 .. 31
      BY <1>3
    <3>2. 2 * Pow(g) <= Pow(f)
      BY <2>1, <3>1, PowGrows
    <3> QED BY <1>3, <3>2
  <2> QED BY <1>3, <2>1
<1>5. CASE ~ (g < MAX_FL)
  <2>1. Class(n) = <<MAX_FL - 1, MAX_SL - 1>>
    BY <1>5, ClassIs
  <2>2. Class(n)[1] = MAX_FL - 1 /\ Class(n)[2] = MAX_SL - 1
    BY <2>1
  <2> HIDE DEF f, g
  <2> QED BY <1>1, <1>2, <2>2 DEF Before
<1>6. CASE g < MAX_FL
  <2>1. f < MAX_FL
    <3> HIDE DEF f, g
    <3> QED BY <1>1, <1>3, <1>4, <1>6
  <2>2. Class(m) = <<f, Place(m) - MAX_SL>> /\ Class(n) = <<g, Place(n) - MAX_SL>>
    BY <1>6, <2>1, ClassIs
  <2>3. /\ Class(m)[1] = f /\ Class(m)[2] = Place(m) - MAX_SL
        /\ Class(n)[1] = g /\ Class(n)[2] = Place(n) - MAX_SL
    BY <2>2
  <2>4. ASSUME f = g PROVE Place(m) <= Place(n)
    <3> DEFINE p == Pow(f)
    <3>1. /\ p \in Nat \ {0} /\ m * MAX_SL \in Nat /\ n * MAX_SL \in Nat
      <4>1. f \in 0 .. 31
        BY <1>3
      <4> QED BY <1>1, <4>1, PowFacts, TimesInt, HeapAssumption
    <3>2. m * MAX_SL <= n * MAX_SL
      <4>1. m \in Nat /\ n \in Nat /\ MAX_SL * m = m * MAX_SL /\ MAX_SL * n = n * MAX_SL
        BY <1>1, HeapAssumption
      <4>2. m = n \/ (m < n => MAX_SL * m + MAX_SL <= MAX_SL * n)
        BY <1>1, <4>1, TimesGrows
      <4>3. MAX_SL * m \in Nat /\ MAX_SL * n \in Nat
        BY <3>1, <4>1
      <4> QED BY <1>1, <4>1, <4>2, <4>3
    <3> HIDE DEF p
    <3>3. (m * MAX_SL) \div p <= (n * MAX_SL) \div p
      BY <3>1, <3>2, DivOrder
    <3> QED BY <2>4, <3>3 DEF Place, p
  <2>5. Place(m) \in Nat /\ Place(n) \in Nat
    <3>1. \A k \in MAX_SL .. 2 * MAX_SL - 1 : k \in Nat
      BY <1>1
    <3> QED BY <3>1, PlaceFacts
  <2> HIDE DEF f, g
  <2> QED BY <1>1, <1>3, <1>4, <2>3, <2>4, <2>5 DEF Before
<1> QED BY <1>5, <1>6

(***************************************************************************)
(* What find() finds.                                                      *)
(***************************************************************************)

\* A set of numbers that is not empty has a first one.
LEMMA HasMin ==
  ASSUME NEW S \in SUBSET Nat, S # {} PROVE \E m \in S : IsMin(m, S)
BY Least DEF IsMin

\* If a list at or after that of the size n is not empty, find() finds one.
LEMMA FindsNonempty ==
  ASSUME ListsOK(lists), BitsExact(lists), NEW n \in 1 .. WORD - 1,
         NEW d \in Classes, lists.at[d] # <<>>, Before(Class(n), d)
  PROVE  \E c \in Levels \X Buckets : Found(c, n)
<1>1. /\ d = <<d[1], d[2]>> /\ d[1] \in Levels /\ d[2] \in Buckets
      /\ Class(n)[1] \in Levels /\ Class(n)[2] \in Buckets
  BY ClassAssumption DEF Classes
<1>2. d[2] \in lists.slbmp[d[1]] /\ d[1] \in lists.flbmp
  <2>1. lists.at[<<d[1], d[2]>>] # <<>>
    BY <1>1
  <2>2. d[2] \in lists.slbmp[d[1]]
    BY <1>1, <2>1 DEF BitsExact
  <2> QED BY <1>1, <2>2 DEF BitsExact
<1>3. /\ lists.flbmp \in SUBSET Levels /\ lists.slbmp \in [Levels -> SUBSET Buckets]
      /\ Levels \in SUBSET Nat /\ Buckets \in SUBSET Nat
  BY HeapAssumption DEF ListsOK, Levels, Buckets
<1>4. CASE BucketsFor(n) # {}
  <2>1. BucketsFor(n) \in SUBSET Nat /\ BucketsFor(n) \in SUBSET Buckets
    BY <1>1, <1>3 DEF BucketsFor
  <2>2. PICK s \in BucketsFor(n) : IsMin(s, BucketsFor(n))
    BY <1>4, <2>1, HasMin
  <2>3. <<Class(n)[1], s>> \in Levels \X Buckets
    BY <1>1, <2>1
  <2>4. Found(<<Class(n)[1], s>>, n)
    BY <1>4, <2>2 DEF Found
  <2> QED BY <2>3, <2>4
<1>5. CASE BucketsFor(n) = {}
  <2>1. d[1] \in LevelsAbove(n)
    <3>1. ~ (d[1] = Class(n)[1] /\ Class(n)[2] <= d[2])
      <4>1. d[1] = Class(n)[1] /\ Class(n)[2] <= d[2] => d[2] \in BucketsFor(n)
        BY <1>1, <1>2, <1>3 DEF BucketsFor
      <4> QED BY <1>5, <4>1
    <3>2. Class(n)[1] < d[1]
      BY <3>1 DEF Before
    <3> QED BY <1>1, <1>2, <1>3, <3>2 DEF LevelsAbove
  <2>2. LevelsAbove(n) \in SUBSET Nat /\ LevelsAbove(n) \in SUBSET lists.flbmp
    BY <1>3 DEF LevelsAbove
  <2>3. PICK f \in LevelsAbove(n) : IsMin(f, LevelsAbove(n))
    BY <2>1, <2>2, HasMin
  <2>4. f \in Levels /\ lists.slbmp[f] # {} /\ lists.slbmp[f] \in SUBSET Nat
        /\ lists.slbmp[f] \in SUBSET Buckets
    BY <1>3, <2>2 DEF BitsExact
  <2>5. PICK s \in lists.slbmp[f] : IsMin(s, lists.slbmp[f])
    BY <2>4, HasMin
  <2>6. <<f, s>> \in Levels \X Buckets
    BY <2>4
  <2>7. Found(<<f, s>>, n)
    BY <1>5, <2>3, <2>5 DEF Found
  <2> QED BY <2>6, <2>7
<1> QED BY <1>4, <1>5

\* The head of the list that find() found.
LEMMA FoundHead ==
  ASSUME HeapInv, Intact, NEW n \in Requests, NEW c \in Classes, Found(c, n)
  PROVE  /\ lists.at[c] # <<>>
         /\ Head(lists.at[c]) \in FreeBlocks
         /\ Class(size[Head(lists.at[c])]) = c
         /\ size[Head(lists.at[c])] \in 1 .. WORD - 1
         /\ Before(Class(n), c)
<1>1. /\ ListsOK(lists) /\ BitsExact(lists) /\ Hold(lists, size, FreeBlocks)
      /\ size \in Sizes(Blocks) /\ FreeBlocks \subseteq Blocks
  BY DEF HeapInv, Sound, FreeBlocks, Live
<1>2. c = <<c[1], c[2]>> /\ c[1] \in Levels /\ c[2] \in Buckets
  BY DEF Classes
<1>3. c[2] \in lists.slbmp[c[1]] /\ Before(Class(n), c)
  <2>1. CASE BucketsFor(n) # {}
    <3>1. c[1] = Class(n)[1] /\ c[2] \in BucketsFor(n)
      BY <2>1 DEF Found, IsMin
    <3>2. c[2] \in lists.slbmp[Class(n)[1]] /\ c[2] >= Class(n)[2]
      BY <3>1 DEF BucketsFor
    <3>3. c[2] \in Int /\ Class(n)[2] \in Int
      <4>1. Class(n) \in Levels \X Buckets
        BY ClassAssumption, HeapAssumption
      <4>2. \A s \in Buckets : s \in Int
        BY HeapAssumption DEF Buckets
      <4> QED BY <1>2, <4>1, <4>2
    <3> QED BY <3>1, <3>2, <3>3 DEF Before
  <2>2. CASE BucketsFor(n) = {}
    <3>1. c[1] \in LevelsAbove(n) /\ c[2] \in lists.slbmp[c[1]]
      BY <2>2 DEF Found, IsMin
    <3>2. c[1] > Class(n)[1]
      BY <3>1 DEF LevelsAbove
    <3>3. c[1] \in Int /\ Class(n)[1] \in Int
      <4>1. Class(n) \in Levels \X Buckets
        BY ClassAssumption, HeapAssumption
      <4>2. \A s \in Levels : s \in Int
        BY HeapAssumption DEF Levels
      <4> QED BY <1>2, <4>1, <4>2
    <3> QED BY <3>1, <3>2, <3>3 DEF Before
  <2> QED BY <2>1, <2>2
<1>4. lists.at[c] # <<>>
  <2>1. lists.at[<<c[1], c[2]>>] # <<>>
    BY <1>1, <1>2, <1>3 DEF BitsExact
  <2> QED BY <1>2, <2>1
<1>5. Head(lists.at[c]) \in FreeBlocks /\ Class(size[Head(lists.at[c])]) = c
  BY <1>1, <1>4, HeadIsFree
<1> QED BY <1>1, <1>3, <1>4, <1>5 DEF Sizes

\* Where the block that find() found is too small, it is from the class of the request.
LEMMA FoundShort ==
  ASSUME HeapInv, Intact, NEW n \in Requests, NEW c \in Classes, Found(c, n),
         size[Head(lists.at[c])] <= n
  PROVE  c = Class(n)
<1> DEFINE h == Head(lists.at[c])
<1>1. /\ Class(size[h]) = c /\ Before(Class(n), c) /\ size[h] \in 1 .. WORD - 1
  BY FoundHead
<1>2. n \in 1 .. WORD - 1
  BY HeapAssumption
<1>3. size[h] <= n
  OBVIOUS
<1> HIDE DEF h
<1>4. Before(c, Class(n))
  <2>1. Before(Class(size[h]), Class(n))
    BY <1>1, <1>2, <1>3, ClassOrder
  <2> QED BY <1>1, <2>1
<1>5. Class(n) \in Levels \X Buckets /\ c \in Levels \X Buckets
  BY <1>2, ClassAssumption DEF Classes
<1>6. \A x \in Levels \cup Buckets : x \in Int
  BY HeapAssumption DEF Levels, Buckets
<1>7. c[1] = Class(n)[1] /\ c[2] = Class(n)[2]
  BY <1>1, <1>4, <1>5, <1>6 DEF Before
<1> QED BY <1>5, <1>7

\* A block that is large enough is taken without bringing the heap out of order.
LEMMA LargeKeepsIntact ==
  ASSUME HeapInv, Intact, NEW n \in Requests, NEW c \in Classes, Found(c, n),
         TakeFrom(c, n), size[Head(lists.at[c])] >= n
  PROVE  Intact'
<1> DEFINE b    == Head(lists.at[c])
           s    == size[b]
           r    == (s - n) % WORD
           rest == b + n
<1>1. /\ r >= 2 => size' = [a \in Blocks \cup {rest} |->
                              CASE a = rest -> r [] a = b -> n [] OTHER -> size[a]]
      /\ ~(r >= 2) => size' = [size EXCEPT ![b] = s]
  BY DEF TakeFrom, Splits, Given
<1>2. /\ b \in Blocks /\ Blocks \in SUBSET Nat /\ size \in Sizes(Blocks)
      /\ \A a \in Blocks : a + size[a] <= HEAP_UNITS
  <2>1. Sound(Blocks, size, lists, asked)
    BY DEF HeapInv
  <2>2. b \in FreeBlocks
    BY FoundHead
  <2> QED BY <2>1, <2>2 DEF Sound, FreeBlocks, Intact
<1>3. s \in 1 .. WORD - 1 /\ n \in 1 .. WORD - 1 /\ s >= n /\ b \in Nat
  BY <1>2, HeapAssumption DEF Sizes
<1>4. WORD \in Nat /\ HEAP_UNITS \in Nat
  BY HeapAssumption
<1>5. r = s - n
  <2> HIDE DEF s
  <2> QED BY <1>3, <1>4
<1>6. s = size[b] /\ rest = b + n /\ DOMAIN size = Blocks
  BY DEF Blocks
<1> HIDE DEF b, s, r, rest
<1>7. CASE r >= 2
  <2>1. Blocks' = Blocks \cup {rest}
    BY <1>1, <1>7 DEF Blocks
  <2>2. ASSUME NEW a \in Blocks \cup {rest} PROVE a + size'[a] <= HEAP_UNITS
    <3>1. CASE a = rest
      <4>1. size'[a] = r
        <5>1. rest # b
          BY <1>3, <1>6
        <5> QED BY <1>1, <1>7, <3>1, <5>1
      <4> QED BY <1>2, <1>3, <1>4, <1>5, <1>6, <3>1, <4>1
    <3>2. CASE a # rest /\ a = b
      <4>1. size'[a] = n
        BY <1>1, <1>7, <3>2
      <4> QED BY <1>2, <1>3, <1>4, <1>6, <3>2, <4>1
    <3>3. CASE a # rest /\ a # b
      BY <1>1, <1>2, <1>7, <3>3
    <3> QED BY <3>1, <3>2, <3>3
  <2> QED BY <2>1, <2>2 DEF Intact
<1>8. CASE ~(r >= 2)
  <2>1. size' = size
    BY <1>1, <1>2, <1>6, <1>8 DEF Sizes
  <2> QED BY <1>2, <2>1 DEF Intact, Blocks
<1> QED BY <1>7, <1>8

\* What find() delivers as long as a free block is large enough: the search by classes
\* misses no block, although it looks at lists only, and what it comes to fits unless
\* it is the head of the list of the request's own class.
THEOREM FindsWhatThereIs == Spec => []FindsWhatFits
<1>1. HeapInv => FindsWhatFits
  <2> SUFFICES ASSUME HeapInv, Intact, NEW n \in Requests, NEW b \in FreeBlocks, size[b] >= n
               PROVE  \E c \in Levels \X Buckets :
                        /\ Found(c, n) /\ lists.at[c] # <<>>
                        /\ c # Class(n) => size[Head(lists.at[c])] >= n
    BY DEF FindsWhatFits
  <2>1. /\ ListsOK(lists) /\ BitsExact(lists) /\ Hold(lists, size, FreeBlocks)
        /\ size \in Sizes(Blocks) /\ FreeBlocks \subseteq Blocks
    BY DEF HeapInv, Sound, FreeBlocks, Live
  <2>2. n \in 1 .. WORD - 1 /\ size[b] \in 1 .. WORD - 1 /\ n <= size[b]
    BY <2>1, HeapAssumption DEF Sizes
  <2> DEFINE d == Class(size[b])
  <2>3. d \in Classes
    BY <2>2, ClassAssumption DEF Classes
  <2>4. lists.at[d] # <<>>
    <3>1. PICK k \in 1 .. Len(lists.at[d]) : TRUE
      BY <2>1 DEF Hold
    <3>2. lists.at[d] \in Seq(Nat)
      BY <2>1, <2>3 DEF ListsOK
    <3> HIDE DEF d
    <3> QED BY <3>1, <3>2
  <2>5. Before(Class(n), d)
    BY <2>2, ClassOrder
  <2> HIDE DEF d
  <2>6. PICK c \in Levels \X Buckets : Found(c, n)
    BY <2>1, <2>2, <2>3, <2>4, <2>5, FindsNonempty
  <2>7. c \in Classes /\ lists.at[c] # <<>> /\ size[Head(lists.at[c])] \in 1 .. WORD - 1
    BY <2>6, FoundHead DEF Classes
  <2>8. c # Class(n) => size[Head(lists.at[c])] >= n
    <3>1. size[Head(lists.at[c])] <= n => c = Class(n)
      BY <2>6, <2>7, FoundShort
    <3> QED BY <2>2, <2>7, <3>1
  <2> QED BY <2>6, <2>7, <2>8
<1> QED BY <1>1, HeapInductive, PTL

\* A block that is too small is taken only where find() does not look at sizes: from
\* the list of the very class of the request; and the heap is brought out of order by
\* such a block only.
THEOREM ShortBlocksAreClassmates == Spec => ShortOnlyInOwnClass
<1> DEFINE Short == \A b \in Live' \ Live : size[b] < asked'[b] => Class(size[b]) = Class(asked'[b])
           Cause == Intact /\ ~Intact' => \E b \in Live' \ Live : size[b] < asked'[b]
<1>1. ASSUME HeapInv, [Next]_vars
      PROVE  Short /\ Cause
  <2>1. CASE UNCHANGED vars
    BY <2>1 DEF vars, Live, Intact, Blocks
  <2>2. ASSUME NEW a \in Live, Free(a) PROVE Short /\ Cause
    <3>1. asked' = [x \in Live \ {a} |-> asked[x]] /\ size' = size
      BY <2>2 DEF Free
    <3>2. Live' \subseteq Live
      BY <3>1 DEF Live
    <3> QED BY <3>1, <3>2 DEF Intact, Blocks
  <2>3. ASSUME NEW n \in Requests, Malloc(n) PROVE Short /\ Cause
    <3>1. PICK c \in Classes : Found(c, n) /\ TakeFrom(c, n) /\ Intact
      BY <2>3 DEF Malloc, Classes
    <3> DEFINE h == Head(lists.at[c])
    <3>2. asked' = [a \in Live \cup {h} |-> IF a = h THEN n ELSE asked[a]]
      BY <3>1 DEF TakeFrom
    <3>3. Live' = Live \cup {h} /\ asked'[h] = n
      BY <3>2 DEF Live
    <3>4. Class(size[h]) = c /\ size[h] \in 1 .. WORD - 1 /\ h \in FreeBlocks
      BY <1>1, <3>1, FoundHead
    <3>5. n \in 1 .. WORD - 1
      BY HeapAssumption
    <3>6. size[h] <= n => c = Class(n)
      BY <1>1, <3>1, FoundShort
    <3>7. size[h] >= n => Intact'
      BY <1>1, <3>1, LargeKeepsIntact
    <3>8. h \notin Live
      BY <3>4 DEF FreeBlocks
    <3> HIDE DEF h
    <3>9. Short
      <4> SUFFICES ASSUME NEW b \in Live' \ Live, size[b] < asked'[b]
                   PROVE  Class(size[b]) = Class(asked'[b])
        OBVIOUS
      <4>1. b = h
        BY <3>3
      <4> QED BY <3>3, <3>4, <3>5, <3>6, <4>1
    <3>10. Cause
      BY <3>3, <3>4, <3>5, <3>7, <3>8
    <3> QED BY <3>9, <3>10
  <2> QED BY <1>1, <2>1, <2>2, <2>3 DEF Next
<1>2. HeapInv /\ [Next]_vars =>
        [ /\ \A b \in Live' \ Live : size[b] < asked'[b] => Class(size[b]) = Class(asked'[b])
          /\ Intact /\ ~Intact' => \E b \in Live' \ Live : size[b] < asked'[b] ]_vars
  BY <1>1
<1> QED BY <1>2, HeapInductive, PTL DEF Spec, ShortOnlyInOwnClass

(***************************************************************************)
(* Sums of sizes.                                                          *)
(***************************************************************************)

\* The addresses, and the end of the heap.
Units == 0 .. HEAP_UNITS

\* w are the partial sums of the numbers c, one for each unit of the heap.
PartialSums(w, c, n) ==
  /\ w \in [0 .. n -> Int] /\ w[0] = 0
  /\ \A i \in 1 .. n : w[i] = w[i - 1] + c[i - 1]

\* Their sum.
Total(c) == (CHOOSE w : PartialSums(w, c, HEAP_UNITS + 1))[HEAP_UNITS + 1]

\* The numbers of S, with 0 elsewhere.
Part(g, S) == [i \in Units |-> IF i \in S THEN g[i] ELSE 0]

\* Any numbers have their sums.
LEMMA SumsExist ==
  ASSUME NEW c \in [Units -> Int] PROVE \E w : PartialSums(w, c, HEAP_UNITS + 1)
<1> DEFINE Good == {n \in Nat : n <= HEAP_UNITS + 1 => \E w : PartialSums(w, c, n)}
<1>1. 0 \in Good
  <2>1. PartialSums([i \in 0 .. 0 |-> 0], c, 0)
    BY DEF PartialSums
  <2> QED BY <2>1
<1>2. ASSUME NEW n \in 1 .. HEAP_UNITS + 1, n - 1 \in Good PROVE n \in Good
  <2>1. PICK w : PartialSums(w, c, n - 1)
    BY <1>2, HeapAssumption
  <2> DEFINE v == [i \in 0 .. n |-> IF i = n THEN w[n - 1] + c[n - 1] ELSE w[i]]
  <2>2. n - 1 \in Units /\ n - 1 \in 0 .. n - 1 /\ HEAP_UNITS \in Nat /\ n \in Nat
    BY HeapAssumption DEF Units
  <2>3. v \in [0 .. n -> Int]
    BY <2>1, <2>2 DEF PartialSums
  <2>4. v[0] = 0
    BY <2>1, <2>2 DEF PartialSums
  <2>5. \A i \in 1 .. n : v[i] = v[i - 1] + c[i - 1]
    <3> SUFFICES ASSUME NEW i \in 1 .. n PROVE v[i] = v[i - 1] + c[i - 1]
      OBVIOUS
    <3>1. i \in 0 .. n /\ i - 1 \in 0 .. n /\ i - 1 # n
      BY <2>2
    <3>2. CASE i = n
      BY <3>1, <3>2
    <3>3. CASE i # n
      <4>1. i \in 1 .. n - 1
        BY <2>2, <3>3
      <4> QED BY <2>1, <3>1, <3>3, <4>1 DEF PartialSums
    <3> QED BY <3>2, <3>3
  <2>6. PartialSums(v, c, n)
    <3> HIDE DEF v
    <3> QED BY <2>3, <2>4, <2>5 DEF PartialSums
  <2> HIDE DEF v
  <2> QED BY <2>2, <2>6
<1>3. HEAP_UNITS + 1 \in Nat /\ HEAP_UNITS + 1 \in 0 .. HEAP_UNITS + 1
  BY HeapAssumption
<1>4. HEAP_UNITS + 1 \in Good
  <2>1. Good \in SUBSET Nat
    OBVIOUS
  <2> HIDE DEF Good
  <2> QED BY <1>1, <1>2, <1>3, <2>1, UpTo
<1> QED BY <1>3, <1>4

\* Changing one of the numbers changes the sum by the difference.
LEMMA TotalChange ==
  ASSUME NEW c \in [Units -> Int], NEW d \in [Units -> Int], NEW x \in Units,
         \A i \in Units \ {x} : c[i] = d[i]
  PROVE  Total(c) \in Int /\ Total(d) = Total(c) + (d[x] - c[x])
<1> DEFINE N == HEAP_UNITS + 1
           v == CHOOSE w : PartialSums(w, c, N)
           w == CHOOSE w : PartialSums(w, d, N)
<1>1. PartialSums(v, c, N) /\ PartialSums(w, d, N)
  BY SumsExist
<1>2. Total(c) = v[N] /\ Total(d) = w[N]
  BY DEF Total
<1>3. N \in Nat /\ N \in 0 .. N /\ x \in 0 .. N - 1 /\ Units = 0 .. N - 1 /\ x < N
  BY HeapAssumption DEF Units
<1> HIDE DEF v, w, N
<1> DEFINE Good == {i \in Nat : i <= N => w[i] = v[i] + (IF x < i THEN d[x] - c[x] ELSE 0)}
<1>4. 0 \in Good
  BY <1>1, <1>3 DEF PartialSums
<1>5. ASSUME NEW i \in 1 .. N, i - 1 \in Good PROVE i \in Good
  <2>1. /\ w[i] = w[i - 1] + d[i - 1] /\ v[i] = v[i - 1] + c[i - 1]
        /\ v[i] \in Int /\ w[i] \in Int /\ v[i - 1] \in Int /\ w[i - 1] \in Int
        /\ c[i - 1] \in Int /\ d[i - 1] \in Int /\ c[x] \in Int /\ d[x] \in Int
    <3>1. i - 1 \in 0 .. N /\ i \in 0 .. N /\ i - 1 \in Units
      BY <1>3
    <3> QED BY <1>1, <3>1 DEF PartialSums
  <2>2. w[i - 1] = v[i - 1] + (IF x < i - 1 THEN d[x] - c[x] ELSE 0)
    BY <1>3, <1>5
  <2>3. CASE i - 1 = x
    <3>1. ~ (x < i - 1) /\ x < i
      BY <1>3, <2>3
    <3> QED BY <2>1, <2>2, <2>3, <3>1
  <2>4. CASE i - 1 # x
    <3>1. c[i - 1] = d[i - 1] /\ (x < i <=> x < i - 1)
      BY <1>3, <2>4
    <3> QED BY <2>1, <2>2, <3>1
  <2> QED BY <2>3, <2>4
<1>6. N \in Good
  <2>1. Good \in SUBSET Nat
    OBVIOUS
  <2> HIDE DEF Good
  <2> QED BY <1>3, <1>4, <1>5, <2>1, UpTo
<1>7. v[N] \in Int
  BY <1>1, <1>3 DEF PartialSums
<1> QED BY <1>2, <1>3, <1>6, <1>7

\* Nothing adds up to 0.
LEMMA TotalNone == ASSUME NEW g PROVE Total(Part(g, {})) = 0
<1> DEFINE N == HEAP_UNITS + 1
           c == Part(g, {})
           w == CHOOSE w : PartialSums(w, c, N)
<1>0. c \in [Units -> Int] /\ \A i \in Units : c[i] = 0
  BY DEF Part
<1>1. PartialSums(w, c, N)
  <2> HIDE DEF c
  <2> QED BY <1>0, SumsExist
<1>2. Total(c) = w[N]
  BY DEF Total
<1>3. N \in Nat /\ N \in 0 .. N /\ Units = 0 .. N - 1
  BY HeapAssumption DEF Units
<1> HIDE DEF w, N, c
<1> DEFINE Good == {i \in Nat : i <= N => w[i] = 0}
<1>4. 0 \in Good
  BY <1>1 DEF PartialSums
<1>5. ASSUME NEW i \in 1 .. N, i - 1 \in Good PROVE i \in Good
  <2>1. i - 1 \in Units /\ w[i - 1] = 0
    BY <1>3, <1>5
  <2>2. w[i] = w[i - 1] + c[i - 1]
    BY <1>1 DEF PartialSums
  <2> QED BY <1>0, <2>1, <2>2
<1>6. N \in Good
  <2>1. Good \in SUBSET Nat
    OBVIOUS
  <2> HIDE DEF Good
  <2> QED BY <1>3, <1>4, <1>5, <2>1, UpTo
<1> QED BY <1>2, <1>3, <1>6 DEF c

\* One more number, or one less.
LEMMA TotalAdd ==
  ASSUME NEW g, NEW S \in SUBSET Units, \A i \in S : g[i] \in Int,
         NEW h, NEW x \in Units \ S, h[x] \in Int, \A i \in S : h[i] = g[i]
  PROVE  /\ Total(Part(g, S)) \in Int
         /\ Total(Part(h, S \cup {x})) = Total(Part(g, S)) + h[x]
<1> DEFINE c == Part(g, S)
           d == Part(h, S \cup {x})
<1>1. c \in [Units -> Int] /\ d \in [Units -> Int]
  BY DEF Part
<1>2. c[x] = 0 /\ d[x] = h[x] /\ \A i \in Units \ {x} : c[i] = d[i]
  BY DEF Part
<1> HIDE DEF c, d
<1>3. Total(c) \in Int /\ Total(d) = Total(c) + (d[x] - c[x])
  BY <1>1, <1>2, TotalChange
<1>4. d[x] - c[x] = h[x]
  BY <1>2
<1> QED BY <1>3, <1>4 DEF c, d

\* The sum as the recursion over the elements of a set computes it.
Step(g, s, iter) ==
  IF s = {} THEN 0
  ELSE g[CHOOSE x \in s : TRUE] + iter[s \ {CHOOSE x \in s : TRUE}]
FoldOf(g, S) == (CHOOSE iter : iter = [s \in SUBSET S |-> Step(g, s, iter)])[S]

\* It does not depend on the order of the elements.
LEMMA FoldIsTotal ==
  ASSUME NEW g, NEW S \in SUBSET Units, \A i \in S : g[i] \in Int
  PROVE  FoldOf(g, S) = Total(Part(g, S))
<1> DEFINE T == [s \in SUBSET S |-> Total(Part(g, s))]
           it == CHOOSE iter : iter = [s \in SUBSET S |-> Step(g, s, iter)]
<1>1. ASSUME NEW s \in SUBSET S, s # {}
      PROVE  LET x == CHOOSE x \in s : TRUE
             IN  /\ x \in s /\ s \ {x} \in SUBSET S
                 /\ Total(Part(g, s)) = g[x] + Total(Part(g, s \ {x}))
  <2> DEFINE x == CHOOSE x \in s : TRUE
             r == s \ {x}
  <2>1. x \in s
    BY <1>1
  <2>2. r \in SUBSET Units /\ x \in Units \ r /\ s = r \cup {x} /\ r \in SUBSET S
        /\ \A i \in r : g[i] \in Int
    BY <2>1
  <2>3. g[x] \in Int
    BY <2>1
  <2> HIDE DEF x, r
  <2>4. Total(Part(g, r)) \in Int /\ Total(Part(g, r \cup {x})) = Total(Part(g, r)) + g[x]
    BY <2>2, <2>3, TotalAdd
  <2>5. Total(Part(g, s)) = g[x] + Total(Part(g, r))
    BY <2>2, <2>3, <2>4
  <2> QED BY <2>1, <2>2, <2>5 DEF x, r
<1>2. \A s \in SUBSET S : T[s] = Step(g, s, T)
  <2> SUFFICES ASSUME NEW s \in SUBSET S PROVE T[s] = Step(g, s, T)
    OBVIOUS
  <2>1. CASE s = {}
    BY <2>1, TotalNone DEF Step
  <2>2. CASE s # {}
    BY <1>1, <2>2 DEF Step
  <2> QED BY <2>1, <2>2
<1>3. T = [s \in SUBSET S |-> Step(g, s, T)]
  <2>1. DOMAIN T = SUBSET S /\ T = [s \in SUBSET S |-> T[s]]
    OBVIOUS
  <2> HIDE DEF T
  <2> QED BY <1>2, <2>1
<1>4. it = [s \in SUBSET S |-> Step(g, s, it)]
  <2> HIDE DEF T
  <2> QED BY <1>3
<1> HIDE DEF it
<1>5. \A s \in SUBSET S : it[s] = Step(g, s, it)
  BY <1>4
<1> DEFINE R == StrictSubsetOrdering(Units)
           F == FiniteSubsetsOf(Units)
           bad == {s \in SUBSET S : it[s] # Total(Part(g, s))}
<1>6. IsWellFoundedOn(R, F)
  BY FS_StrictSubsetOrderingWellFounded
<1>7. bad \subseteq F
  <2>1. IsFiniteSet(Units)
    BY HeapAssumption, FS_Interval DEF Units
  <2>2. \A s \in SUBSET Units : IsFiniteSet(s)
    BY <2>1, FS_Subset
  <2> QED BY <2>2 DEF FiniteSubsetsOf
<1>8. ASSUME bad # {} PROVE FALSE
  <2>1. PICK s \in bad : \A t \in bad : ~ (<<t, s>> \in R)
    <3> HIDE DEF bad, R, F
    <3> QED BY <1>6, <1>7, <1>8, WFMin
  <2>2. s # {}
    BY <1>5, <2>1, TotalNone DEF Step
  <2> DEFINE x == CHOOSE x \in s : TRUE
             r == s \ {x}
  <2>3. /\ x \in s /\ r \in SUBSET S
        /\ Total(Part(g, s)) = g[x] + Total(Part(g, r))
    BY <1>1, <2>1, <2>2
  <2>4. it[s] = g[x] + it[r]
    BY <1>5, <2>1, <2>2 DEF Step
  <2>5. r \in bad
    BY <2>1, <2>3, <2>4
  <2>6. <<r, s>> \in R
    <3>1. s \in SUBSET Units /\ r \in SUBSET Units /\ r \subseteq s /\ r # s
      BY <2>1, <2>3
    <3> HIDE DEF r
    <3> QED BY <3>1 DEF R, StrictSubsetOrdering
  <2> QED BY <2>1, <2>5, <2>6
<1>9. it[S] = Total(Part(g, S))
  BY <1>8
<1> QED BY <1>9 DEF FoldOf, it

\* The sums that mm_stats_print() shows are such sums, now and after a step.
LEMMA SizeOfIsFold ==
  /\ SizeOf(Live) = FoldOf(size, Live)
  /\ SizeOf(FreeBlocks) = FoldOf(size, FreeBlocks)
  /\ SizeOf(Live)' = FoldOf(size', Live')
  /\ SizeOf(FreeBlocks)' = FoldOf(size', FreeBlocks')
<1>1. SizeOf(Live) = FoldOf(size, Live)
  BY DEF SizeOf, MapThenSumSet, MapThenFoldSet, FoldOf, Step
<1>2. SizeOf(FreeBlocks) = FoldOf(size, FreeBlocks)
  BY DEF SizeOf, MapThenSumSet, MapThenFoldSet, FoldOf, Step
<1>3. SizeOf(Live)' = FoldOf(size', Live')
  BY DEF SizeOf, MapThenSumSet, MapThenFoldSet, FoldOf, Step
<1>4. SizeOf(FreeBlocks)' = FoldOf(size', FreeBlocks')
  BY DEF SizeOf, MapThenSumSet, MapThenFoldSet, FoldOf, Step
<1> QED BY <1>1, <1>2, <1>3, <1>4

\* The sum with one more element.
LEMMA FoldAdd ==
  ASSUME NEW g, NEW S \in SUBSET Units, \A i \in S : g[i] \in Int,
         NEW h, NEW x \in Units \ S, h[x] \in Int, \A i \in S : h[i] = g[i]
  PROVE  /\ FoldOf(g, S) \in Int
         /\ FoldOf(h, S \cup {x}) = FoldOf(g, S) + h[x]
<1>1. S \cup {x} \in SUBSET Units /\ \A i \in S \cup {x} : h[i] \in Int
  OBVIOUS
<1>2. FoldOf(g, S) = Total(Part(g, S)) /\ FoldOf(h, S \cup {x}) = Total(Part(h, S \cup {x}))
  BY <1>1, FoldIsTotal
<1>3. Total(Part(g, S)) \in Int /\ Total(Part(h, S \cup {x})) = Total(Part(g, S)) + h[x]
  BY TotalAdd
<1> QED BY <1>2, <1>3

\* The same with one function of sizes.
LEMMA FoldMore ==
  ASSUME NEW g, NEW S \in SUBSET Units, \A i \in S : g[i] \in Int,
         NEW x \in Units \ S, g[x] \in Int
  PROVE  /\ FoldOf(g, S) \in Int
         /\ FoldOf(g, S \cup {x}) = FoldOf(g, S) + g[x]
<1>1. \A i \in S : g[i] = g[i]
  OBVIOUS
<1> QED BY <1>1, FoldAdd

\* No numbers.
LEMMA FoldNone == ASSUME NEW g PROVE FoldOf(g, {}) = 0
<1>1. {} \in SUBSET Units /\ \A i \in {} : g[i] \in Int
  OBVIOUS
<1>2. FoldOf(g, {}) = Total(Part(g, {}))
  BY <1>1, FoldIsTotal
<1> QED BY <1>2, TotalNone

\* Only the numbers of the set count.
LEMMA FoldSame ==
  ASSUME NEW g, NEW h, NEW S \in SUBSET Units, \A i \in S : g[i] \in Int /\ h[i] = g[i]
  PROVE  FoldOf(h, S) = FoldOf(g, S)
<1>1. Part(h, S) = Part(g, S)
  BY DEF Part
<1>2. \A i \in S : h[i] \in Int
  OBVIOUS
<1> QED BY <1>1, <1>2, FoldIsTotal

(***************************************************************************)
(* The types.                                                              *)
(***************************************************************************)

\* The lists hold blocks of B.
Held(L, B) ==
  /\ L.at \in [Classes -> Seq(B)]
  /\ L.flbmp \in SUBSET Levels
  /\ L.slbmp \in [Levels -> SUBSET Buckets]

\* TypeOK without the counters.
Typed ==
  /\ Blocks \in SUBSET Nat
  /\ size \in Sizes(Blocks)
  /\ Held(lists, Blocks)
  /\ Live \in SUBSET Blocks
  /\ asked \in [Live -> Requests]

\* What the counters count.
Counted == Intact => used = FoldOf(size, Live) /\ fre = FoldOf(size, FreeBlocks)

\* TypeOK in these terms.
LEMMA TypeOKIs == TypeOK <=> Typed /\ Counted
BY SizeOfIsFold DEF TypeOK, Typed, Counted, Held, Sizes, Classes

LEMMA SeqGrows ==
  ASSUME NEW B, NEW C, B \subseteq C, NEW q \in Seq(B)
  PROVE  q \in Seq(C)
OBVIOUS

\* The lists after ins() and rem().
LEMMA InsTypes ==
  ASSUME NEW L, NEW B, Held(L, B), NEW C, B \subseteq C, NEW b \in C, NEW n \in 1 .. WORD - 1
  PROVE  Held(Ins(L, b, n), C)
<1> DEFINE c == Class(n)
<1>1. c \in Classes /\ c[1] \in Levels /\ c[2] \in Buckets
  BY ClassAssumption DEF Classes
<1>2. L.at \in [Classes -> Seq(C)]
  BY SeqGrows DEF Held
<1>3. <<b>> \o L.at[c] \in Seq(C)
  BY <1>1, <1>2
<1>4. Ins(L, b, n) = [at    |-> [L.at EXCEPT ![c] = <<b>> \o L.at[c]],
                      flbmp |-> L.flbmp \cup {c[1]},
                      slbmp |-> [L.slbmp EXCEPT ![c[1]] = L.slbmp[c[1]] \cup {c[2]}]]
  BY DEF Ins
<1> HIDE DEF c
<1>5. [L.at EXCEPT ![c] = <<b>> \o L.at[c]] \in [Classes -> Seq(C)]
  BY <1>1, <1>2, <1>3
<1> QED BY <1>1, <1>4, <1>5 DEF Held

LEMMA RemTypes ==
  ASSUME NEW L, NEW B, Held(L, B), NEW n \in 1 .. WORD - 1, L.at[Class(n)] # <<>>
  PROVE  Held(Rem(L, n), B)
<1> DEFINE c == Class(n)
           rest == Tail(L.at[c])
           left == IF rest = <<>> THEN L.slbmp[c[1]] \ {c[2]} ELSE L.slbmp[c[1]]
<1>1. c \in Classes /\ c[1] \in Levels /\ c[2] \in Buckets
  BY ClassAssumption DEF Classes
<1>2. rest \in Seq(B)
  <2>1. L.at[c] \in Seq(B) /\ L.at[c] # <<>>
    BY <1>1 DEF Held
  <2> HIDE DEF c
  <2> QED BY <2>1
<1>3. left \in SUBSET Buckets
  BY <1>1 DEF Held
<1>4. Rem(L, n) = [at    |-> [L.at EXCEPT ![c] = rest],
                   flbmp |-> IF left = {} THEN L.flbmp \ {c[1]} ELSE L.flbmp,
                   slbmp |-> [L.slbmp EXCEPT ![c[1]] = left]]
  BY DEF Rem
<1> HIDE DEF c, rest, left
<1> QED BY <1>1, <1>2, <1>3, <1>4 DEF Held

\* The blocks lie in the heap.
LEMMA BlocksInUnits ==
  ASSUME Typed, Intact
  PROVE  Blocks \in SUBSET Units /\ \A b \in Blocks : size[b] \in Int
<1>1. ASSUME NEW b \in Blocks PROVE b \in Units /\ size[b] \in Int
  <2>1. b \in Nat /\ size[b] \in 1 .. WORD - 1 /\ b + size[b] <= HEAP_UNITS
    BY DEF Typed, Sizes, Intact
  <2> QED BY <2>1, HeapAssumption DEF Units
<1> QED BY <1>1

\* The types and the counters after each call.
LEMMA TypedFree ==
  ASSUME Typed, NEW b \in Live, Free(b) PROVE Typed'
<1>1. /\ lists' = Ins(lists, b, size[b])
      /\ asked' = [a \in Live \ {b} |-> asked[a]] /\ size' = size
  BY DEF Free
<1>2. Held(Ins(lists, b, size[b]), Blocks)
  BY InsTypes DEF Typed, Sizes
<1>3. Blocks' = Blocks /\ Live' = Live \ {b}
  BY <1>1 DEF Blocks, Live
<1>4. asked' \in [Live' -> Requests] /\ Held(lists', Blocks')
  BY <1>1, <1>2, <1>3 DEF Typed
<1> QED BY <1>1, <1>3, <1>4 DEF Typed

LEMMA CountedFree ==
  ASSUME Typed, Counted, NEW b \in Live, Free(b) PROVE Counted'
<1>1. /\ Intact /\ used' = used - size[b] /\ fre' = fre + size[b]
      /\ asked' = [a \in Live \ {b} |-> asked[a]] /\ size' = size
  BY DEF Free, Returned
<1>2. Blocks' = Blocks /\ Live' = Live \ {b} /\ FreeBlocks' = FreeBlocks \cup {b}
      /\ b \in Blocks /\ b \notin FreeBlocks /\ FreeBlocks \subseteq Blocks
  BY <1>1 DEF Blocks, Live, FreeBlocks, Typed
<1>3. Blocks \in SUBSET Units /\ \A a \in Blocks : size[a] \in Int
  BY <1>1, BlocksInUnits
<1> DEFINE S == Live \ {b}
           T == FreeBlocks
<1>4. S \in SUBSET Units /\ T \in SUBSET Units /\ b \in Units \ S /\ b \in Units \ T
      /\ Live = S \cup {b} /\ size[b] \in Int
      /\ (\A i \in S : size[i] \in Int) /\ (\A i \in T : size[i] \in Int)
  BY <1>2, <1>3 DEF Typed
<1>5. used = FoldOf(size, Live) /\ fre = FoldOf(size, T)
  BY <1>1 DEF Counted
<1> HIDE DEF S, T
<1>6. FoldOf(size, S) \in Int /\ FoldOf(size, S \cup {b}) = FoldOf(size, S) + size[b]
  BY <1>4, FoldMore
<1>7. FoldOf(size, T) \in Int /\ FoldOf(size, T \cup {b}) = FoldOf(size, T) + size[b]
  BY <1>4, FoldMore
<1>8. used' = FoldOf(size', Live')
  <2>1. Live' = S /\ used = FoldOf(size, S) + size[b]
    BY <1>2, <1>4, <1>5, <1>6 DEF S
  <2> QED BY <1>1, <1>4, <1>6, <2>1
<1>9. fre' = FoldOf(size', FreeBlocks')
  BY <1>1, <1>2, <1>5, <1>7 DEF T
<1> QED BY <1>8, <1>9 DEF Counted

\* What k_malloc() does with the block b of size s, when r is the rest and e its place.
Took(n, b, s, r, e) ==
  /\ s = size[b] /\ e = b + n /\ lists.at[Class(s)] # <<>>
  /\ s >= n => r = s - n
  /\ s < n => r = s - n + WORD
  /\ r >= 2 => /\ size' = [a \in Blocks \cup {e} |->
                             CASE a = e -> r [] a = b -> n [] OTHER -> size[a]]
               /\ lists' = Ins(Rem(lists, s), e, r)
               /\ used' = used + n /\ fre' = fre - n
  /\ ~ (r >= 2) => /\ size' = [size EXCEPT ![b] = s]
                   /\ lists' = Rem(lists, s)
                   /\ used' = used + s /\ fre' = fre - s
  /\ asked' = [a \in Live \cup {b} |-> IF a = b THEN n ELSE asked[a]]

LEMMA TakeFacts ==
  ASSUME HeapInv, Intact, Typed, NEW n \in Requests, NEW c \in Classes, Found(c, n),
         TakeFrom(c, n)
  PROVE  \E b \in FreeBlocks, s \in 1 .. WORD - 1, r \in 0 .. WORD - 1, e \in Nat :
           Took(n, b, s, r, e)
<1> DEFINE b == Head(lists.at[c])
           s == size[b]
           r == (s - n) % WORD
           e == b + n
<1>1. lists.at[c] # <<>> /\ b \in FreeBlocks /\ Class(s) = c /\ s \in 1 .. WORD - 1
  BY FoundHead
<1>2. n \in 1 .. WORD - 1 /\ b \in Nat
  BY <1>1, HeapAssumption DEF FreeBlocks, Typed
<1>3. /\ r >= 2 => /\ size' = [a \in Blocks \cup {e} |->
                                 CASE a = e -> r [] a = b -> n [] OTHER -> size[a]]
                   /\ lists' = Ins(Rem(lists, s), e, r)
                   /\ used' = used + n /\ fre' = fre - n
      /\ ~ (r >= 2) => /\ size' = [size EXCEPT ![b] = s]
                       /\ lists' = Rem(lists, s)
                       /\ used' = used + s /\ fre' = fre - s
      /\ asked' = [a \in Live \cup {b} |-> IF a = b THEN n ELSE asked[a]]
  BY DEF TakeFrom, Splits, Given
<1> HIDE DEF b, s
<1>4. (s >= n => r = s - n) /\ (s < n => r = s - n + WORD)
  BY <1>1, <1>2, Difference
<1>5. r \in 0 .. WORD - 1 /\ e \in Nat
  BY <1>1, <1>2, HeapAssumption
<1> HIDE DEF r, e
<1>6. s = size[b] /\ e = b + n
  BY DEF s, e
<1>7. Took(n, b, s, r, e)
  BY <1>1, <1>3, <1>4, <1>6 DEF Took
<1> QED BY <1>1, <1>5, <1>7

LEMMA TypedMalloc ==
  ASSUME HeapInv, Typed, NEW n \in Requests, Malloc(n) PROVE Typed'
<1>1. PICK c \in Classes : Intact /\ Found(c, n) /\ TakeFrom(c, n)
  BY DEF Malloc, Classes
<1>2. PICK b \in FreeBlocks, s \in 1 .. WORD - 1, r \in 0 .. WORD - 1, e \in Nat :
        Took(n, b, s, r, e)
  BY <1>1, TakeFacts
<1>3. Held(Rem(lists, s), Blocks)
  BY <1>2, RemTypes DEF Took, Typed
<1>4. b \in Blocks /\ n \in 1 .. WORD - 1 /\ WORD \in Nat
  BY HeapAssumption DEF FreeBlocks
<1>5. Live' = Live \cup {b} /\ asked' \in [Live' -> Requests]
  <2>1. Live' = Live \cup {b}
    BY <1>2 DEF Took, Live
  <2> QED BY <1>2, <2>1 DEF Took, Typed
<1>6. CASE r >= 2
  <2>1. Blocks' = Blocks \cup {e}
    BY <1>2, <1>6 DEF Took, Blocks
  <2>2. r \in 1 .. WORD - 1
    BY <1>4, <1>6
  <2>3. size' \in Sizes(Blocks')
    BY <1>2, <1>4, <1>6, <2>1, <2>2 DEF Took, Typed, Sizes
  <2>4. Held(Ins(Rem(lists, s), e, r), Blocks \cup {e})
    BY <1>3, <2>2, InsTypes
  <2> QED BY <1>2, <1>4, <1>5, <1>6, <2>1, <2>3, <2>4 DEF Took, Typed
<1>7. CASE ~ (r >= 2)
  <2>1. size' = size
    BY <1>2, <1>7 DEF Took, Typed, Sizes
  <2>2. Blocks' = Blocks
    BY <2>1 DEF Blocks
  <2> QED BY <1>2, <1>3, <1>4, <1>5, <1>7, <2>1, <2>2 DEF Took, Typed
<1> QED BY <1>6, <1>7

LEMMA CountedMalloc ==
  ASSUME HeapInv, Typed, Counted, NEW n \in Requests, Malloc(n), Intact' PROVE Counted'
<1>1. PICK c \in Classes : Intact /\ Found(c, n) /\ TakeFrom(c, n)
  BY DEF Malloc, Classes
<1>2. PICK b \in FreeBlocks, s \in 1 .. WORD - 1, r \in 0 .. WORD - 1, e \in Nat :
        Took(n, b, s, r, e)
  BY <1>1, TakeFacts
<1>3. /\ b \in Blocks /\ b \notin Live /\ n \in 1 .. WORD - 1 /\ WORD \in Nat
      /\ Live' = Live \cup {b} /\ HEAP_UNITS \in Nat /\ HEAP_UNITS < WORD /\ b \in Nat
  <2>1. b \in Blocks /\ b \notin Live /\ b \in Nat
    BY DEF FreeBlocks, Typed
  <2>2. Live' = Live \cup {b}
    BY <1>2 DEF Took, Live
  <2> QED BY <2>1, <2>2, HeapAssumption
<1>4. Blocks \in SUBSET Units /\ \A a \in Blocks : size[a] \in Int
  BY <1>1, BlocksInUnits
<1> DEFINE S == FreeBlocks \ {b}
<1>5. /\ Live \in SUBSET Units /\ S \in SUBSET Units /\ b \in Units \ Live /\ b \in Units \ S
      /\ FreeBlocks = S \cup {b} /\ FreeBlocks \in SUBSET Blocks /\ Live \in SUBSET Blocks
      /\ (\A i \in Live : size[i] \in Int) /\ (\A i \in S : size[i] \in Int)
      /\ S \in SUBSET Blocks /\ b \notin S
  BY <1>3, <1>4 DEF Typed, FreeBlocks
<1>6. used = FoldOf(size, Live) /\ fre = FoldOf(size, FreeBlocks)
  BY <1>1 DEF Counted
<1>s. FreeBlocks' = (Blocks') \ (Live \cup {b}) /\ S = Blocks \ (Live \cup {b})
  BY <1>3 DEF FreeBlocks
<1> HIDE DEF S
<1>7. FoldOf(size, S) \in Int /\ FoldOf(size, S \cup {b}) = FoldOf(size, S) + s
  <2>1. size[b] = s /\ size[b] \in Int
    BY <1>2, <1>3 DEF Took
  <2>2. FoldOf(size, S) \in Int /\ FoldOf(size, S \cup {b}) = FoldOf(size, S) + size[b]
    BY <1>5, <2>1, FoldMore
  <2> QED BY <2>1, <2>2
<1>8. CASE s < n
  <2>1. r = s - n + WORD /\ r >= 2
    BY <1>2, <1>3, <1>8 DEF Took
  <2>2. e \in Blocks' /\ size'[e] = r
    <3>1. size' = [a \in Blocks \cup {e} |->
                     CASE a = e -> r [] a = b -> n [] OTHER -> size[a]]
      BY <1>2, <2>1 DEF Took
    <3>2. e # b
      BY <1>2, <1>3 DEF Took
    <3> QED BY <3>1, <3>2 DEF Blocks
  <2>3. e + r <= HEAP_UNITS
    BY <2>2 DEF Intact
  <2> QED BY SMTT(30), <1>2, <1>3, <2>1, <2>3 DEF Took
<1>9. CASE s >= n /\ r >= 2
  <2>1. /\ size' = [a \in Blocks \cup {e} |->
                                      CASE a = e -> r [] a = b -> n [] OTHER -> size[a]]
        /\ used' = used + n /\ fre' = fre - n /\ r = s - n /\ Blocks' = Blocks \cup {e}
    BY <1>2, <1>9 DEF Took, Blocks
  <2>2. e \notin Blocks /\ e # b
    <3>1. e # b
      BY <1>2, <1>3 DEF Took
    <3>2. ASSUME e \in Blocks PROVE FALSE
      <4>1. Tiles(Blocks, size)
        BY <1>1 DEF HeapInv, Sound
      <4>2. b < e /\ ~ (b + s <= e)
        BY <1>2, <1>3, <1>9 DEF Took
      <4> QED BY <1>2, <1>3, <3>2, <4>1, <4>2 DEF Took, Tiles
    <3> QED BY <3>1, <3>2
  <2>3. e \in Units
    <3>1. b + s <= HEAP_UNITS
      BY <1>1, <1>2, <1>3 DEF Took, Intact
    <3> QED BY <1>2, <1>3, <1>9, <3>1 DEF Took, Units
  <2>z. PICK z : z = size'
    OBVIOUS
  <2>4. z[e] = r /\ z[b] = n /\ \A a \in Blocks : a # b => z[a] = size[a]
    BY <1>3, <2>z, <2>1, <2>2
  <2>5. FoldOf(size, Live) \in Int /\ FoldOf(z, Live \cup {b}) = FoldOf(size, Live) + n
    <3>1. n \in Int /\ \A i \in Live : z[i] = size[i]
      BY <1>3, <1>5, <2>4
    <3>2. z[b] \in Int /\ z[b] = n
      BY <2>4, <3>1
    <3>3. FoldOf(z, Live) = FoldOf(size, Live)
      BY <1>5, <3>1, FoldSame
    <3>4. FoldOf(z, Live) \in Int /\ FoldOf(z, Live \cup {b}) = FoldOf(z, Live) + z[b]
      <4>1. \A i \in Live : z[i] \in Int
        BY <1>5, <3>1
      <4> QED BY <1>5, <3>2, <4>1, FoldMore
    <3> QED BY <3>2, <3>3, <3>4
  <2>6. FoldOf(z, S \cup {e}) = FoldOf(size, S) + r
    <3>1. r \in Int /\ e \in Units \ S /\ \A i \in S : z[i] = size[i]
      BY <1>5, <2>2, <2>3, <2>4
    <3>2. z[e] \in Int /\ z[e] = r
      BY <2>4, <3>1
    <3>3. FoldOf(z, S) = FoldOf(size, S)
      BY <1>5, <3>1, FoldSame
    <3>4. FoldOf(z, S \cup {e}) = FoldOf(z, S) + z[e]
      <4>1. \A i \in S : z[i] \in Int
        BY <1>5, <3>1
      <4> QED BY <1>5, <3>1, <3>2, <4>1, FoldMore
    <3> QED BY <3>2, <3>3, <3>4
  <2>7. FreeBlocks' = S \cup {e}
    <3>1. e \notin Live \cup {b}
      BY <1>5, <2>2
    <3> QED BY <1>s, <2>1, <3>1
  <2>8. used' = FoldOf(z, Live')
    BY <1>3, <1>6, <2>1, <2>5
  <2>9. fre' = FoldOf(z, FreeBlocks')
    <3>1. fre = FoldOf(size, S) + s /\ s \in Int /\ n \in Int
      BY <1>3, <1>5, <1>6, <1>7
    <3> QED BY <1>7, <2>1, <2>6, <2>7, <3>1
  <2> QED BY <2>z, <2>8, <2>9 DEF Counted
<1>10. CASE s >= n /\ ~ (r >= 2)
  <2>1. size' = size /\ used' = used + s /\ fre' = fre - s
    BY <1>2, <1>10 DEF Took, Typed, Sizes
  <2>2. FreeBlocks' = S
    BY <1>s, <2>1 DEF Blocks
  <2>3. FoldOf(size, Live) \in Int /\ FoldOf(size, Live \cup {b}) = FoldOf(size, Live) + s
    <3>1. size[b] = s /\ size[b] \in Int
      BY <1>2, <1>3 DEF Took
    <3>2. FoldOf(size, Live) \in Int
          /\ FoldOf(size, Live \cup {b}) = FoldOf(size, Live) + size[b]
      BY <1>5, <3>1, FoldMore
    <3> QED BY <3>1, <3>2
  <2>4. fre = FoldOf(size, S) + s /\ s \in Int
    BY <1>3, <1>5, <1>6, <1>7
  <2>5. used' = FoldOf(size', Live') /\ fre' = FoldOf(size', FreeBlocks')
    BY <1>3, <1>6, <1>7, <2>1, <2>2, <2>3, <2>4
  <2> QED BY <2>5 DEF Counted
<1> QED BY <1>3, <1>8, <1>9, <1>10

\* The variables keep their types, also where k_malloc leaves the heap, and up to there
\* the counters of the heap are the sums of the live and of the free blocks.
THEOREM CountersAddUp == Spec => []TypeOK
<1>1. Init => Typed /\ Counted
  <2> SUFFICES ASSUME Init PROVE Typed /\ Counted
    OBVIOUS
  <2>1. /\ size = [b \in {0} |-> HEAP_UNITS] /\ lists = Ins(EmptyLists, 0, HEAP_UNITS)
        /\ used = 0 /\ fre = HEAP_UNITS /\ asked = <<>>
    BY DEF Init
  <2>2. Blocks = {0} /\ Live = {} /\ FreeBlocks = {0} /\ size[0] = HEAP_UNITS
    BY <2>1 DEF Blocks, Live, FreeBlocks
  <2>3. HEAP_UNITS \in 1 .. WORD - 1 /\ HEAP_UNITS \in Int /\ 0 \in Units
    BY HeapAssumption DEF Units
  <2>4. Held(EmptyLists, {})
    BY DEF Held, EmptyLists, Classes
  <2>5. Held(lists, {0})
    BY <2>1, <2>3, <2>4, InsTypes
  <2>6. Typed
    BY <2>1, <2>2, <2>3, <2>5 DEF Typed, Sizes
  <2>7. FoldOf(size, {}) = 0 /\ FoldOf(size, {} \cup {0}) = FoldOf(size, {}) + HEAP_UNITS
    <3>1. {} \in SUBSET Units /\ 0 \in Units \ {}
      BY <2>3
    <3>2. \A i \in {} : size[i] \in Int
      OBVIOUS
    <3> QED BY <2>2, <2>3, <3>1, <3>2, FoldNone, FoldAdd
  <2>8. {} \cup {0} = {0}
    OBVIOUS
  <2>9. Counted
    BY <2>1, <2>2, <2>3, <2>7, <2>8 DEF Counted
  <2> QED BY <2>6, <2>9
<1>2. HeapInv /\ Typed /\ Counted /\ [Next]_vars => Typed' /\ Counted'
  <2> SUFFICES ASSUME HeapInv, Typed, Counted, [Next]_vars PROVE Typed' /\ Counted'
    OBVIOUS
  <2>1. ASSUME NEW n \in Requests, Malloc(n) PROVE Typed' /\ Counted'
    <3>1. Typed'
      BY <2>1, TypedMalloc
    <3>2. CASE Intact'
      BY <2>1, <3>1, <3>2, CountedMalloc
    <3>3. CASE ~ (Intact')
      BY <3>1, <3>3 DEF Counted
    <3> QED BY <3>2, <3>3
  <2>2. ASSUME NEW b \in Live, Free(b) PROVE Typed' /\ Counted'
    BY <2>2, TypedFree, CountedFree
  <2>3. CASE UNCHANGED vars
    BY <2>3 DEF vars, Typed, Counted, Intact, Blocks, Live, FreeBlocks
  <2> QED BY <2>1, <2>2, <2>3 DEF Next
<1>3. Spec => [](Typed /\ Counted)
  BY <1>1, <1>2, HeapInductive, PTL DEF Took, Spec
<1> QED BY <1>3, TypeOKIs, PTL
=============================================================================
