---------------------------- MODULE NanosFSProofs ----------------------------
(***************************************************************************)
(* Proofs about NanosFS for any number of files, descriptors, blocks and   *)
(* cache entries, with the power cut at any time, and for both kinds of    *)
(* flash: the types, that a clean cache entry equals the flash, that each  *)
(* block of an open file belongs to one place of one file, that an open    *)
(* file holds what the writes that returned have put there, and that       *)
(* NanosFS implements the abstract store of files of FileStore.            *)
(***************************************************************************)
EXTENDS NanosFS, FiniteSetTheorems, FunctionTheorems, SequenceTheorems, TLAPS

(***************************************************************************)
(* The inductive invariant.                                                *)
(***************************************************************************)

\* An open descriptor has an inode and a name of its own.  The name in the inode's place
\* on flash is the one that the descriptor has, unless it was written over another.
FdsSane ==
  /\ \A f \in Fds : ~fds[f].open => fds[f] = Closed
  /\ \A f \in Fds :
       fds[f].open => /\ fds[f].inum \in inobmp /\ Ino(f).name \in Names
                      /\ inodes[fds[f].inum].name \in {Ino(f).name, Garbled}
  /\ \A f, g \in Fds :
       fds[f].open /\ fds[g].open /\ f # g => /\ fds[f].inum # fds[g].inum
                                              /\ Ino(f).name # Ino(g).name

\* An inode in use has been written; where writing sets no bits, it has neither size nor
\* blocks, since that is what it was written with first.
TableSane ==
  /\ \A i \in inobmp : inodes[i].name # NoFile
  /\ ~FlashOverwrites => \A i \in Inodes : inodes[i].sz = 0 /\ inodes[i].db = NoBlks

\* The block b stands at the place k of the inode i that the flash has, and at no other
\* place of an inode there or of an open descriptor.
OnlyAt(b, i, k) ==
  /\ \A j \in inobmp, m \in Slots : inodes[j].db[m] = b => j = i /\ m = k
  /\ \A f \in Fds, m \in Slots :
       fds[f].open /\ Ino(f).db[m] = b => fds[f].inum = i /\ m = k

\* The blocks of the inodes in use on flash have their bits set.
StoredAccounted ==
  \A i \in inobmp, k \in Slots :
    inodes[i].db[k] # 0 => inodes[i].db[k] \in blkbmp /\ OnlyAt(inodes[i].db[k], i, k)

\* A call has an open descriptor, and a victim is cached until it is stored;
\* without a mount there is nothing in memory.
CallSane ==
  /\ call # NoCall => /\ mounted /\ fds[call.fd].open /\ call.done <= call.len
                      /\ call.victim = 0 \/ call.victim \in Cached
  /\ ~mounted => /\ Cached = {} /\ inobmp = {} /\ blkbmp = {}
                 /\ \A f \in Fds : ~fds[f].open

FsInv ==
  /\ CodeTypeOK
  /\ CleanIsStored
  /\ FdsSane
  /\ TableSane
  /\ CallSane
  /\ BlocksAccounted
  /\ StoredAccounted

(***************************************************************************)
(* Facts that many steps need.                                             *)
(***************************************************************************)

LEMMA ErasedType == ErasedBlk \in BlkBufs /\ NoInode \in InodeRecs /\ Closed \in FdRecs
<1>1. NoBlks \in [Slots -> Blks \cup {0}]
  BY DEF NoBlks
<1>2. ErasedBlk \in BlkBufs
  BY DEF ErasedBlk, BlkBufs, Cells
<1>3. NoInode \in InodeRecs
  BY <1>1 DEF NoInode, NewInode, InodeRecs
<1>4. Closed \in FdRecs
  BY <1>3 DEF Closed, FdRecs
<1> QED
  BY <1>2, <1>3, <1>4

\* What is known of a call in progress.
LEMMA CallFacts ==
  ASSUME CodeTypeOK, call.op # "none"
  PROVE  /\ call # NoCall
         /\ call.op \in {"read", "write"}
         /\ call.op = "read" => call \in ReadCalls
         /\ call.op = "write" => call \in WriteCalls
         /\ call.fd \in Fds /\ call.victim \in Blks \cup {0}
         /\ call.len \in 1 .. MaxLen /\ call.done \in 0 .. MaxLen
<1>0. call # NoCall
  BY DEF NoCall
<1>1. call \in ReadCalls \/ call \in WriteCalls
  BY <1>0 DEF CodeTypeOK
<1>2. CASE call \in ReadCalls
  <2>1. /\ call.op = "read" /\ call.fd \in Fds /\ call.victim \in Blks \cup {0}
        /\ call.len \in 1 .. MaxLen /\ call.done \in 0 .. MaxLen
    BY <1>2 DEF ReadCalls
  <2> QED
    BY <1>0, <1>2, <2>1
<1>3. CASE call \in WriteCalls
  <2>1. /\ call.op = "write" /\ call.fd \in Fds /\ call.victim \in Blks \cup {0}
        /\ call.len \in 1 .. MaxLen /\ call.done \in 0 .. MaxLen
    BY <1>3 DEF WriteCalls
  <2> QED
    BY <1>0, <1>3, <2>1
<1> QED
  BY <1>1, <1>2, <1>3

LEMMA IdleIsNoCall == CodeTypeOK /\ call.op = "none" => call = NoCall
BY DEF CodeTypeOK, NoCall, ReadCalls, WriteCalls

\* The next cell lies in a block of the inode, and a transfer ends at len.
LEMMA TransferFacts ==
  ASSUME CodeTypeOK, call.op # "none"
  PROVE  /\ Offset \in Nat /\ InBlk \in 0 .. NFS_BLK_SZ - 1
         /\ Current \in Blks \cup {0}
         /\ call.done < call.len => Chunk \in 1 .. call.len - call.done
         /\ call.done < call.len => InBlk + Chunk <= NFS_BLK_SZ
<1>1. /\ call.fd \in Fds /\ call.len \in Nat /\ call.done \in Nat
      /\ fds[call.fd] \in FdRecs
  BY CallFacts, NanosFSAssumption DEF CodeTypeOK
<1>2. Offset \in Nat
  BY <1>1 DEF Offset, FdRecs
<1>3. InBlk \in 0 .. NFS_BLK_SZ - 1
  <2>1. \A a, n \in Nat : n # 0 => a % n \in 0 .. n - 1
    OBVIOUS
  <2> QED
    BY <1>2, <2>1, NanosFSAssumption DEF InBlk
<1>4. Current \in Blks \cup {0}
  BY <1>1 DEF Current, Ino, FdRecs, InodeRecs
<1>5. ASSUME call.done < call.len
      PROVE  Chunk \in 1 .. call.len - call.done /\ InBlk + Chunk <= NFS_BLK_SZ
  BY <1>1, <1>3, <1>5, NanosFSAssumption DEF Chunk, MinOf
<1> QED
  BY <1>2, <1>3, <1>4, <1>5


\* The slots and the blocks of a new inode.
LEMMA NewInodeType ==
  ASSUME NEW n \in Names PROVE NewInode(n) \in InodeRecs /\ NewInode(n).db = NoBlks
<1>1. NoBlks \in [Slots -> Blks \cup {0}]
  BY DEF NoBlks
<1> QED
  BY <1>1 DEF NewInode, InodeRecs

\* What an inode is after it was written: the one that was to be written, or one without
\* size and blocks.
LEMMA ProgrammedFacts ==
  ASSUME NEW old \in InodeRecs, NEW new \in InodeRecs, NEW ino \in Programmed(old, new),
         FlashOverwrites \/ (old.sz = 0 /\ old.db = NoBlks)
  PROVE  /\ ino \in InodeRecs
         /\ ino = new \/ (ino.sz = 0 /\ ino.db = NoBlks)
         /\ ino.name \in {new.name, Garbled}
         /\ ~FlashOverwrites /\ old # NoInode => ino.sz = 0 /\ ino.db = NoBlks
<1>1. CASE FlashOverwrites \/ old = NoInode
  <2>1. ino = new
    BY <1>1 DEF Programmed
  <2> QED
    BY <1>1, <2>1 DEF Programmed
<1>2. CASE ~(FlashOverwrites \/ old = NoInode)
  <2>0. /\ old.sz = 0 /\ old.db = NoBlks /\ new.sz \in Nat
        /\ new.db \in [Slots -> Blks \cup {0}]
    BY <1>2 DEF InodeRecs
  <2>1. /\ ino.name \in {IF new.name = old.name THEN new.name ELSE Garbled}
        /\ ino.sz \in 0 .. MinOf(old.sz, new.sz)
        /\ ino.db \in [Slots -> Blks \cup {0}]
        /\ \A k \in Slots : ino.db[k] <= MinOf(old.db[k], new.db[k])
        /\ ino \in [name : {IF new.name = old.name THEN new.name ELSE Garbled},
                    sz : 0 .. MinOf(old.sz, new.sz), db : [Slots -> Blks \cup {0}]]
    BY <1>2 DEF Programmed
  <2>2. ino.sz = 0
    BY <2>0, <2>1 DEF MinOf
  <2>3. ASSUME NEW k \in Slots PROVE ino.db[k] = 0
    <3>1. ino.db[k] <= 0
      <4>1. old.db[k] = 0 /\ new.db[k] \in Nat
        BY <2>0 DEF NoBlks, Blks
      <4>2. MinOf(old.db[k], new.db[k]) = 0
        BY <4>1 DEF MinOf
      <4> QED
        BY <2>1, <4>2
    <3> QED
      BY <2>1, <3>1 DEF Blks
  <2>4. ino.db = NoBlks
    BY <2>1, <2>3 DEF NoBlks
  <2>5. ino.name \in {new.name, Garbled}
    BY <2>1
  <2>6. ino \in InodeRecs
    <3>1. ino.name \in Names \cup {NoFile, Garbled}
      BY <2>5 DEF InodeRecs
    <3>2. ino = [name |-> ino.name, sz |-> ino.sz, db |-> ino.db]
      BY <2>1
    <3> QED
      BY <2>1, <2>2, <3>1, <3>2 DEF InodeRecs
  <2> QED
    BY <2>2, <2>4, <2>5, <2>6
<1> QED
  BY <1>1, <1>2

\* The flash stays of its kind.
SameFlash == FlashOverwrites' <=> FlashOverwrites

\* As long as inodes and bitmaps stay, and descriptors show the same inodes, the
\* ownership of the blocks stays.
LEMMA OwnersStay ==
  ASSUME FsInv, SameFlash,
         UNCHANGED <<inodes, inobmp, blkbmp>>,
         \A f \in Fds : /\ fds'[f].open = fds[f].open /\ fds'[f].inum = fds[f].inum
                        /\ fds'[f].ino = fds[f].ino
                        /\ ~fds[f].open => fds'[f] = fds[f]
  PROVE  FdsSane' /\ TableSane' /\ BlocksAccounted' /\ StoredAccounted'
<1>1. FdsSane'
  BY DEF FsInv, FdsSane, Ino
<1>2. TableSane'
  BY DEF FsInv, TableSane, SameFlash
<1>3. BlocksAccounted'
  BY DEF FsInv, BlocksAccounted, Ino
<1>4. StoredAccounted'
  BY DEF FsInv, StoredAccounted, OnlyAt, Ino
<1> QED
  BY <1>1, <1>2, <1>3, <1>4

(***************************************************************************)
(* Initial states, mounting and the power cut.                             *)
(***************************************************************************)

LEMMA EmptyCache ==
  ASSUME NEW S PROVE DOMAIN <<>> = {} /\ <<>> \in [{} -> S]
OBVIOUS

LEMMA FsInit == Init => FsInv
<1> SUFFICES ASSUME Init PROVE FsInv
  OBVIOUS
<1>1. /\ cache = <<>> /\ Cached = {}
      /\ cache \in [Cached -> [dirty : BOOLEAN, buf : BlkBufs]]
  BY EmptyCache DEF Init, Cached
<1>2. CodeTypeOK
  <2>1. flash \in [Blks -> BlkBufs] /\ inodes \in [Inodes -> InodeRecs]
    BY ErasedType DEF Init
  <2>2. fds \in [Fds -> FdRecs]
    BY ErasedType DEF Init
  <2> QED
    BY <1>1, <2>1, <2>2 DEF Init, CodeTypeOK
<1>3. CleanIsStored
  BY <1>1 DEF CleanIsStored
<1>4. FdsSane /\ CallSane
  BY <1>1 DEF Init, FdsSane, CallSane, Closed
<1>5. TableSane /\ BlocksAccounted /\ StoredAccounted
  BY DEF Init, TableSane, BlocksAccounted, StoredAccounted, NoInode, NewInode, Closed
<1> QED
  BY <1>2, <1>3, <1>4, <1>5 DEF FsInv

LEMMA MountSteps ==
  ASSUME FsInv, SameFlash,
         MountAndFormat \/ Mount \/ PowerCut PROVE FsInv'
<1> USE DEF FsInv, flashVars
<1>0. /\ inobmp' = {} /\ blkbmp' = {}
      /\ Cached' = {} /\ \A f \in Fds : fds'[f] = Closed
      /\ call' = NoCall
  <2>1. CASE MountAndFormat \/ Mount
    <3>1. /\ ~mounted /\ UNCHANGED <<cache, fds, call>>
          /\ inobmp' \in {inobmp, {}} /\ blkbmp' \in {blkbmp, {}}
      BY <2>1 DEF MountAndFormat, Mount
    <3> QED
      BY <3>1 DEF CallSane, Cached, FdsSane
  <2>2. CASE PowerCut
    <3>1. DOMAIN cache' = {}
      BY <2>2, EmptyCache DEF PowerCut
    <3> QED
      BY <2>2, <3>1 DEF PowerCut, Cached
  <2> QED
    BY <2>1, <2>2
<1>1. CodeTypeOK'
  <2>1. /\ formatted' \in BOOLEAN /\ mounted' \in BOOLEAN
        /\ flash' \in [Blks -> BlkBufs] /\ inodes' \in [Inodes -> InodeRecs]
        /\ fds' \in [Fds -> FdRecs]
    BY ErasedType DEF CodeTypeOK, MountAndFormat, Mount, PowerCut
  <2>2. cache' \in [Cached' -> [dirty : BOOLEAN, buf : BlkBufs]]
    <3>1. CASE PowerCut
      BY <1>0, <3>1, EmptyCache DEF PowerCut
    <3>2. CASE MountAndFormat \/ Mount
      BY <3>2 DEF MountAndFormat, Mount, CodeTypeOK, Cached
    <3> QED
      BY <3>1, <3>2
  <2> QED
    BY <1>0, <2>1, <2>2 DEF CodeTypeOK
<1>2. \A f \in Fds : ~fds'[f].open
  BY <1>0 DEF Closed
<1>3. CleanIsStored' /\ FdsSane' /\ CallSane'
  BY <1>0, <1>2 DEF CleanIsStored, FdsSane, CallSane
<1>4. TableSane'
  <2>1. CASE MountAndFormat
    BY <1>0, <2>1 DEF MountAndFormat, TableSane, NoInode, NewInode
  <2>2. CASE Mount \/ PowerCut
    BY <1>0, <2>2 DEF Mount, PowerCut, TableSane, SameFlash
  <2> QED
    BY <2>1, <2>2
<1>5. BlocksAccounted' /\ StoredAccounted'
  BY <1>0, <1>2 DEF BlocksAccounted, StoredAccounted
<1> QED
  BY <1>1, <1>3, <1>4, <1>5

(***************************************************************************)
(* Opening, creating and closing.                                          *)
(***************************************************************************)

LEMMA OpenFileStep ==
  ASSUME FsInv, SameFlash,
         NEW n \in Names, OpenFile(n) PROVE FsInv'
<1> USE DEF FsInv
<1> PICK f \in Fds, i \in Inodes :
       /\ f \in FreeFds /\ i \in Named(n)
       /\ fds' = [fds EXCEPT ![f] = OpenedFd(i, inodes[i])]
  BY DEF OpenFile, IsFirst
<1>0. /\ UNCHANGED <<flashVars, mounted, blkbmp, inobmp, cache, call>>
      /\ mounted /\ call.op = "none" /\ call = NoCall /\ NotOpen(n)
      /\ i \in inobmp /\ inodes[i].name = n /\ ~fds[f].open
  BY IdleIsNoCall DEF OpenFile, Idle, Named, FreeFds
<1>1. /\ fds \in [Fds -> FdRecs] /\ inodes[i] \in InodeRecs
      /\ OpenedFd(i, inodes[i]) \in FdRecs
  BY DEF CodeTypeOK, OpenedFd, FdRecs
<1>2. /\ fds' \in [Fds -> FdRecs]
      /\ fds'[f].open /\ fds'[f].inum = i /\ fds'[f].ino = inodes[i]
      /\ \A g \in Fds : g # f => fds'[g] = fds[g]
  BY <1>1 DEF OpenedFd
<1>3. CodeTypeOK'
  BY <1>0, <1>2 DEF CodeTypeOK, Cached, flashVars
<1>4. CleanIsStored' /\ CallSane'
  BY <1>0 DEF CleanIsStored, CallSane, Cached, flashVars
\* The inode was not open.
<1>5. \A g \in Fds : fds[g].open => fds[g].inum # i /\ Ino(g).name # n
  <2>1. n # Garbled
    BY NanosFSAssumption
  <2> QED
    BY <1>0, <2>1 DEF FdsSane, NotOpen, Ino
<1>6. FdsSane' /\ TableSane'
  <2>1. \A g \in Fds : ~fds'[g].open => fds'[g] = Closed
    BY <1>2 DEF FdsSane
  <2>2. \A g \in Fds :
          fds'[g].open => /\ fds'[g].inum \in inobmp /\ fds'[g].ino.name \in Names
                          /\ inodes[fds'[g].inum].name \in {fds'[g].ino.name, Garbled}
    BY <1>0, <1>2 DEF FdsSane, Ino
  <2>3. \A g, h \in Fds :
          fds'[g].open /\ fds'[h].open /\ g # h => /\ fds'[g].inum # fds'[h].inum
                                                   /\ fds'[g].ino.name # fds'[h].ino.name
    BY <1>0, <1>2, <1>5 DEF FdsSane, Ino
  <2> QED
    BY <1>0, <2>1, <2>2, <2>3 DEF FdsSane, Ino, TableSane, SameFlash, flashVars
\* The blocks are those of the stored inode, which no one else has.
<1>7. \A g \in Fds, k, m \in Slots :
        fds[g].open /\ inodes[i].db[k] # 0 => inodes[i].db[k] # Ino(g).db[m]
  BY <1>0, <1>5 DEF StoredAccounted, OnlyAt
<1>8. BlocksAccounted'
  <2>1. \A g \in Fds, k \in Slots :
          fds'[g].open /\ fds'[g].ino.db[k] # 0 => fds'[g].ino.db[k] \in blkbmp
    BY <1>0, <1>2 DEF BlocksAccounted, StoredAccounted, Ino
  <2>2. ASSUME NEW g \in Fds, NEW h \in Fds, NEW k \in Slots, NEW m \in Slots,
               fds'[g].open, fds'[h].open, fds'[g].ino.db[k] # 0,
               fds'[g].ino.db[k] = fds'[h].ino.db[m]
        PROVE  g = h /\ k = m
    <3>1. CASE g # f /\ h # f
      BY <1>2, <2>2, <3>1 DEF BlocksAccounted, Ino
    <3>2. CASE g = f /\ h = f
      BY <1>0, <1>2, <2>2, <3>2 DEF StoredAccounted, OnlyAt
    <3>3. CASE g = f /\ h # f
      BY <1>2, <1>7, <2>2, <3>3 DEF Ino
    <3>4. CASE g # f /\ h = f
      <4>1. fds[g].open /\ Ino(g).db[k] = inodes[i].db[m] /\ inodes[i].db[m] # 0
        BY <1>2, <2>2, <3>4 DEF Ino
      <4> QED
        BY <1>7, <4>1
    <3> QED
      BY <3>1, <3>2, <3>3, <3>4
  <2> QED
    BY <1>0, <2>1, <2>2 DEF BlocksAccounted, Ino
<1>9. StoredAccounted'
  <2>1. ASSUME NEW j \in inobmp, NEW k \in Slots, inodes[j].db[k] # 0
        PROVE  \A g \in Fds, m \in Slots :
                 fds'[g].open /\ fds'[g].ino.db[m] = inodes[j].db[k] => fds'[g].inum = j /\ m = k
    <3>1. OnlyAt(inodes[j].db[k], j, k)
      BY <2>1 DEF StoredAccounted
    <3> QED
      BY <1>0, <1>2, <3>1 DEF OnlyAt, Ino
  <2> QED
    BY <1>0, <2>1 DEF StoredAccounted, OnlyAt, Ino, flashVars
<1> QED
  BY <1>3, <1>4, <1>6, <1>8, <1>9

LEMMA CreateFileStep ==
  ASSUME FsInv, SameFlash,
         NEW n \in Names, CreateFile(n) PROVE FsInv'
<1> USE DEF FsInv
<1> DEFINE new == NewInode(n)
<1> PICK f \in Fds, i \in Inodes :
       /\ f \in FreeFds /\ i \in Inodes \ inobmp
       /\ inobmp' = inobmp \cup {i}
       /\ \E ino \in Programmed(inodes[i], NewInode(n)) :
            inodes' = [inodes EXCEPT ![i] = ino]
       /\ fds' = [fds EXCEPT ![f] = OpenedFd(i, NewInode(n))]
  BY DEF CreateFile, IsFirst
<1> PICK ino \in Programmed(inodes[i], NewInode(n)) : inodes' = [inodes EXCEPT ![i] = ino]
  OBVIOUS
<1>0. /\ UNCHANGED <<formatted, flash, mounted, blkbmp, cache, call>>
      /\ mounted /\ call.op = "none" /\ call = NoCall /\ ~fds[f].open /\ NotOpen(n)
  BY IdleIsNoCall DEF CreateFile, Idle, FreeFds
<1>1. new \in InodeRecs /\ new.db = NoBlks /\ new.sz = 0 /\ new.name = n
  BY NewInodeType DEF NewInode
<1>2. /\ ino \in InodeRecs /\ ino.db = NoBlks /\ ino.sz = 0 /\ ino.name \in {n, Garbled}
  <2>1. inodes[i] \in InodeRecs /\ (FlashOverwrites \/ (inodes[i].sz = 0 /\ inodes[i].db = NoBlks))
    BY DEF CodeTypeOK, TableSane
  <2> QED
    BY <1>1, <2>1, ProgrammedFacts
<1> HIDE DEF new
<1>3. /\ fds \in [Fds -> FdRecs] /\ inodes \in [Inodes -> InodeRecs]
      /\ inobmp \subseteq Inodes /\ OpenedFd(i, new) \in FdRecs
  BY <1>1 DEF CodeTypeOK, OpenedFd, FdRecs
<1>4. /\ inodes' \in [Inodes -> InodeRecs] /\ inodes'[i] = ino
      /\ \A j \in Inodes : j # i => inodes'[j] = inodes[j]
  BY <1>2, <1>3
<1>5. /\ fds' \in [Fds -> FdRecs]
      /\ fds'[f].open /\ fds'[f].inum = i /\ fds'[f].ino = new
      /\ \A g \in Fds : g # f => fds'[g] = fds[g]
  BY <1>3 DEF OpenedFd, new
<1>6. CodeTypeOK'
  BY <1>0, <1>3, <1>4, <1>5 DEF CodeTypeOK, Cached
<1>7. CleanIsStored' /\ CallSane'
  BY <1>0 DEF CleanIsStored, CallSane, Cached
<1>8. \A g \in Fds : fds[g].open => fds[g].inum # i /\ fds[g].inum \in Inodes /\ Ino(g).name # n
  BY <1>0, <1>3 DEF FdsSane, NotOpen, Ino
<1>9. FdsSane'
  <2>1. \A g \in Fds : ~fds'[g].open => fds'[g] = Closed
    BY <1>5 DEF FdsSane
  <2>2. ASSUME NEW g \in Fds, fds'[g].open
        PROVE  /\ fds'[g].inum \in inobmp' /\ fds'[g].ino.name \in Names
               /\ inodes'[fds'[g].inum].name \in {fds'[g].ino.name, Garbled}
    <3>1. CASE g = f
      BY <1>1, <1>2, <1>4, <1>5, <3>1
    <3>2. CASE g # f
      BY <1>4, <1>5, <1>8, <2>2, <3>2 DEF FdsSane, Ino
    <3> QED
      BY <3>1, <3>2
  <2>3. \A g, h \in Fds :
          fds'[g].open /\ fds'[h].open /\ g # h => /\ fds'[g].inum # fds'[h].inum
                                                   /\ fds'[g].ino.name # fds'[h].ino.name
    BY <1>1, <1>5, <1>8 DEF FdsSane, Ino
  <2> QED
    BY <2>1, <2>2, <2>3 DEF FdsSane, Ino
<1>10. TableSane'
  <2>1. ino.name # NoFile
    BY <1>2, NanosFSAssumption
  <2>2. \A j \in inobmp' : inodes'[j].name # NoFile
    BY <1>3, <1>4, <2>1 DEF TableSane
  <2>3. ~FlashOverwrites => \A j \in Inodes : inodes'[j].sz = 0 /\ inodes'[j].db = NoBlks
    BY <1>2, <1>4 DEF TableSane
  <2> QED
    BY <2>2, <2>3 DEF TableSane, SameFlash
\* Neither the inode nor the descriptor has a block.
<1>11. \A k \in Slots : new.db[k] = 0 /\ ino.db[k] = 0
  BY <1>1, <1>2 DEF NoBlks
<1>12. BlocksAccounted'
  <2>1. ASSUME NEW g \in Fds, NEW h \in Fds, NEW k \in Slots, NEW m \in Slots,
               fds'[g].open, fds'[h].open, fds'[g].ino.db[k] # 0
        PROVE  /\ fds'[g].ino.db[k] \in blkbmp
               /\ fds'[g].ino.db[k] = fds'[h].ino.db[m] => g = h /\ k = m
    <3>1. g # f
      BY <1>5, <1>11, <2>1
    <3>2. fds[g].open /\ fds'[g] = fds[g]
      BY <1>5, <2>1, <3>1
    <3>3. fds'[g].ino.db[k] \in blkbmp
      BY <2>1, <3>2 DEF BlocksAccounted, Ino
    <3>4. CASE h = f
      BY <1>5, <1>11, <2>1, <3>3, <3>4
    <3>5. CASE h # f
      BY <1>5, <2>1, <3>2, <3>5 DEF BlocksAccounted, Ino
    <3> QED
      BY <3>3, <3>4, <3>5
  <2> QED
    BY <1>0, <2>1 DEF BlocksAccounted, Ino
<1>13. StoredAccounted'
  <2>1. ASSUME NEW j \in inobmp', NEW k \in Slots, inodes'[j].db[k] # 0
        PROVE  inodes'[j].db[k] \in blkbmp /\ OnlyAt(inodes[j].db[k], j, k)'
    <3>1. j \in inobmp /\ inodes'[j] = inodes[j]
      BY <1>3, <1>4, <1>11, <2>1
    <3>2. inodes[j].db[k] \in blkbmp /\ OnlyAt(inodes[j].db[k], j, k)
      BY <2>1, <3>1 DEF StoredAccounted
    <3>3. \A l \in inobmp', m \in Slots : inodes'[l].db[m] = inodes[j].db[k] => l = j /\ m = k
      BY <1>3, <1>4, <1>11, <2>1, <3>1, <3>2 DEF OnlyAt
    <3>4. \A g \in Fds, m \in Slots :
            fds'[g].open /\ fds'[g].ino.db[m] = inodes[j].db[k] => fds'[g].inum = j /\ m = k
      BY <1>5, <1>11, <2>1, <3>1, <3>2 DEF OnlyAt, Ino
    <3> QED
      BY <3>1, <3>2, <3>3, <3>4 DEF OnlyAt, Ino
  <2> QED
    BY <1>0, <2>1 DEF StoredAccounted
<1> QED
  BY <1>6, <1>7, <1>9, <1>10, <1>12, <1>13

LEMMA CloseStep ==
  ASSUME FsInv, SameFlash,
         NEW f \in Fds, Close(f) PROVE FsInv'
<1> USE DEF FsInv
<1>0. /\ UNCHANGED <<flashVars, mounted, blkbmp, inobmp, cache, call>>
      /\ mounted /\ call.op = "none" /\ call = NoCall
      /\ fds' = [fds EXCEPT ![f] = Closed]
  BY IdleIsNoCall DEF Close, Idle
<1>1. /\ fds' \in [Fds -> FdRecs]
      /\ fds'[f] = Closed /\ ~fds'[f].open
      /\ \A g \in Fds : g # f => fds'[g] = fds[g]
  BY <1>0, ErasedType DEF CodeTypeOK, Closed
<1>2. CodeTypeOK'
  BY <1>0, <1>1 DEF CodeTypeOK, Cached, flashVars
<1>3. CleanIsStored' /\ CallSane'
  BY <1>0 DEF CleanIsStored, CallSane, Cached, flashVars
<1>4. FdsSane' /\ TableSane'
  BY <1>0, <1>1 DEF FdsSane, TableSane, SameFlash, Ino, flashVars
<1>5. BlocksAccounted'
  BY <1>0, <1>1 DEF BlocksAccounted, Ino
<1>6. StoredAccounted'
  BY <1>0, <1>1 DEF StoredAccounted, OnlyAt, Ino, flashVars
<1> QED
  BY <1>2, <1>3, <1>4, <1>5, <1>6

(***************************************************************************)
(* The cache: these steps leave files, descriptors and bitmaps alone.      *)
(***************************************************************************)

\* A call that goes on keeps its type.
LEMMA CallMoves ==
  ASSUME CodeTypeOK, call.op # "none", NEW v \in Blks \cup {0},
         call' = [call EXCEPT !.victim = v]
  PROVE  /\ call' \in ReadCalls \cup WriteCalls
         /\ call'.op = call.op /\ call'.fd = call.fd
         /\ call'.done = call.done /\ call'.len = call.len
         /\ call'.victim = v /\ call' # NoCall
<1>1. CASE call \in ReadCalls
  BY <1>1 DEF ReadCalls, NoCall
<1>2. CASE call \in WriteCalls
  BY <1>2 DEF WriteCalls, NoCall
<1> QED
  BY <1>1, <1>2, CallFacts

LEMMA EvictCleanStep ==
  ASSUME FsInv, SameFlash,
         EvictClean PROVE FsInv'
<1> USE DEF FsInv
<1> PICK v \in Cached : /\ ~cache[v].dirty
                        /\ cache' = [c \in Cached \ {v} |-> cache[c]]
  BY DEF EvictClean
<1>0. /\ UNCHANGED <<formatted, flash, inodes, mounted, blkbmp, inobmp, fds, call>>
      /\ call.victim = 0
  BY DEF EvictClean, flashVars
<1>1. Cached' = Cached \ {v}
  BY DEF Cached
<1>2. CodeTypeOK'
  BY <1>0, <1>1 DEF CodeTypeOK
<1>3. CleanIsStored' /\ CallSane'
  BY <1>0, <1>1 DEF CleanIsStored, CallSane
<1>4. FdsSane' /\ TableSane' /\ BlocksAccounted' /\ StoredAccounted'
  BY <1>0, OwnersStay
<1> QED
  BY <1>2, <1>3, <1>4

LEMMA EvictEraseStep ==
  ASSUME FsInv, SameFlash,
         EvictErase PROVE FsInv'
<1> USE DEF FsInv
<1> PICK v \in Cached : /\ cache[v].dirty
                        /\ flash' = [flash EXCEPT ![v] = ErasedBlk]
                        /\ call' = [call EXCEPT !.victim = v]
  BY DEF EvictErase
<1>0. /\ UNCHANGED <<formatted, inodes, mounted, blkbmp, inobmp, cache, fds>>
      /\ call.op # "none" /\ v \in Blks
  BY DEF EvictErase, CodeTypeOK
<1>1. /\ call' \in ReadCalls \cup WriteCalls
      /\ call'.op = call.op /\ call'.fd = call.fd
      /\ call'.done = call.done /\ call'.len = call.len
      /\ call'.victim = v /\ call' # NoCall /\ call # NoCall
  BY <1>0, CallMoves, CallFacts
<1>2. /\ flash' \in [Blks -> BlkBufs]
      /\ \A b \in Blks : b # v => flash'[b] = flash[b]
  BY ErasedType DEF CodeTypeOK
<1>3. CodeTypeOK'
  BY <1>0, <1>1, <1>2 DEF CodeTypeOK, Cached
<1>4. CleanIsStored'
  BY <1>0, <1>2 DEF CleanIsStored, Cached, CodeTypeOK
<1>5. CallSane'
  BY <1>0, <1>1 DEF CallSane, Cached
<1>6. FdsSane' /\ TableSane' /\ BlocksAccounted' /\ StoredAccounted'
  BY <1>0, <1>1, OwnersStay
<1> QED
  BY <1>3, <1>4, <1>5, <1>6

LEMMA EvictStoreStep ==
  ASSUME FsInv, SameFlash,
         EvictStore PROVE FsInv'
<1> USE DEF FsInv
<1> DEFINE v == call.victim
<1>0. /\ UNCHANGED <<formatted, inodes, mounted, blkbmp, inobmp, fds>>
      /\ call.op # "none" /\ v # 0
      /\ flash' = [flash EXCEPT ![v] = cache[v].buf]
      /\ cache' = [c \in Cached \ {v} |-> cache[c]]
      /\ call' = [call EXCEPT !.victim = 0]
  BY DEF EvictStore, StoreVictim
<1>1. v \in Cached /\ v \in Blks /\ cache[v].buf \in BlkBufs
  BY <1>0, CallFacts DEF CallSane, CodeTypeOK
<1>2. /\ call' \in ReadCalls \cup WriteCalls
      /\ call'.op = call.op /\ call'.fd = call.fd
      /\ call'.done = call.done /\ call'.len = call.len
      /\ call'.victim = 0 /\ call' # NoCall /\ call # NoCall
  BY <1>0, CallMoves, CallFacts
<1>3. /\ flash' \in [Blks -> BlkBufs]
      /\ \A b \in Blks : b # v => flash'[b] = flash[b]
  BY <1>0, <1>1 DEF CodeTypeOK
<1>4. Cached' = Cached \ {v}
  BY <1>0 DEF Cached
<1>5. CodeTypeOK'
  BY <1>0, <1>2, <1>3, <1>4 DEF CodeTypeOK
<1>6. CleanIsStored'
  BY <1>0, <1>3, <1>4 DEF CleanIsStored, CodeTypeOK
<1>7. CallSane'
  BY <1>0, <1>2, <1>4 DEF CallSane
<1>8. FdsSane' /\ TableSane' /\ BlocksAccounted' /\ StoredAccounted'
  BY <1>0, <1>2, OwnersStay
<1> QED
  BY <1>5, <1>6, <1>7, <1>8

\* Filling an entry: a clean one has what the flash holds.
LEMMA PutKeeps ==
  ASSUME CodeTypeOK, CleanIsStored, UNCHANGED flash,
         NEW b \in Blks, NEW e \in [dirty : BOOLEAN, buf : BlkBufs],
         ~e.dirty => e.buf = flash[b],
         cache' = Put(b, e)
  PROVE  /\ Cached' = Cached \cup {b}
         /\ Cached' \subseteq Blks
         /\ cache' \in [Cached' -> [dirty : BOOLEAN, buf : BlkBufs]]
         /\ CleanIsStored'
<1>1. Cached' = Cached \cup {b}
  BY DEF Put, Cached
<1>2. cache' \in [Cached' -> [dirty : BOOLEAN, buf : BlkBufs]]
  BY <1>1 DEF CodeTypeOK, Put
<1>3. CleanIsStored'
  BY <1>1 DEF CleanIsStored, Put
<1> QED
  BY <1>1, <1>2, <1>3 DEF CodeTypeOK

(***************************************************************************)
(* Reading.                                                                *)
(***************************************************************************)

LEMMA StartReadStep ==
  ASSUME FsInv, SameFlash,
         NEW f \in Fds, NEW len \in 1 .. MaxLen, StartRead(f, len)
  PROVE  FsInv'
<1> USE DEF FsInv
<1> DEFINE n == MinOf(len, Ino(f).sz - fds[f].pos)
<1>0. /\ UNCHANGED <<formatted, flash, inodes, mounted, blkbmp, inobmp, cache, fds>>
      /\ mounted /\ call.op = "none" /\ fds[f].open /\ fds[f].pos < Ino(f).sz
      /\ call' = [op |-> "read", fd |-> f, len |-> n,
                  done |-> 0, victim |-> 0, got |-> <<>>]
  BY DEF StartRead, Idle, flashVars
<1>1. n \in 1 .. MaxLen
  <2>1. fds[f].pos \in Nat /\ Ino(f).sz \in Nat
    BY DEF CodeTypeOK, FdRecs, InodeRecs, Ino
  <2> QED
    BY <1>0, <2>1, NanosFSAssumption DEF MinOf
<1> HIDE DEF n
<1>2. call' \in ReadCalls
  BY <1>0, <1>1, NanosFSAssumption DEF ReadCalls
<1>3. CodeTypeOK'
  BY <1>0, <1>2 DEF CodeTypeOK, Cached
<1>4. CleanIsStored'
  BY <1>0 DEF CleanIsStored, Cached
<1>5. CallSane'
  BY <1>0, <1>1 DEF CallSane, Cached
<1>6. FdsSane' /\ TableSane' /\ BlocksAccounted' /\ StoredAccounted'
  BY <1>0, OwnersStay
<1> QED
  BY <1>3, <1>4, <1>5, <1>6

\* The part of a block that is transferred.
LEMMA PartOfBlk ==
  ASSUME NEW buf \in BlkBufs, NEW at \in 0 .. NFS_BLK_SZ - 1, NEW n \in Nat,
         at + n <= NFS_BLK_SZ
  PROVE  SubSeq(buf, at + 1, at + n) \in Seq(Cells)
<1>1. \A k \in at + 1 .. at + n : buf[k] \in Cells
  BY NanosFSAssumption DEF BlkBufs
<1>2. Len(buf) = NFS_BLK_SZ /\ buf \in Seq(Cells)
  BY NanosFSAssumption DEF BlkBufs
<1> QED
  BY <1>2, NanosFSAssumption, SubSeqProperties

LEMMA ReadBlkStep ==
  ASSUME FsInv, SameFlash,
         ReadBlk PROVE FsInv'
<1> USE DEF FsInv
<1>0. /\ UNCHANGED <<formatted, flash, inodes, mounted, blkbmp, inobmp, fds>>
      /\ mounted /\ call.op = "read" /\ call.victim = 0
      /\ call.done < call.len /\ Current # 0
      /\ call' = [call EXCEPT !.done = @ + Chunk,
                    !.got = @ \o SubSeq(Block(Current), InBlk + 1, InBlk + Chunk)]
      /\ cache' = IF Current \in Cached THEN cache
                  ELSE Put(Current, [dirty |-> FALSE, buf |-> flash[Current]])
  BY DEF ReadBlk, InCall, flashVars
<1>1. /\ call \in ReadCalls /\ call # NoCall /\ call.fd \in Fds
      /\ call.len \in 1 .. MaxLen /\ call.done \in 0 .. MaxLen
  BY <1>0, CallFacts
<1>2. /\ Current \in Blks
      /\ InBlk \in 0 .. NFS_BLK_SZ - 1
      /\ Chunk \in 1 .. call.len - call.done /\ InBlk + Chunk <= NFS_BLK_SZ
  BY <1>0, TransferFacts
<1>3. flash[Current] \in BlkBufs /\ Block(Current) \in BlkBufs
  BY <1>2 DEF CodeTypeOK, Block, Cached
<1>4. SubSeq(Block(Current), InBlk + 1, InBlk + Chunk) \in Seq(Cells)
  BY <1>2, <1>3, PartOfBlk
<1>5. /\ call.done + Chunk \in 0 .. MaxLen /\ call.done + Chunk <= call.len
  BY <1>1, <1>2, NanosFSAssumption
<1>6. /\ call' \in ReadCalls /\ call'.op = "read" /\ call'.fd = call.fd
      /\ call'.done = call.done + Chunk /\ call'.len = call.len
      /\ call'.victim = 0 /\ call' # NoCall
  <2>1. call.got \o SubSeq(Block(Current), InBlk + 1, InBlk + Chunk) \in Seq(Cells)
    BY <1>1, <1>4, ConcatProperties DEF ReadCalls
  <2> DEFINE g == call.got \o SubSeq(Block(Current), InBlk + 1, InBlk + Chunk)
             d == call.done + Chunk
  <2> HIDE DEF g, d
  <2>2. g \in Seq(Cells) /\ d \in 0 .. MaxLen /\ call' = [call EXCEPT !.done = d, !.got = g]
    BY <1>0, <1>5, <2>1 DEF g, d
  <2>3. /\ call' \in ReadCalls /\ call'.op = "read" /\ call'.fd = call.fd
        /\ call'.done = d /\ call'.len = call.len /\ call'.victim = 0 /\ call' # NoCall
    BY <1>0, <1>1, <2>2 DEF ReadCalls, NoCall
  <2> QED
    BY <2>3 DEF d
<1>7. /\ Cached \subseteq Cached' /\ Cached' \subseteq Blks
      /\ cache' \in [Cached' -> [dirty : BOOLEAN, buf : BlkBufs]]
      /\ CleanIsStored'
  <2>1. CASE Current \in Cached
    BY <1>0, <2>1 DEF Cached, CodeTypeOK, CleanIsStored
  <2>2. CASE Current \notin Cached
    <3> DEFINE e == [dirty |-> FALSE, buf |-> flash[Current]]
    <3>1. e \in [dirty : BOOLEAN, buf : BlkBufs] /\ ~e.dirty /\ e.buf = flash[Current]
      BY <1>3
    <3>2. cache' = Put(Current, e)
      BY <1>0, <2>2
    <3> HIDE DEF e
    <3> QED
      BY <1>0, <1>2, <3>1, <3>2, PutKeeps
  <2> QED
    BY <2>1, <2>2
<1>8. CodeTypeOK'
  BY <1>0, <1>6, <1>7 DEF CodeTypeOK
<1>9. CallSane'
  BY <1>0, <1>1, <1>5, <1>6, <1>7 DEF CallSane
<1>10. FdsSane' /\ TableSane' /\ BlocksAccounted' /\ StoredAccounted'
  BY <1>0, <1>6, OwnersStay
<1> QED
  BY <1>7, <1>8, <1>9, <1>10

LEMMA ReadReturnStep ==
  ASSUME FsInv, SameFlash,
         ReadReturn PROVE FsInv'
<1> USE DEF FsInv
<1> DEFINE f == call.fd
<1>0. /\ UNCHANGED <<formatted, flash, inodes, mounted, blkbmp, inobmp, cache>>
      /\ mounted /\ call.op = "read"
      /\ fds' = [fds EXCEPT ![f].pos = @ + call.done]
      /\ call' = NoCall
  BY DEF ReadReturn, InCall, flashVars
<1>1. f \in Fds /\ call.done \in Nat /\ fds[f].open
  BY <1>0, CallFacts, NanosFSAssumption DEF CallSane
<1>2. /\ fds' \in [Fds -> FdRecs]
      /\ \A g \in Fds : /\ fds'[g].open = fds[g].open
                        /\ fds'[g].inum = fds[g].inum
                        /\ fds'[g].ino = fds[g].ino
                        /\ ~fds[g].open => fds'[g] = fds[g]
  <2>1. /\ fds \in [Fds -> FdRecs] /\ fds[f] \in FdRecs /\ fds[f].pos + call.done \in Nat
    BY <1>1 DEF CodeTypeOK, FdRecs
  <2> QED
    BY <1>0, <1>1, <2>1 DEF FdRecs
<1>3. CodeTypeOK'
  BY <1>0, <1>2 DEF CodeTypeOK, Cached
<1>4. CleanIsStored' /\ CallSane'
  BY <1>0 DEF CleanIsStored, CallSane, Cached
<1>5. FdsSane' /\ TableSane' /\ BlocksAccounted' /\ StoredAccounted'
  BY <1>0, <1>2, OwnersStay
<1> QED
  BY <1>3, <1>4, <1>5

(***************************************************************************)
(* Writing.                                                                *)
(***************************************************************************)

LEMMA StartWriteStep ==
  ASSUME FsInv, SameFlash,
         NEW f \in Fds, NEW len \in 1 .. MaxLen, NEW d \in Data,
         StartWrite(f, len, d)
  PROVE  FsInv'
<1> USE DEF FsInv
<1>0. /\ UNCHANGED <<formatted, flash, inodes, mounted, blkbmp, inobmp, cache, fds>>
      /\ mounted /\ call.op = "none" /\ fds[f].open
      /\ call' = [op |-> "write", fd |-> f, len |-> len, done |-> 0, victim |-> 0,
                  value |-> d, fresh |-> FALSE]
  BY DEF StartWrite, Idle, flashVars
<1>1. call' \in WriteCalls
  BY <1>0, NanosFSAssumption DEF WriteCalls
<1>2. CodeTypeOK'
  BY <1>0, <1>1 DEF CodeTypeOK, Cached
<1>3. CleanIsStored' /\ CallSane'
  BY <1>0 DEF CleanIsStored, CallSane, Cached
<1>4. FdsSane' /\ TableSane' /\ BlocksAccounted' /\ StoredAccounted'
  BY <1>0, OwnersStay
<1> QED
  BY <1>2, <1>3, <1>4

(***************************************************************************)
(* Writing.                                                                *)
(***************************************************************************)

LEMMA AllocBlkStep ==
  ASSUME FsInv, SameFlash,
         AllocBlk PROVE FsInv'
<1> USE DEF FsInv
<1> DEFINE f == call.fd
           i == fds[f].inum
<1> PICK b \in Blks : /\ b \in FreeBlks
                      /\ blkbmp' = blkbmp \cup {b}
                      /\ fds' = [fds EXCEPT ![f].ino.db[Slot] = b]
  BY DEF AllocBlk, IsFirst
<1>0. /\ UNCHANGED <<formatted, flash, inodes, mounted, inobmp, cache>>
      /\ mounted /\ call.op = "write" /\ call.victim = 0
      /\ Slot \in Slots /\ Current = 0
      /\ call' = [call EXCEPT !.fresh = TRUE]
      /\ b \notin blkbmp
  BY DEF AllocBlk, InCall, flashVars, FreeBlks
<1>1. /\ call \in WriteCalls /\ call # NoCall /\ f \in Fds
      /\ fds \in [Fds -> FdRecs] /\ fds[f] \in FdRecs /\ Ino(f) \in InodeRecs
  BY <1>0, CallFacts DEF CodeTypeOK, FdRecs, Ino
<1>2. /\ fds[f].open /\ i \in inobmp /\ i \in Inodes
  BY <1>1 DEF CallSane, FdsSane, CodeTypeOK
<1>3. /\ call' \in WriteCalls /\ call' # NoCall /\ call'.op = "write"
      /\ call'.fd = f /\ call'.done = call.done /\ call'.len = call.len
      /\ call'.victim = 0
  BY <1>0, <1>1 DEF WriteCalls, NoCall
<1> DEFINE k == Slot
<1> HIDE DEF k
<1>4. /\ fds' \in [Fds -> FdRecs]
      /\ \A g \in Fds : /\ fds'[g].open = fds[g].open
                        /\ fds'[g].inum = fds[g].inum
                        /\ g # f => fds'[g] = fds[g]
      /\ \A m \in Slots : fds'[f].ino.db[m] = IF m = k THEN b ELSE fds[f].ino.db[m]
  <2> DEFINE old == fds[f]
             ino == [old.ino EXCEPT !.db[k] = b]
             new == [old EXCEPT !.ino = ino]
  <2>1. /\ old \in FdRecs /\ old.ino \in InodeRecs
        /\ old.ino.db \in [Slots -> Blks \cup {0}] /\ k \in Slots
    BY <1>0, <1>1 DEF FdRecs, InodeRecs, k
  <2>2. /\ ino \in InodeRecs
        /\ \A m \in Slots : ino.db[m] = IF m = k THEN b ELSE old.ino.db[m]
    BY <2>1 DEF InodeRecs
  <2>3. /\ new \in FdRecs /\ new.open = old.open /\ new.inum = old.inum /\ new.ino = ino
    <3> HIDE DEF ino
    <3> QED
      BY <2>1, <2>2 DEF FdRecs
  <2>4. fds' = [fds EXCEPT ![f] = new]
    BY DEF k
  <2> HIDE DEF new, ino
  <2> QED
    BY <1>1, <2>2, <2>3, <2>4
<1>5. CodeTypeOK'
  BY <1>0, <1>3, <1>4 DEF CodeTypeOK, Cached
<1>6. CleanIsStored'
  BY <1>0 DEF CleanIsStored, Cached
<1>7. CallSane'
  BY <1>0, <1>1, <1>2, <1>3, <1>4 DEF CallSane, Cached
<1>8. FdsSane' /\ TableSane'
  <2>1. fds'[f].ino.name = fds[f].ino.name
    <3> DEFINE old == fds[f]
               ino == [old.ino EXCEPT !.db[k] = b]
    <3>1. old \in FdRecs /\ old.ino \in InodeRecs
      BY <1>1 DEF FdRecs
    <3>2. ino.name = old.ino.name
      BY <3>1 DEF InodeRecs
    <3>3. fds'[f].ino = ino
      <4> HIDE DEF ino
      <4>1. fds' = [fds EXCEPT ![f] = [old EXCEPT !.ino = ino]]
        BY DEF ino, k
      <4>2. [old EXCEPT !.ino = ino].ino = ino
        BY <3>1 DEF FdRecs
      <4> QED
        BY <1>1, <4>1, <4>2
    <3> HIDE DEF ino
    <3> QED
      BY <3>2, <3>3
  <2>2. \A g \in Fds : /\ fds'[g].ino.name = fds[g].ino.name
                       /\ ~fds'[g].open => fds'[g] = fds[g]
    BY <1>2, <1>4, <2>1
  <2> QED
    BY <1>0, <1>4, <2>2 DEF FdsSane, TableSane, SameFlash, Ino
\* The block that was free stood nowhere.
<1>9. /\ b # 0
      /\ \A g \in Fds, m \in Slots : fds[g].open => fds[g].ino.db[m] # b
      /\ \A j \in inobmp, m \in Slots : inodes[j].db[m] # b
  <2>1. b # 0
    BY NanosFSAssumption DEF Blks
  <2> QED
    BY <1>0, <2>1 DEF BlocksAccounted, StoredAccounted, Ino
<1>10. fds[f].ino.db[k] = 0 /\ k \in Slots
  BY <1>0 DEF Current, Ino, k
<1>11. BlocksAccounted'
  <2>1. ASSUME NEW g \in Fds, NEW h \in Fds, NEW l \in Slots, NEW m \in Slots,
               fds[g].open, fds[h].open, fds'[g].ino.db[l] # 0
        PROVE  /\ fds'[g].ino.db[l] \in blkbmp \cup {b}
               /\ fds'[g].ino.db[l] = fds'[h].ino.db[m] => g = h /\ l = m
    <3>1. \A c \in Fds, e \in Slots :
            fds'[c].ino.db[e] = IF c = f /\ e = k THEN b ELSE fds[c].ino.db[e]
      BY <1>4
    <3>2. CASE g = f /\ l = k
      BY <1>9, <2>1, <3>1, <3>2
    <3>3. CASE ~(g = f /\ l = k)
      <4>1. /\ fds'[g].ino.db[l] = fds[g].ino.db[l]
            /\ fds[g].ino.db[l] \in blkbmp /\ fds[g].ino.db[l] # b
        BY <1>9, <2>1, <3>1, <3>3 DEF BlocksAccounted, Ino
      <4>2. CASE h = f /\ m = k
        BY <3>1, <4>1, <4>2
      <4>3. CASE ~(h = f /\ m = k)
        BY <2>1, <3>1, <4>1, <4>3 DEF BlocksAccounted, Ino
      <4> QED
        BY <4>1, <4>2, <4>3
    <3> QED
      BY <3>2, <3>3
  <2> QED
    BY <1>4, <2>1 DEF BlocksAccounted, Ino
<1>12. StoredAccounted'
  <2>1. ASSUME NEW j \in inobmp, NEW l \in Slots, inodes[j].db[l] # 0
        PROVE  /\ inodes[j].db[l] \in blkbmp
               /\ \A i2 \in inobmp, m \in Slots : inodes[i2].db[m] = inodes[j].db[l] => i2 = j /\ m = l
               /\ \A g \in Fds, m \in Slots :
                    fds'[g].open /\ fds'[g].ino.db[m] = inodes[j].db[l] =>
                      fds'[g].inum = j /\ m = l
    <3>1. inodes[j].db[l] \in blkbmp /\ OnlyAt(inodes[j].db[l], j, l) /\ inodes[j].db[l] # b
      BY <1>9, <2>1 DEF StoredAccounted
    <3>2. ASSUME NEW g \in Fds, NEW m \in Slots, fds'[g].open,
                 fds'[g].ino.db[m] = inodes[j].db[l]
          PROVE  fds'[g].inum = j /\ m = l
      <4>1. fds'[g].ino.db[m] = fds[g].ino.db[m]
        BY <1>4, <3>1, <3>2
      <4> QED
        BY <1>4, <3>1, <3>2, <4>1 DEF OnlyAt, Ino
    <3> QED
      BY <3>1, <3>2 DEF OnlyAt
  <2> QED
    BY <1>0, <2>1 DEF StoredAccounted, OnlyAt, Ino
<1> QED
  BY <1>5, <1>6, <1>7, <1>8, <1>11, <1>12

LEMMA WriteBlkStep ==
  ASSUME FsInv, SameFlash,
         WriteBlk PROVE FsInv'
<1> USE DEF FsInv
<1> DEFINE old == IF call.fresh THEN ErasedBlk ELSE Block(Current)
           new == [k \in 1 .. NFS_BLK_SZ |->
                     IF k \in InBlk + 1 .. InBlk + Chunk THEN call.value ELSE old[k]]
           e   == [dirty |-> TRUE, buf |-> new]
<1>0. /\ UNCHANGED <<formatted, flash, inodes, mounted, blkbmp, inobmp, fds>>
      /\ mounted /\ call.op = "write" /\ call.victim = 0
      /\ call.done < call.len /\ Current # 0
      /\ call' = [call EXCEPT !.done = @ + Chunk, !.fresh = FALSE]
      /\ cache' = Put(Current, e)
  BY DEF WriteBlk, InCall, flashVars
<1>1. /\ call \in WriteCalls /\ call # NoCall /\ call.fd \in Fds
      /\ call.len \in 1 .. MaxLen /\ call.done \in 0 .. MaxLen
      /\ call.value \in Cells
  BY <1>0, CallFacts DEF WriteCalls, Cells
<1>2. Current \in Blks /\ Chunk \in 1 .. call.len - call.done
  BY <1>0, TransferFacts
<1>3. e \in [dirty : BOOLEAN, buf : BlkBufs] /\ e.dirty
  <2>1. old \in BlkBufs
    BY <1>2, ErasedType DEF CodeTypeOK, Block, Cached
  <2>2. new \in BlkBufs
    BY <1>1, <2>1 DEF BlkBufs
  <2> QED
    BY <2>2
<1> HIDE DEF e, new, old
<1>4. /\ Cached' = Cached \cup {Current} /\ Cached' \subseteq Blks
      /\ cache' \in [Cached' -> [dirty : BOOLEAN, buf : BlkBufs]]
      /\ CleanIsStored'
  BY <1>0, <1>2, <1>3, PutKeeps
<1> DEFINE d == call.done + Chunk
<1>5. d \in 0 .. MaxLen /\ d <= call.len
  BY <1>1, <1>2, NanosFSAssumption
<1>6. call' = [call EXCEPT !.done = d, !.fresh = FALSE]
  BY <1>0
<1> HIDE DEF d
<1>7. /\ call' \in WriteCalls /\ call' # NoCall /\ call'.op = "write"
      /\ call'.fd = call.fd /\ call'.done = d /\ call'.len = call.len
      /\ call'.victim = 0
  BY <1>0, <1>1, <1>5, <1>6 DEF WriteCalls, NoCall
<1>8. CodeTypeOK'
  BY <1>0, <1>4, <1>7 DEF CodeTypeOK
<1>9. CallSane'
  BY <1>0, <1>1, <1>4, <1>5, <1>7 DEF CallSane
<1>10. FdsSane' /\ TableSane' /\ BlocksAccounted' /\ StoredAccounted'
  BY <1>0, OwnersStay
<1> QED
  BY <1>4, <1>8, <1>9, <1>10

\* The inode in the table keeps no block that the descriptor does not have.
LEMMA WriteReturnStep ==
  ASSUME FsInv, SameFlash,
         WriteReturn PROVE FsInv'
<1> USE DEF FsInv
<1> DEFINE f   == call.fd
           i   == fds[f].inum
           end == fds[f].pos + call.done
           new == [Ino(f) EXCEPT !.sz = SizeAfter(@, end)]
<1>0. /\ UNCHANGED <<formatted, flash, mounted, blkbmp, inobmp, cache>>
      /\ mounted /\ call.op = "write" /\ call' = NoCall
      /\ fds' = [fds EXCEPT ![f].pos = end, ![f].ino = new]
  BY DEF WriteReturn, InCall
<1> PICK ino \in Programmed(inodes[i], new) : inodes' = [inodes EXCEPT ![i] = ino]
  BY DEF WriteReturn
<1>1. /\ call # NoCall /\ f \in Fds /\ call.done \in Nat
      /\ fds \in [Fds -> FdRecs] /\ fds[f] \in FdRecs /\ Ino(f) \in InodeRecs
  BY <1>0, CallFacts, NanosFSAssumption DEF CodeTypeOK, FdRecs, Ino
<1>2. fds[f].open /\ i \in inobmp /\ i \in Inodes
  BY <1>1 DEF CallSane, FdsSane, CodeTypeOK
<1>3. end \in Nat
  BY <1>1 DEF FdRecs
<1>4. new \in InodeRecs /\ new.db = Ino(f).db /\ new.name = Ino(f).name
  <2>1. SizeAfter(Ino(f).sz, end) \in Nat
    BY <1>1, <1>3 DEF SizeAfter, InodeRecs
  <2> QED
    BY <1>1, <2>1 DEF InodeRecs
<1> HIDE DEF new, end
<1>5. /\ fds' \in [Fds -> FdRecs]
      /\ \A g \in Fds : /\ fds'[g].open = fds[g].open
                        /\ fds'[g].inum = fds[g].inum
                        /\ fds'[g].ino = IF g = f THEN new ELSE fds[g].ino
                        /\ g # f => fds'[g] = fds[g]
  BY <1>0, <1>1, <1>3, <1>4 DEF FdRecs
<1>6. /\ ino \in InodeRecs
      /\ ino = new \/ (ino.sz = 0 /\ ino.db = NoBlks)
      /\ ino.name \in {new.name, Garbled}
      /\ ~FlashOverwrites => ino.sz = 0 /\ ino.db = NoBlks
  <2>1. inodes[i] \in InodeRecs /\ (FlashOverwrites \/ (inodes[i].sz = 0 /\ inodes[i].db = NoBlks))
    BY <1>2 DEF CodeTypeOK, TableSane
  <2>2. inodes[i] # NoInode
    BY <1>2 DEF TableSane, NoInode, NewInode
  <2> QED
    BY <1>4, <2>1, <2>2, ProgrammedFacts
<1>7. /\ inodes' \in [Inodes -> InodeRecs]
      /\ \A j \in Inodes : inodes'[j] = IF j = i THEN ino ELSE inodes[j]
  BY <1>2, <1>6 DEF CodeTypeOK
<1>8. CodeTypeOK'
  BY <1>0, <1>5, <1>7 DEF CodeTypeOK, Cached
<1>9. CleanIsStored' /\ CallSane'
  BY <1>0 DEF CleanIsStored, CallSane, Cached
<1>10. inobmp \subseteq Inodes /\ \A g \in Fds : fds[g].open => fds[g].inum \in Inodes
  BY DEF FdsSane, CodeTypeOK
<1>11. FdsSane'
  <2>1. \A g \in Fds : ~fds'[g].open => fds'[g] = Closed
    BY <1>2, <1>5 DEF FdsSane
  <2>2. \A g \in Fds : fds'[g].open => fds[g].ino.name = fds'[g].ino.name
    BY <1>4, <1>5 DEF Ino
  <2>3. ASSUME NEW g \in Fds, fds[g].open
        PROVE  /\ fds[g].inum \in inobmp /\ fds[g].ino.name \in Names
               /\ inodes'[fds[g].inum].name \in {fds[g].ino.name, Garbled}
    <3>1. CASE fds[g].inum = i
      <4>1. g = f
        BY <1>1, <1>2, <2>3, <3>1 DEF FdsSane
      <4> QED
        BY <1>4, <1>6, <1>7, <1>10, <2>3, <4>1 DEF FdsSane, Ino
    <3>2. CASE fds[g].inum # i
      BY <1>7, <1>10, <2>3, <3>2 DEF FdsSane, Ino
    <3> QED
      BY <3>1, <3>2
  <2>4. \A g, h \in Fds :
          fds[g].open /\ fds[h].open /\ g # h => /\ fds[g].inum # fds[h].inum
                                                 /\ fds[g].ino.name # fds[h].ino.name
    BY DEF FdsSane, Ino
  <2> HIDE DEF f, i
  <2>5. inobmp' = inobmp
    BY <1>0
  <2> QED
    BY <1>5, <2>1, <2>2, <2>3, <2>4, <2>5 DEF FdsSane, Ino
<1>12. TableSane'
  <2>1. ino.name # NoFile
    BY <1>1, <1>2, <1>4, <1>6, NanosFSAssumption DEF FdsSane
  <2>2. \A j \in inobmp : inodes'[j].name # NoFile
    BY <1>7, <1>10, <2>1 DEF TableSane
  <2>3. ~FlashOverwrites => \A j \in Inodes : inodes'[j].sz = 0 /\ inodes'[j].db = NoBlks
    BY <1>6, <1>7 DEF TableSane
  <2> QED
    BY <1>0, <2>2, <2>3 DEF TableSane, SameFlash
<1>13. \A g \in Fds : fds'[g].ino.db = fds[g].ino.db
  BY <1>4, <1>5 DEF Ino
<1>14. BlocksAccounted'
  BY <1>0, <1>5, <1>13 DEF BlocksAccounted, Ino
<1>15. StoredAccounted'
  <2>1. \A k \in Slots : ino.db[k] = Ino(f).db[k] \/ ino.db[k] = 0
    BY <1>4, <1>6 DEF NoBlks
  <2>2. ASSUME NEW j \in inobmp, NEW k \in Slots, inodes'[j].db[k] # 0
        PROVE  /\ inodes'[j].db[k] \in blkbmp
               /\ \A l \in inobmp, m \in Slots : inodes'[l].db[m] = inodes'[j].db[k] => l = j /\ m = k
               /\ \A g \in Fds, m \in Slots :
                    fds[g].open /\ fds[g].ino.db[m] = inodes'[j].db[k] => fds[g].inum = j /\ m = k
    <3>1. CASE j = i
      <4>1. inodes'[j].db[k] = Ino(f).db[k] /\ Ino(f).db[k] # 0
        BY <1>2, <1>7, <2>1, <2>2, <3>1
      <4>2. Ino(f).db[k] \in blkbmp
        BY <1>1, <1>2, <4>1 DEF BlocksAccounted
      <4>3. \A g \in Fds, m \in Slots :
              fds[g].open /\ fds[g].ino.db[m] = Ino(f).db[k] => fds[g].inum = i /\ m = k
        BY <1>1, <1>2, <4>1 DEF BlocksAccounted, Ino
      <4>4. ASSUME NEW l \in inobmp, NEW m \in Slots, inodes'[l].db[m] = inodes'[j].db[k]
            PROVE  l = i /\ m = k
        <5>1. CASE l = i
          <6>1. ino.db[m] = Ino(f).db[m]
            BY <1>2, <1>7, <2>1, <4>1, <4>4, <5>1
          <6>2. Ino(f).db[m] = Ino(f).db[k]
            BY <1>2, <1>7, <4>1, <4>4, <5>1, <6>1
          <6> QED
            BY <1>1, <1>2, <4>1, <5>1, <6>2 DEF BlocksAccounted
        <5>2. CASE l # i
          <6>1. inodes[l].db[m] = Ino(f).db[k] /\ inodes[l].db[m] # 0
            BY <1>7, <1>10, <4>1, <4>4, <5>2
          <6>2. OnlyAt(inodes[l].db[m], l, m)
            BY <6>1 DEF StoredAccounted
          <6> QED
            BY <1>1, <1>2, <5>2, <6>1, <6>2 DEF OnlyAt, Ino
        <5> QED
          BY <5>1, <5>2
      <4> HIDE DEF f, i
      <4> QED
        BY <3>1, <4>1, <4>2, <4>3, <4>4
    <3>2. CASE j # i
      <4>1. inodes'[j] = inodes[j]
        BY <1>7, <1>10, <3>2
      <4>2. inodes[j].db[k] \in blkbmp /\ OnlyAt(inodes[j].db[k], j, k)
        BY <2>2, <4>1 DEF StoredAccounted
      <4>3. ASSUME NEW l \in inobmp, NEW m \in Slots, inodes'[l].db[m] = inodes[j].db[k]
            PROVE  l = j /\ m = k
        <5>1. CASE l = i
          <6>1. ino.db[m] = Ino(f).db[m]
            BY <1>2, <1>7, <2>1, <2>2, <4>1, <4>3, <5>1
          <6>2. Ino(f).db[m] = inodes[j].db[k]
            BY <1>2, <1>7, <4>3, <5>1, <6>1
          <6> QED
            BY <1>1, <1>2, <3>2, <4>2, <6>2 DEF OnlyAt
        <5>2. CASE l # i
          BY <1>7, <1>10, <4>2, <4>3, <5>2 DEF OnlyAt
        <5> QED
          BY <5>1, <5>2
      <4> HIDE DEF f, i
      <4> QED
        BY <4>1, <4>2, <4>3 DEF OnlyAt, Ino
    <3> QED
      BY <3>1, <3>2
  <2> HIDE DEF f, i
  <2>3. \A g \in Fds : /\ fds'[g].open = fds[g].open /\ fds'[g].inum = fds[g].inum
                      /\ fds'[g].ino.db = fds[g].ino.db
    BY <1>5, <1>13
  <2>4. inobmp' = inobmp /\ blkbmp' = blkbmp
    BY <1>0
  <2> QED
    BY <2>2, <2>3, <2>4 DEF StoredAccounted, OnlyAt, Ino
<1> QED
  BY <1>8, <1>9, <1>11, <1>12, <1>14, <1>15

(***************************************************************************)
(* The invariant and the theorems.                                         *)
(***************************************************************************)

LEMMA FsStep == FsInv /\ [Next]_vars => FsInv'
<1> SUFFICES ASSUME FsInv, [Next]_vars PROVE FsInv'
  OBVIOUS
<1>0. SameFlash
  BY DEF Next, vars, SameFlash, FlashOverwrites
<1>1. CASE MountAndFormat \/ Mount \/ PowerCut
  BY <1>0, <1>1, MountSteps
<1>2. CASE \E n \in Names : OpenFile(n) \/ CreateFile(n)
  BY <1>0, <1>2, OpenFileStep, CreateFileStep
<1>3. CASE \E f \in Fds : Close(f)
  BY <1>0, <1>3, CloseStep
<1>4. CASE \E f \in Fds, len \in 1 .. MaxLen : StartRead(f, len)
  BY <1>0, <1>4, StartReadStep
<1>5. CASE \E f \in Fds, len \in 1 .. MaxLen, d \in Data : StartWrite(f, len, d)
  BY <1>0, <1>5, StartWriteStep
<1>6. CASE ReadBlk \/ ReadReturn
  BY <1>0, <1>6, ReadBlkStep, ReadReturnStep
<1>7. CASE AllocBlk \/ WriteBlk \/ WriteReturn
  BY <1>0, <1>7, AllocBlkStep, WriteBlkStep, WriteReturnStep
<1>8. CASE EvictClean \/ EvictErase \/ EvictStore
  BY <1>0, <1>8, EvictCleanStep, EvictEraseStep, EvictStoreStep
<1>9. CASE UNCHANGED vars
  <2>1. /\ UNCHANGED <<formatted, flash, inodes, mounted, blkbmp, inobmp>>
        /\ UNCHANGED <<cache, fds, call>>
    BY <1>9 DEF vars, flashVars
  <2>2. CodeTypeOK' /\ CleanIsStored' /\ CallSane'
    BY <2>1 DEF FsInv, CodeTypeOK, CleanIsStored, CallSane, Cached
  <2>3. FdsSane' /\ TableSane' /\ BlocksAccounted' /\ StoredAccounted'
    BY <1>0, <2>1, OwnersStay
  <2> QED
    BY <2>2, <2>3 DEF FsInv
<1> QED
  BY <1>1, <1>2, <1>3, <1>4, <1>5, <1>6, <1>7, <1>8, <1>9 DEF Next

LEMMA FsInvariant == Spec => []FsInv
BY FsInit, FsStep, PTL DEF Spec

\* The variables of fs/nfs.c always have their types.
THEOREM NanosFSTypes == Spec => []CodeTypeOK
<1>1. FsInv => CodeTypeOK
  BY DEF FsInv
<1> QED
  BY <1>1, FsInvariant, PTL

\* What cevict() throws away without writing it can be read from the flash
\* again, with the power cut at any time.
THEOREM CacheStaysStored == Spec => []CleanIsStored
<1>1. FsInv => CleanIsStored
  BY DEF FsInv
<1> QED
  BY <1>1, FsInvariant, PTL

\* alloc_blk() never gives a block to two places, no block in a file is free,
\* alloc_blk() gives no block away that an open file has, in whatever order files are
\* created, grow, are closed and opened again, and whatever flash_write() leaves of the
\* inodes.
THEOREM BlocksStayAccounted == Spec => []BlocksAccounted
<1>1. FsInv => BlocksAccounted
  BY DEF FsInv
<1> QED
  BY <1>1, FsInvariant, PTL


(***************************************************************************)
(* Positions in a file: the block of a cell and the place in it.           *)
(***************************************************************************)

\* Division with remainder.
LEMMA DivFacts ==
  ASSUME NEW n \in Nat \ {0}, NEW a \in Nat
  PROVE  a \div n \in Nat /\ a % n \in 0 .. n - 1 /\ a = n * (a \div n) + (a % n)
<1>1. a \div n \in Int /\ a \div n >= 0 /\ a % n \in 0 .. n - 1
  OBVIOUS
<1>2. \A m, b \in Nat : m > 0 => b = m * (b \div m) + (b % m)
  BY Z3
<1>3. n \in Nat /\ n > 0
  OBVIOUS
<1>4. a = n * (a \div n) + (a % n)
  BY <1>2, <1>3, Zenon
<1> QED BY <1>1, <1>4

\* The product grows by a factor at least.
LEMMA TimesGrows ==
  ASSUME NEW n \in Nat \ {0}, NEW a \in Nat, NEW b \in Nat, a < b
  PROVE  n * a + n <= n * b
OBVIOUS

\* Products of natural numbers are natural numbers.
LEMMA TimesInt == \A n, a \in Nat : n * a \in Nat
OBVIOUS

\* Quotient and remainder are determined.
LEMMA DivUnique ==
  ASSUME NEW n \in Nat \ {0}, NEW q \in Nat, NEW r \in 0 .. n - 1, NEW a \in Nat,
         a = n * q + r
  PROVE  a \div n = q /\ a % n = r
<1> DEFINE p == a \div n
           s == a % n
<1>1. p \in Nat /\ s \in 0 .. n - 1 /\ a = n * p + s
  BY DivFacts
<1> HIDE DEF p, s
<1>2. n * p \in Nat /\ n * q \in Nat
  BY <1>1, TimesInt
<1>3. ~ (p < q)
  <2>1. p < q => n * p + n <= n * q
    BY <1>1, TimesGrows
  <2> QED BY <1>1, <1>2, <2>1
<1>4. ~ (q < p)
  <2>1. q < p => n * q + n <= n * p
    BY <1>1, TimesGrows
  <2> QED BY <1>1, <1>2, <2>1
<1>5. p = q
  BY <1>1, <1>3, <1>4
<1> QED BY <1>1, <1>2, <1>5 DEF p, s

\* A step inside the block of p.
LEMMA StepInBlock ==
  ASSUME NEW n \in Nat \ {0}, NEW p \in Nat, NEW d \in Nat, (p % n) + d < n
  PROVE  (p + d) \div n = p \div n /\ (p + d) % n = (p % n) + d
<1> DEFINE q == p \div n
           r == p % n
           a == p + d
           s == r + d
<1>1. q \in Nat /\ r \in 0 .. n - 1 /\ p = n * q + r
  BY DivFacts
<1>2. s \in 0 .. n - 1 /\ a \in Nat /\ a = n * q + s
  <2> HIDE DEF q, r
  <2>1. n * q \in Nat /\ r + d < n
    BY <1>1, TimesInt DEF r
  <2> QED BY <1>1, <2>1
<1> HIDE DEF q, a, s
<1>3. a \div n = q /\ a % n = s
  <2> HIDE DEF r
  <2>1. \A m \in Nat \ {0}, u \in Nat, b \in Nat : \A v \in 0 .. m - 1 :
          b = m * u + v => b \div m = u /\ b % m = v
    BY DivUnique
  <2> QED BY <1>1, <1>2, <2>1, Zenon
<1> QED BY <1>3 DEF q, a, s

\* The cells from p to the end of a chunk that stays in the block of p are those
\* that lie in that block between the same remainders.
LEMMA ChunkIsInBlock ==
  ASSUME NEW n \in Nat \ {0}, NEW p \in Nat, NEW c \in Nat, (p % n) + c <= n, NEW o \in Nat
  PROVE  p <= o /\ o < p + c <=>
           o \div n = p \div n /\ (p % n) <= (o % n) /\ (o % n) < (p % n) + c
<1> DEFINE pd == p \div n
           pr == p % n
           od == o \div n
           or == o % n
<1>1. /\ pd \in Nat /\ pr \in 0 .. n - 1 /\ p = n * pd + pr
      /\ od \in Nat /\ or \in 0 .. n - 1 /\ o = n * od + or
  BY DivFacts
<1>2. pr + c <= n
  OBVIOUS
<1> HIDE DEF pd, pr, od, or
<1>3. n * pd \in Nat /\ n * od \in Nat
  BY <1>1, TimesInt
<1>4. ASSUME p <= o, o < p + c PROVE od = pd
  <2>1. ~ (pd < od)
    <3>1. pd < od => n * pd + n <= n * od
      BY <1>1, TimesGrows
    <3> QED BY <1>1, <1>2, <1>3, <1>4, <3>1
  <2>2. ~ (od < pd)
    <3>1. od < pd => n * od + n <= n * pd
      BY <1>1, TimesGrows
    <3> QED BY <1>1, <1>2, <1>3, <1>4, <3>1
  <2> QED BY <1>1, <2>1, <2>2
<1>5. od = pd => (p <= o /\ o < p + c <=> pr <= or /\ or < pr + c)
  BY <1>1, <1>3
<1>6. p <= o /\ o < p + c <=> od = pd /\ pr <= or /\ or < pr + c
  BY <1>4, <1>5
<1> QED BY <1>6 DEF pd, pr, od, or

(***************************************************************************)
(* What the open files hold: the content that was promised, with what the  *)
(* write in progress has put over it; a read in progress has delivered     *)
(* what it passed.                                                         *)
(***************************************************************************)

\* The call in progress writes to the file of the descriptor f.
Writes(f) == call.op = "write" /\ call.fd = f

\* The cells of the file that are there: those of the file, and those that the write in
\* progress has put behind its end.
Reach(f) == IF Writes(f) /\ Offset > Ino(f).sz THEN Offset ELSE Ino(f).sz

\* The write in progress has put its value at the offset o.
WrittenNow(f, o) == Writes(f) /\ fds[f].pos <= o /\ o < Offset

\* The cell at the offset o of the file of an inode.
Cell(ino, o) == Block(ino.db[o \div NFS_BLK_SZ])[(o % NFS_BLK_SZ) + 1]

\* There is a block of the inode for each of its first n cells.
HasBlks(ino, n) ==
  \A o \in 0 .. n - 1 : o \div NFS_BLK_SZ \in Slots /\ ino.db[o \div NFS_BLK_SZ] # 0

\* The file is as long as its promise; the cells that are there lie in blocks it has, and
\* hold what the write in progress has put there or what was promised.
FileKept(f) ==
  /\ promised[Ino(f).name] \in Seq(Cells)
  /\ Len(promised[Ino(f).name]) = Ino(f).sz
  /\ HasBlks(Ino(f), Reach(f))
  /\ \A o \in 0 .. Reach(f) - 1 :
       Cell(Ino(f), o) = IF WrittenNow(f, o) THEN call.value ELSE promised[Ino(f).name][o + 1]

\* No descriptor stands behind the end of its file.  A block that is fresh stands
\* behind all cells that are there.  A read asks for what the file has, and has got
\* what was promised up to where it is.
TransferSane ==
  /\ \A f \in Fds : fds[f].open => fds[f].pos <= Ino(f).sz
  /\ call.op = "write" /\ call.fresh =>
       \A o \in 0 .. Reach(call.fd) - 1 : o \div NFS_BLK_SZ # Slot
  /\ call.op = "read" =>
       LET written == promised[Ino(call.fd).name]
           from    == fds[call.fd].pos
       IN  /\ from + call.len <= Ino(call.fd).sz
           /\ Len(call.got) = call.done
           /\ \A k \in 1 .. call.done : call.got[k] = written[from + k]

\* An open file is as promised, and an inode on flash has blocks for the size it gives.
FilesInv ==
  /\ promised \in [Names -> Seq(Cells) \cup {NoFile}]
  /\ TransferSane
  /\ \A f \in Fds : fds[f].open => FileKept(f)
  /\ \A i \in inobmp : HasBlks(inodes[i], inodes[i].sz)

\* The parts of TypeOK that bound the cache and the sizes.
Bounds ==
  /\ Cardinality(Cached) <= CACHE_N
  /\ \A f \in Fds : Ino(f).sz <= NFS_DIRECT_BLKS * NFS_BLK_SZ

\* With FsInv this is inductive: FilesKept by itself is not, as it says nothing of a
\* write or a read in progress, nor of what the next nfs_open() finds.
KeptInv == FilesInv /\ Bounds

(***************************************************************************)
(* Each step keeps the files: lemmas on unchanged files first.             *)
(***************************************************************************)

\* A call that goes on keeps the rest of its data.
LEMMA CallMovesData ==
  ASSUME CodeTypeOK, call.op # "none", NEW v \in Blks \cup {0},
         call' = [call EXCEPT !.victim = v]
  PROVE  /\ call.op = "write" => call'.value = call.value /\ call'.fresh = call.fresh
         /\ call.op = "read" => call'.got = call.got
<1>1. CASE call.op = "read"
  <2>1. call \in ReadCalls
    BY <1>1, CallFacts
  <2> QED BY <1>1, <2>1 DEF ReadCalls
<1>2. CASE call.op = "write"
  <2>1. call \in WriteCalls
    BY <1>2, CallFacts
  <2> QED BY <1>2, <2>1 DEF WriteCalls
<1> QED BY <1>1, <1>2, CallFacts

\* What a block delivers does not depend on where it is: an entry that is thrown away
\* is stored, and a victim is delivered from the cache until it is.
LEMMA EvictDelivers ==
  ASSUME FsInv, EvictClean \/ EvictErase \/ EvictStore
  PROVE  \A b \in Blks : Block(b)' = Block(b)
<1> SUFFICES ASSUME NEW b \in Blks PROVE Block(b)' = Block(b)
  OBVIOUS
<1> USE DEF FsInv
<1>0. flash \in [Blks -> BlkBufs]
  BY DEF CodeTypeOK
<1>1. CASE EvictClean
  <2>1. PICK v \in Cached : /\ ~cache[v].dirty /\ UNCHANGED flash
                            /\ cache' = [c \in Cached \ {v} |-> cache[c]]
    BY <1>1 DEF EvictClean, flashVars
  <2>2. Cached' = Cached \ {v}
    BY <2>1 DEF Cached
  <2> QED BY <2>1, <2>2 DEF Block, CleanIsStored
<1>2. CASE EvictErase
  <2>1. PICK v \in Cached : UNCHANGED cache /\ flash' = [flash EXCEPT ![v] = ErasedBlk]
    BY <1>2 DEF EvictErase
  <2>2. Cached' = Cached /\ (b \notin Cached => flash'[b] = flash[b])
    BY <1>0, <2>1 DEF Cached
  <2> QED BY <2>1, <2>2 DEF Block
<1>3. CASE EvictStore
  <2> DEFINE v == call.victim
  <2>1. /\ call # NoCall /\ v # 0
        /\ flash' = [flash EXCEPT ![v] = cache[v].buf]
        /\ cache' = [c \in Cached \ {v} |-> cache[c]]
    BY <1>3, CallFacts DEF EvictStore, StoreVictim
  <2>2. v \in Cached /\ Cached' = Cached \ {v}
    BY <2>1 DEF CallSane, Cached
  <2>3. flash'[b] = IF b = v THEN cache[v].buf ELSE flash[b]
    BY <1>0, <2>1
  <2> QED BY <2>1, <2>2, <2>3 DEF Block
<1> QED BY <1>1, <1>2, <1>3


\* The types of what a descriptor holds.
LEMMA FdType ==
  ASSUME CodeTypeOK, NEW f \in Fds
  PROVE  /\ fds[f] \in FdRecs /\ Ino(f) \in InodeRecs /\ Ino(f).sz \in Nat /\ fds[f].pos \in Nat
         /\ Ino(f).db \in [Slots -> Blks \cup {0}]
BY DEF CodeTypeOK, FdRecs, InodeRecs, Ino

\* A file whose inode, blocks and promise did not change, seen up to the same end.
LEMMA FileStays ==
  ASSUME FsInv, NEW f \in Fds, FileKept(f), Ino(f)' = Ino(f),
         promised'[Ino(f).name] = promised[Ino(f).name], Reach(f)' = Reach(f),
         \A b \in Blks : (\E k \in Slots : Ino(f).db[k] = b) => Block(b)' = Block(b),
         \A o \in 0 .. Reach(f) - 1 : /\ WrittenNow(f, o)' <=> WrittenNow(f, o)
                                      /\ WrittenNow(f, o) => call'.value = call.value
  PROVE  FileKept(f)'
<1> DEFINE db == Ino(f).db
<1>1. db \in [Slots -> Blks \cup {0}]
  BY FdType DEF FsInv
<1>2. ASSUME NEW o \in 0 .. Reach(f) - 1
      PROVE  /\ o \div NFS_BLK_SZ \in Slots /\ db[o \div NFS_BLK_SZ] # 0
             /\ Cell(Ino(f), o)' = IF WrittenNow(f, o)' THEN call'.value
                                   ELSE promised[Ino(f).name][o + 1]
  <2>1. /\ o \div NFS_BLK_SZ \in Slots /\ db[o \div NFS_BLK_SZ] # 0
        /\ Cell(Ino(f), o) = IF WrittenNow(f, o) THEN call.value
                             ELSE promised[Ino(f).name][o + 1]
    BY DEF FileKept, HasBlks
  <2>2. /\ db[o \div NFS_BLK_SZ] \in Blks
        /\ \A b \in Blks : b = db[o \div NFS_BLK_SZ] => Block(b)' = Block(b)
    BY <1>1, <2>1
  <2>3. Block(db[o \div NFS_BLK_SZ])' = Block(db[o \div NFS_BLK_SZ])
    <3>1. \A b \in Blks : b = db[o \div NFS_BLK_SZ] => Block(b)' = Block(db[o \div NFS_BLK_SZ])'
      BY DEF Block
    <3> QED BY <2>2, <3>1
  <2>4. Cell(Ino(f), o)' = Cell(Ino(f), o)
    BY <2>3 DEF Cell
  <2> QED BY <2>1, <2>4
<1> QED BY <1>2 DEF FileKept, HasBlks

\* The same of a file that no call writes to.
LEMMA RestStays ==
  ASSUME FsInv, FilesInv, NEW f \in Fds, fds[f].open, Ino(f)' = Ino(f),
         promised'[Ino(f).name] = promised[Ino(f).name], ~Writes(f), ~Writes(f)',
         \A b \in Blks : (\E k \in Slots : Ino(f).db[k] = b) => Block(b)' = Block(b)
  PROVE  FileKept(f)'
<1>1. FileKept(f)
  BY DEF FilesInv
<1>2. Reach(f)' = Reach(f) /\ \A o : ~WrittenNow(f, o) /\ ~WrittenNow(f, o)'
  BY DEF Reach, WrittenNow
<1> QED BY <1>1, <1>2, FileStays

\* The inodes on flash have their blocks after steps that leave them alone.
LEMMA TableStays ==
  ASSUME FilesInv, UNCHANGED <<inodes, inobmp>>
  PROVE  \A i \in inobmp' : HasBlks(inodes'[i], inodes'[i].sz)
BY DEF FilesInv

\* A call in progress that has transferred nothing more leaves the files as they are.
LEMMA CallStays ==
  ASSUME FsInv, FilesInv, UNCHANGED <<inodes, inobmp, fds, promised>>,
         call'.op = call.op, call'.fd = call.fd, call'.done = call.done, call'.len = call.len,
         call.op = "write" => call'.value = call.value /\ call'.fresh = call.fresh,
         call.op = "read" => call'.got = call.got,
         \A b \in Blks : Block(b)' = Block(b)
  PROVE  FilesInv'
<1>1. \A f : Ino(f)' = Ino(f)
  BY DEF Ino
<1>2. Offset' = Offset /\ Slot' = Slot
  BY DEF Offset, Slot
<1>3. \A f : /\ Writes(f)' <=> Writes(f)
             /\ Reach(f)' = Reach(f)
             /\ \A o : WrittenNow(f, o)' <=> WrittenNow(f, o)
  BY <1>1, <1>2 DEF Writes, Reach, WrittenNow
<1>5. TransferSane'
  <2>1. \A f \in Fds : fds'[f].open => fds'[f].pos <= Ino(f)'.sz
    BY DEF FilesInv, TransferSane, Ino
  <2>2. call'.op = "write" /\ call'.fresh =>
          \A o \in 0 .. Reach(call.fd) - 1 : o \div NFS_BLK_SZ # Slot
    BY DEF FilesInv, TransferSane
  <2>3. call'.op = "read" =>
          LET written == promised[Ino(call.fd).name]
              from    == fds[call.fd].pos
          IN  /\ from + call.len <= Ino(call.fd).sz
              /\ Len(call'.got) = call.done
              /\ \A k \in 1 .. call.done : call'.got[k] = written[from + k]
    BY DEF FilesInv, TransferSane
  <2>4. Reach(call.fd)' = Reach(call.fd)
    BY <1>2 DEF Reach, Writes, Ino
  <2>5. Ino(call.fd)' = Ino(call.fd)
    BY DEF Ino
  <2> QED BY <1>2, <2>1, <2>2, <2>3, <2>4, <2>5 DEF TransferSane
<1>6. ASSUME NEW f \in Fds, fds'[f].open PROVE FileKept(f)'
  <2>1. fds[f].open /\ FileKept(f)
    BY <1>6 DEF FilesInv
  <2>2. \A o : WrittenNow(f, o) => call'.value = call.value
    BY DEF WrittenNow, Writes
  <2> QED BY <1>1, <1>3, <2>1, <2>2, FileStays
<1>7. promised' \in [Names -> Seq(Cells) \cup {NoFile}]
  BY DEF FilesInv
<1> QED BY <1>5, <1>6, <1>7, TableStays DEF FilesInv

\* Outside a write, a step that leaves blocks and descriptors alone does not matter for the
\* files.
LEMMA FilesStay ==
  ASSUME FsInv, FilesInv, UNCHANGED <<inodes, inobmp, promised>>,
         call.op # "write", call'.op # "write", TransferSane',
         \A f \in Fds : fds'[f].open => fds[f].open /\ Ino(f)' = Ino(f),
         \A b \in Blks : Block(b)' = Block(b)
  PROVE  FilesInv'
<1>1. ASSUME NEW f \in Fds, fds'[f].open PROVE FileKept(f)'
  <2>1. ~Writes(f) /\ ~Writes(f)' /\ fds[f].open /\ Ino(f)' = Ino(f)
    BY <1>1 DEF Writes
  <2> QED BY <2>1, RestStays
<1>2. promised' \in [Names -> Seq(Cells) \cup {NoFile}]
  BY DEF FilesInv
<1> QED BY <1>1, <1>2, TableStays DEF FilesInv

(***************************************************************************)
(* One lemma per action.                                                   *)
(***************************************************************************)

\* Mounting, formatting and the power cut leave no file open and no inode in use.
LEMMA MountKeeps ==
  ASSUME FsInv, FilesInv, MountAndFormat \/ Mount \/ PowerCut PROVE FilesInv'
<1>1. inobmp' = {} /\ call' = NoCall /\ \A f \in Fds : ~fds'[f].open
  <2>1. CASE MountAndFormat \/ Mount
    BY <2>1 DEF MountAndFormat, Mount, FsInv, CallSane
  <2>2. CASE PowerCut
    BY <2>2 DEF PowerCut, Closed
  <2> QED BY <2>1, <2>2
<1>2. TransferSane'
  BY <1>1 DEF TransferSane, NoCall
<1>3. promised' \in [Names -> Seq(Cells) \cup {NoFile}]
  BY DEF MountAndFormat, Mount, PowerCut, FilesInv
<1> QED BY <1>1, <1>2, <1>3 DEF FilesInv

\* What a file shows is as long as its inode says, and made of cells of its blocks.
LEMMA ShownFacts ==
  ASSUME FsInv, NEW ino \in InodeRecs, HasBlks(ino, ino.sz)
  PROVE  /\ Shown(ino) \in Seq(Cells) /\ Len(Shown(ino)) = ino.sz
         /\ \A o \in 0 .. ino.sz - 1 : Cell(ino, o) = Shown(ino)[o + 1]
<1>1. /\ ino.sz \in Nat /\ ino.db \in [Slots -> Blks \cup {0}] /\ NFS_BLK_SZ \in Nat \ {0}
      /\ \A b \in Blks : Block(b) \in BlkBufs
  BY NanosFSAssumption DEF InodeRecs, FsInv, CodeTypeOK, Block, Cached
<1>2. ASSUME NEW o \in 0 .. ino.sz - 1 PROVE Cell(ino, o) \in Cells
  <2>1. /\ o \div NFS_BLK_SZ \in Slots /\ ino.db[o \div NFS_BLK_SZ] # 0
    BY DEF HasBlks
  <2>2. ino.db[o \div NFS_BLK_SZ] \in Blks
    BY <1>1, <2>1
  <2>3. (o % NFS_BLK_SZ) + 1 \in 1 .. NFS_BLK_SZ
    <3>1. o % NFS_BLK_SZ \in 0 .. NFS_BLK_SZ - 1
      BY <1>1, DivFacts
    <3> QED BY <1>1, <3>1
  <2> QED BY <1>1, <2>2, <2>3 DEF Cell, BlkBufs
<1>3. \A k \in 1 .. ino.sz : k - 1 \in 0 .. ino.sz - 1
  BY <1>1
<1>4. Shown(ino) = [k \in 1 .. ino.sz |-> Cell(ino, k - 1)]
  BY DEF Shown, Cell
<1>5. Shown(ino) \in [1 .. ino.sz -> Cells]
  BY <1>2, <1>3, <1>4
<1>6. \A o \in 0 .. ino.sz - 1 : o + 1 \in 1 .. ino.sz /\ (o + 1) - 1 = o
  BY <1>1
<1>7. \A o \in 0 .. ino.sz - 1 : Cell(ino, o) = Shown(ino)[o + 1]
  BY <1>4, <1>6
<1> HIDE DEF HasBlks
<1> QED BY <1>1, <1>5, <1>7

\* Opening a file: it is to hold what its inode shows.
LEMMA OpenFileKeeps ==
  ASSUME FsInv, FilesInv, NEW n \in Names, OpenFile(n) PROVE FilesInv'
<1> PICK f \in Fds, i \in Inodes :
       /\ f \in FreeFds /\ i \in Named(n)
       /\ fds' = [fds EXCEPT ![f] = OpenedFd(i, inodes[i])]
       /\ promised' = [promised EXCEPT ![n] = Shown(inodes[i])]
  BY DEF OpenFile, IsFirst
<1>0. /\ UNCHANGED <<flashVars, mounted, blkbmp, inobmp, cache, call>>
      /\ call.op = "none" /\ NotOpen(n) /\ i \in inobmp /\ inodes[i].name = n
  BY DEF OpenFile, Idle, Named
<1>1. /\ fds \in [Fds -> FdRecs] /\ inodes[i] \in InodeRecs /\ inodes[i].sz \in Nat
      /\ HasBlks(inodes[i], inodes[i].sz) /\ promised \in [Names -> Seq(Cells) \cup {NoFile}]
  BY <1>0 DEF FsInv, CodeTypeOK, InodeRecs, FilesInv
<1>2. /\ Shown(inodes[i]) \in Seq(Cells) /\ Len(Shown(inodes[i])) = inodes[i].sz
      /\ \A o \in 0 .. inodes[i].sz - 1 : Cell(inodes[i], o) = Shown(inodes[i])[o + 1]
  BY <1>1, ShownFacts
<1>3. /\ fds'[f].ino = inodes[i] /\ fds'[f].pos = 0
      /\ \A g \in Fds : g # f => fds'[g] = fds[g]
      /\ promised'[n] = Shown(inodes[i]) /\ \A m \in Names : m # n => promised'[m] = promised[m]
      /\ promised' \in [Names -> Seq(Cells) \cup {NoFile}]
  BY <1>1, <1>2 DEF OpenedFd
<1>4. \A b \in Blks : Block(b)' = Block(b)
  BY <1>0 DEF Block, Cached, flashVars
<1>5. \A g : ~Writes(g) /\ ~Writes(g)'
  BY <1>0 DEF Writes
<1>6. FileKept(f)'
  <2>1. Reach(f)' = inodes[i].sz /\ Ino(f)' = inodes[i]
    BY <1>3, <1>5 DEF Reach, Ino
  <2>2. \A o : Cell(inodes[i], o)' = Cell(inodes[i], o)
    BY <1>0 DEF Cell, Block, Cached, flashVars
  <2>3. \A o : ~WrittenNow(f, o)'
    BY <1>5 DEF WrittenNow
  <2>4. HasBlks(Ino(f)', Reach(f)') /\ HasBlks(Ino(f), Reach(f))'
    BY <1>1, <2>1 DEF HasBlks
  <2>5. \A o \in 0 .. inodes[i].sz - 1 : Cell(Ino(f), o)' = Shown(inodes[i])[o + 1]
    <3>1. \A o : Cell(Ino(f), o)' = Cell(inodes[i], o)'
      BY <1>0, <2>1 DEF Cell, flashVars
    <3> QED BY <1>2, <2>2, <3>1
  <2> HIDE DEF HasBlks, Cell
  <2> QED BY <1>0, <1>2, <1>3, <2>1, <2>3, <2>4, <2>5 DEF FileKept
<1>7. ASSUME NEW g \in Fds, fds'[g].open PROVE FileKept(g)'
  <2>1. CASE g # f
    <3>1. fds[g].open /\ Ino(g)' = Ino(g) /\ Ino(g).name \in Names /\ Ino(g).name # n
      BY <1>0, <1>3, <1>7, <2>1 DEF Ino, NotOpen, FsInv, FdsSane
    <3> QED BY <1>3, <1>4, <1>5, <3>1, RestStays
  <2> QED BY <1>6, <2>1
<1>8. TransferSane'
  BY <1>0, <1>1, <1>3 DEF TransferSane, FilesInv, Ino
<1>9. \A j \in inobmp' : HasBlks(inodes'[j], inodes'[j].sz)
  BY <1>0, TableStays DEF flashVars
<1> QED BY <1>3, <1>7, <1>8, <1>9 DEF FilesInv

\* Closing a file, and the beginning of a read.
LEMMA CloseKeeps ==
  ASSUME FsInv, FilesInv, NEW f \in Fds, Close(f) PROVE FilesInv'
<1>0. /\ UNCHANGED <<flashVars, mounted, inobmp, cache, promised, call>>
      /\ call.op = "none" /\ fds' = [fds EXCEPT ![f] = Closed]
      /\ fds \in [Fds -> FdRecs]
  BY DEF Close, Idle, FsInv, CodeTypeOK
<1>1. \A g \in Fds : fds'[g].open => fds[g].open /\ fds'[g] = fds[g]
  BY <1>0 DEF Closed
<1>2. TransferSane'
  BY <1>0, <1>1 DEF TransferSane, FilesInv, Ino
<1>3. \A b \in Blks : Block(b)' = Block(b)
  BY <1>0 DEF Block, Cached, flashVars
<1> QED BY <1>0, <1>1, <1>2, <1>3, FilesStay DEF Ino, flashVars

LEMMA StartReadKeeps ==
  ASSUME FsInv, FilesInv, NEW f \in Fds, NEW len \in 1 .. MaxLen, StartRead(f, len)
  PROVE  FilesInv'
<1> DEFINE n == MinOf(len, Ino(f).sz - fds[f].pos)
<1>0. /\ UNCHANGED <<flashVars, mounted, blkbmp, inobmp, cache, fds, promised>>
      /\ call.op = "none" /\ fds[f].pos < Ino(f).sz
      /\ call' = [op |-> "read", fd |-> f, len |-> n, done |-> 0, victim |-> 0, got |-> <<>>]
  BY DEF StartRead, Idle
<1>1. fds[f].pos \in Nat /\ Ino(f).sz \in Nat /\ len \in Nat
  BY FdType, NanosFSAssumption DEF FsInv
<1>2. fds[f].pos + n <= Ino(f).sz
  BY <1>0, <1>1 DEF MinOf
<1> HIDE DEF n
<1>3. \A k \in 1 .. 0 : FALSE
  OBVIOUS
<1>4. TransferSane'
  BY <1>0, <1>2, <1>3 DEF TransferSane, FilesInv, Ino
<1>5. \A b \in Blks : Block(b)' = Block(b)
  BY <1>0 DEF Block, Cached, flashVars
<1> QED BY <1>0, <1>4, <1>5, FilesStay DEF Ino, flashVars

\* Evicting an entry.
LEMMA EvictKeeps ==
  ASSUME FsInv, FilesInv, EvictClean \/ EvictErase \/ EvictStore PROVE FilesInv'
<1>1. \A b \in Blks : Block(b)' = Block(b)
  BY EvictDelivers
<1>2. UNCHANGED <<formatted, mounted, inodes, inobmp, fds, promised>>
  BY DEF EvictClean, EvictErase, EvictStore, flashVars
<1>3. /\ call'.op = call.op /\ call'.fd = call.fd /\ call'.done = call.done /\ call'.len = call.len
      /\ call.op = "write" => call'.value = call.value /\ call'.fresh = call.fresh
      /\ call.op = "read" => call'.got = call.got
  <2>0. CodeTypeOK
    BY DEF FsInv
  <2>1. CASE EvictClean
    BY <2>1 DEF EvictClean
  <2>2. CASE EvictErase \/ EvictStore
    <3>1. call.op # "none" /\ \E v \in Blks \cup {0} : call' = [call EXCEPT !.victim = v]
      BY <2>0, <2>2 DEF EvictErase, EvictStore, CodeTypeOK
    <3> QED BY <2>0, <3>1, CallMoves, CallMovesData
  <2> QED BY <2>1, <2>2
<1> QED BY <1>1, <1>2, <1>3, CallStays

\* A new file is empty.
LEMMA CreateKeeps ==
  ASSUME FsInv, FilesInv, NEW n \in Names, CreateFile(n) PROVE FilesInv'
<1> PICK f \in Fds, i \in Inodes :
        /\ i \in Inodes \ inobmp /\ f \in FreeFds
        /\ inobmp' = inobmp \cup {i}
        /\ \E ino \in Programmed(inodes[i], NewInode(n)) : inodes' = [inodes EXCEPT ![i] = ino]
        /\ fds' = [fds EXCEPT ![f] = OpenedFd(i, NewInode(n))]
  BY DEF CreateFile, IsFirst
<1> PICK ino \in Programmed(inodes[i], NewInode(n)) : inodes' = [inodes EXCEPT ![i] = ino]
  OBVIOUS
<1>1. /\ i \in Inodes \ inobmp /\ f \in FreeFds
      /\ inobmp' = inobmp \cup {i}
      /\ inodes' = [inodes EXCEPT ![i] = ino]
      /\ fds' = [fds EXCEPT ![f] = OpenedFd(i, NewInode(n))]
  OBVIOUS
<1>2. /\ call.op = "none" /\ NotOpen(n)
      /\ promised' = [promised EXCEPT ![n] = <<>>]
      /\ UNCHANGED <<formatted, flash, mounted, blkbmp, cache, call>>
  BY DEF CreateFile, Idle
<1>3. /\ inodes \in [Inodes -> InodeRecs] /\ fds \in [Fds -> FdRecs] /\ inobmp \subseteq Inodes
      /\ promised \in [Names -> Seq(Cells) \cup {NoFile}]
  BY DEF FsInv, CodeTypeOK, FilesInv
<1>4. /\ fds'[f].ino = NewInode(n) /\ fds'[f].pos = 0
      /\ \A g \in Fds : g # f => fds'[g] = fds[g]
      /\ promised'[n] = <<>> /\ \A m \in Names : m # n => promised'[m] = promised[m]
      /\ promised' \in [Names -> Seq(Cells) \cup {NoFile}]
  <2>1. <<>> \in Seq(Cells)
    OBVIOUS
  <2> QED BY <1>1, <1>2, <1>3, <2>1 DEF OpenedFd
<1>5. \A b \in Blks : Block(b)' = Block(b)
  BY <1>2 DEF Block, Cached
<1>6. \A g : ~Writes(g) /\ ~Writes(g)'
  BY <1>2 DEF Writes
<1>7. \A ob : HasBlks(ob, 0)
  BY DEF HasBlks
<1>8. FileKept(f)'
  <2>1. Reach(f)' = 0 /\ Ino(f)' = NewInode(n) /\ NewInode(n).sz = 0 /\ NewInode(n).name = n
    BY <1>4, <1>6 DEF Reach, Ino, NewInode
  <2>2. \A o \in 0 .. 0 - 1 : FALSE
    OBVIOUS
  <2>3. promised'[n] \in Seq(Cells) /\ Len(promised'[n]) = 0
    BY <1>4
  <2> QED BY <1>7, <2>1, <2>2, <2>3 DEF FileKept
<1>9. ASSUME NEW g \in Fds, fds'[g].open PROVE FileKept(g)'
  <2>1. CASE g # f
    <3>1. fds[g].open /\ Ino(g)' = Ino(g) /\ Ino(g).name \in Names /\ Ino(g).name # n
      BY <1>2, <1>4, <1>9, <2>1 DEF Ino, NotOpen, FsInv, FdsSane
    <3> QED BY <1>4, <1>5, <1>6, <3>1, RestStays
  <2> QED BY <1>8, <2>1
<1>10. TransferSane'
  <2>1. NewInode(n).sz = 0
    BY DEF NewInode
  <2> QED BY <1>2, <1>4, <2>1 DEF TransferSane, FilesInv, Ino
<1>11. ASSUME NEW j \in inobmp' PROVE HasBlks(inodes'[j], inodes'[j].sz)
  <2>1. CASE j # i
    BY <1>1, <1>3, <1>11, <2>1 DEF FilesInv
  <2>2. ino.sz = 0
    <3>1. FlashOverwrites \/ (inodes[i].sz = 0 /\ inodes[i].db = NoBlks)
      BY DEF FsInv, TableSane
    <3>2. inodes[i] \in InodeRecs /\ NewInode(n) \in InodeRecs
      BY <1>3, NewInodeType
    <3> QED BY <3>1, <3>2, ProgrammedFacts DEF NewInode
  <2> QED BY <1>1, <1>3, <1>7, <2>1, <2>2
<1> QED BY <1>4, <1>9, <1>10, <1>11 DEF FilesInv


\* The file of the call in progress.
LEMMA CallFile ==
  ASSUME FsInv, FilesInv, call.op # "none"
  PROVE  /\ call.fd \in Fds /\ fds[call.fd].open
         /\ fds[call.fd].pos \in Nat /\ Ino(call.fd).sz \in Nat
         /\ fds[call.fd].pos <= Ino(call.fd).sz
         /\ call.done \in Nat /\ call.len \in Nat /\ call.done <= call.len
         /\ Offset = fds[call.fd].pos + call.done
         /\ FileKept(call.fd)
<1>1. /\ call # NoCall /\ call.fd \in Fds /\ call.done \in Nat /\ call.len \in Nat
  BY CallFacts, NanosFSAssumption DEF FsInv
<1>2. fds[call.fd].open /\ call.done <= call.len
  BY <1>1 DEF FsInv, CallSane
<1>3. fds[call.fd].pos \in Nat /\ Ino(call.fd).sz \in Nat
  BY <1>1, FdType DEF FsInv
<1> QED BY <1>1, <1>2, <1>3 DEF FilesInv, TransferSane, Offset

\* A read takes the next cells of the file.
LEMMA ReadBlkKeeps ==
  ASSUME FsInv, FilesInv, ReadBlk
  PROVE  FilesInv'
<1> DEFINE f == call.fd
           from == fds[f].pos
           written == promised[Ino(f).name]
           part == SubSeq(Block(Current), InBlk + 1, InBlk + Chunk)
<1>0. /\ UNCHANGED <<formatted, flash, inodes, mounted, blkbmp, inobmp, fds, promised>>
      /\ call.op = "read" /\ call.done < call.len /\ Current # 0
      /\ call' = [call EXCEPT !.done = @ + Chunk, !.got = @ \o part]
      /\ cache' = IF Current \in Cached THEN cache
                  ELSE Put(Current, [dirty |-> FALSE, buf |-> flash[Current]])
  BY DEF ReadBlk, InCall, flashVars
<1>1. /\ f \in Fds /\ fds[f].open
      /\ from \in Nat /\ Ino(f).sz \in Nat
      /\ call.done \in Nat /\ call.len \in Nat /\ Offset = from + call.done
      /\ FileKept(f)
  BY <1>0, CallFile
<1>2. /\ Current \in Blks /\ InBlk \in 0 .. NFS_BLK_SZ - 1
      /\ Chunk \in 1 .. call.len - call.done /\ InBlk + Chunk <= NFS_BLK_SZ
      /\ call \in ReadCalls /\ Block(Current) \in BlkBufs
  <2>1. CodeTypeOK
    BY DEF FsInv
  <2>2. /\ Current \in Blks /\ InBlk \in 0 .. NFS_BLK_SZ - 1
        /\ Chunk \in 1 .. call.len - call.done /\ InBlk + Chunk <= NFS_BLK_SZ
        /\ call \in ReadCalls
    BY <1>0, <2>1, TransferFacts, CallFacts
  <2> QED BY <2>2 DEF FsInv, CodeTypeOK, Block, Cached
<1>3. \A b \in Blks : Block(b)' = Block(b)
  <2> SUFFICES ASSUME NEW b \in Blks PROVE Block(b)' = Block(b)
    OBVIOUS
  <2>1. CASE Current \in Cached
    BY <1>0, <2>1 DEF Block, Cached
  <2>2. CASE Current \notin Cached
    <3>1. /\ Cached' = Cached \cup {Current}
          /\ cache'[Current].buf = flash[Current]
          /\ \A c \in Cached : cache'[c] = cache[c]
      BY <1>0, <2>2 DEF Put, Cached
    <3> QED BY <1>0, <2>2, <3>1 DEF Block
  <2> QED BY <2>1, <2>2
<1>4. /\ call'.op = "read" /\ call'.fd = f /\ call'.len = call.len
      /\ call'.done = call.done + Chunk /\ call'.got = call.got \o part
  <2> HIDE DEF part
  <2> QED BY <1>0, <1>2 DEF ReadCalls
<1>6. /\ from + call.len <= Ino(f).sz /\ Len(call.got) = call.done /\ call.got \in Seq(Cells)
      /\ \A k \in 1 .. call.done : call.got[k] = written[from + k]
  BY <1>0, <1>2 DEF FilesInv, TransferSane, ReadCalls
<1>7. /\ part \in Seq(Cells) /\ Len(part) = Chunk
      /\ \A d \in 1 .. Chunk : part[d] = Block(Current)[InBlk + d]
  <2> DEFINE buf == Block(Current)
  <2>1. /\ Len(buf) = NFS_BLK_SZ /\ buf \in Seq(Cells)
        /\ InBlk + 1 \in 1 .. NFS_BLK_SZ + 1 /\ InBlk + Chunk \in InBlk .. NFS_BLK_SZ
    BY <1>1, <1>2, NanosFSAssumption DEF BlkBufs
  <2> HIDE DEF buf
  <2>2. part \in Seq(Cells)
    BY <1>1, <1>2, PartOfBlk
  <2>3. Chunk \in Nat /\ InBlk \in Nat
    BY <1>1, <1>2, NanosFSAssumption
  <2>4. SubSeq(buf, InBlk + 1, InBlk + Chunk) =
          [d \in 1 .. (InBlk + Chunk) - (InBlk + 1) + 1 |-> buf[(InBlk + 1) + d - 1]]
    BY <2>1
  <2>5. /\ (InBlk + Chunk) - (InBlk + 1) + 1 = Chunk
        /\ \A d \in 1 .. Chunk : (InBlk + 1) + d - 1 = InBlk + d
    BY <2>3
  <2>6. part = [d \in 1 .. Chunk |-> buf[InBlk + d]]
    BY <2>4, <2>5 DEF buf
  <2> HIDE DEF part
  <2> QED BY <2>2, <2>3, <2>6 DEF buf
<1> HIDE DEF part
<1>8. ASSUME NEW d \in 1 .. Chunk PROVE part[d] = written[from + (call.done + d)]
  <2> DEFINE o == Offset + (d - 1)
  <2>1. /\ d - 1 \in Nat /\ InBlk + (d - 1) < NFS_BLK_SZ /\ o \in 0 .. Ino(f).sz - 1
        /\ o + 1 = from + (call.done + d)
        /\ Offset \in Nat /\ NFS_BLK_SZ \in Nat \ {0} /\ InBlk \in Nat
    <3>1. NFS_BLK_SZ \in Nat \ {0} /\ InBlk \in Nat /\ d \in Nat /\ d - 1 \in Nat /\ Chunk \in Nat
          /\ d <= Chunk /\ call.done + Chunk <= call.len
      BY <1>1, <1>2, NanosFSAssumption
    <3>2. InBlk + (d - 1) < NFS_BLK_SZ
      BY <1>2, <3>1, NanosFSAssumption
    <3> HIDE DEF from
    <3>3. /\ from + (call.done + d) <= Ino(f).sz /\ Offset \in Nat
          /\ o + 1 = from + (call.done + d)
      <4>1. /\ from \in Nat /\ call.done \in Nat /\ call.len \in Nat /\ Ino(f).sz \in Nat
            /\ Offset = from + call.done /\ from + call.len <= Ino(f).sz
        BY <1>1, <1>6
      <4>2. call.done + d <= call.len
        BY <3>1, <4>1
      <4> QED BY <3>1, <4>1, <4>2
    <3>4. o \in 0 .. Ino(f).sz - 1
      BY <1>1, <3>1, <3>3
    <3> QED BY <3>1, <3>2, <3>3, <3>4
  <2>2. o \div NFS_BLK_SZ = Slot /\ o % NFS_BLK_SZ = InBlk + (d - 1)
    BY <2>1, StepInBlock DEF Slot, InBlk
  <2> HIDE DEF o
  <2>3. Reach(f) = Ino(f).sz /\ ~WrittenNow(f, o)
    BY <1>0 DEF Reach, Writes, WrittenNow
  <2>4. Slot \in Slots /\ Cell(Ino(f), o) = written[o + 1]
    BY <1>1, <2>1, <2>2, <2>3 DEF FileKept, HasBlks
  <2>5. Ino(f).db[Slot] = Current
    BY <1>1, <2>4 DEF Current
  <2>6. Cell(Ino(f), o) = Block(Current)[(InBlk + (d - 1)) + 1]
    BY <2>2, <2>5 DEF Cell
  <2>7. (InBlk + (d - 1)) + 1 = InBlk + d
    BY <2>1
  <2> QED BY <1>7, <2>1, <2>4, <2>6, <2>7
<1>9. TransferSane'
  <2> DEFINE g == call.got
             n == call.done
             c == Chunk
  <2>0. /\ g \in Seq(Cells) /\ part \in Seq(Cells) /\ Len(g) = n /\ Len(part) = c
        /\ n \in Nat /\ c \in Nat /\ call'.got = g \o part /\ call'.done = n + c
    BY <1>1, <1>2, <1>4, <1>6, <1>7
  <2> HIDE DEF g, n, c
  <2>1. /\ Len(g \o part) = n + c
        /\ \A k \in 1 .. n : (g \o part)[k] = g[k]
        /\ \A k \in n + 1 .. n + c : (g \o part)[k] = part[k - n]
    <3>1. /\ Len(g \o part) = Len(g) + Len(part)
          /\ \A k \in 1 .. Len(g) + Len(part) :
               (g \o part)[k] = IF k <= Len(g) THEN g[k] ELSE part[k - Len(g)]
      BY <2>0, ConcatProperties
    <3> DEFINE gp == g \o part
    <3>2. /\ Len(gp) = n + c
          /\ \A k \in 1 .. n + c : gp[k] = IF k <= n THEN g[k] ELSE part[k - n]
      BY <2>0, <3>1
    <3>3. n \in Nat /\ c \in Nat
      BY <2>0
    <3> HIDE DEF gp
    <3>4. /\ \A k \in 1 .. n : k \in 1 .. n + c /\ k <= n
          /\ \A k \in n + 1 .. n + c : k \in 1 .. n + c /\ ~ (k <= n)
      BY <3>3
    <3>5. /\ \A k \in 1 .. n : gp[k] = g[k]
          /\ \A k \in n + 1 .. n + c : gp[k] = part[k - n]
      BY <3>2, <3>4, Zenon
    <3> QED BY <3>2, <3>5 DEF gp
  <2>2. ASSUME NEW k \in 1 .. n + c PROVE call'.got[k] = written[from + k]
    <3>1. CASE k <= n
      <4>1. k \in 1 .. n /\ call'.got[k] = g[k]
        BY <2>0, <2>1, <3>1
      <4> QED BY <1>6, <4>1 DEF g, n
    <3>2. CASE k > n
      <4>1. k - n \in 1 .. c /\ n + (k - n) = k /\ call'.got[k] = part[k - n]
        BY <2>0, <2>1, <3>2
      <4>2. part[k - n] = written[from + (n + (k - n))]
        BY <1>8, <4>1 DEF c, n
      <4> QED BY <4>1, <4>2
    <3> QED BY <2>0, <3>1, <3>2
  <2>3. \A h \in Fds : fds'[h].open => fds'[h].pos <= Ino(h)'.sz
    BY <1>0 DEF FilesInv, TransferSane, Ino
  <2>4. Ino(call.fd)' = Ino(f) /\ fds'[call'.fd].pos = from /\ promised' = promised
    BY <1>0, <1>4 DEF Ino
  <2> QED BY <1>4, <1>6, <2>0, <2>1, <2>2, <2>3, <2>4 DEF TransferSane, n, c
<1>10. \A h \in Fds : fds'[h].open => fds[h].open /\ Ino(h)' = Ino(h)
  BY <1>0 DEF Ino
<1> QED BY <1>0, <1>3, <1>4, <1>9, <1>10, FilesStay

\* A read that returns moves the position, not behind the end.
LEMMA ReadReturnKeeps ==
  ASSUME FsInv, FilesInv, ReadReturn
  PROVE  FilesInv'
<1>0. /\ UNCHANGED <<formatted, flash, inodes, mounted, inobmp, cache, promised>>
      /\ call.op = "read" /\ call' = NoCall
      /\ fds' = [fds EXCEPT ![call.fd].pos = @ + call.done]
  BY DEF ReadReturn, InCall, flashVars
<1>1. /\ \A b \in Blks : Block(b)' = Block(b)
      /\ call'.op # "write" /\ call.op # "write"
  BY <1>0 DEF Block, Cached, NoCall
<1>2. TransferSane'
  <2>1. /\ call.fd \in Fds /\ fds[call.fd].pos \in Nat /\ Ino(call.fd).sz \in Nat
        /\ call.done \in Nat /\ call.len \in Nat /\ call.done <= call.len
    BY <1>0, CallFile
  <2>2. fds[call.fd].pos + call.len <= Ino(call.fd).sz
    BY <1>0 DEF FilesInv, TransferSane
  <2>3. fds[call.fd].pos + call.done <= Ino(call.fd).sz
    BY <2>1, <2>2
  <2>4. \A g \in Fds : /\ fds'[g].open = fds[g].open /\ fds'[g].ino = fds[g].ino
                       /\ fds'[g].pos = IF g = call.fd THEN fds[g].pos + call.done ELSE fds[g].pos
    BY <1>0, <2>1 DEF FsInv, CodeTypeOK, FdRecs
  <2> QED BY <1>0, <2>3, <2>4 DEF FilesInv, TransferSane, Ino, NoCall
<1>3. \A g \in Fds : fds'[g].open => fds[g].open /\ Ino(g)' = Ino(g)
  <2>1. call.fd \in Fds
    BY <1>0, CallFile
  <2>2. \A g \in Fds : fds'[g].open = fds[g].open /\ fds'[g].ino = fds[g].ino
    BY <1>0, <2>1 DEF FsInv, CodeTypeOK, FdRecs
  <2> QED BY <2>2 DEF Ino
<1> QED BY <1>0, <1>1, <1>2, <1>3, FilesStay

\* A write that begins has written nothing.
LEMMA StartWriteKeeps ==
  ASSUME FsInv, FilesInv, NEW f \in Fds, NEW len \in 1 .. MaxLen, NEW d \in Data,
         StartWrite(f, len, d)
  PROVE  FilesInv'
<1>0. /\ UNCHANGED <<formatted, flash, inodes, mounted, inobmp, cache, fds, promised>>
      /\ call.op = "none" /\ fds[f].open
      /\ call'.op = "write" /\ call'.fd = f /\ call'.done = 0 /\ ~call'.fresh
  BY DEF StartWrite, Idle, flashVars
<1>2. TransferSane'
  BY <1>0 DEF FilesInv, TransferSane, Ino
<1>3. /\ fds[f].pos \in Nat /\ Ino(f).sz \in Nat /\ fds[f].pos <= Ino(f).sz
  BY <1>0, FdType DEF FsInv, FilesInv, TransferSane
<1>5. Offset' = fds[f].pos
  BY <1>0, <1>3 DEF Offset
<1>6. ASSUME NEW g \in Fds, fds'[g].open PROVE FileKept(g)'
  <2>1. FileKept(g) /\ Ino(g)' = Ino(g)
    BY <1>0, <1>6 DEF FilesInv, Ino
  <2>2. Reach(g) = Ino(g).sz /\ \A o : ~WrittenNow(g, o)
    BY <1>0 DEF Reach, Writes, WrittenNow
  <2>3. Reach(g)' = Ino(g).sz
    <3>1. f = g => ~ (fds[f].pos > Ino(g).sz)
      BY <1>3
    <3> QED BY <1>0, <1>5, <2>1, <3>1 DEF Reach, Writes
  <2>4. \A o \in 0 .. Reach(g) - 1 : ~WrittenNow(g, o)'
    <3>1. \A o \in 0 .. Reach(g) - 1 : ~ (fds[f].pos <= o /\ o < fds[f].pos)
      BY <1>3
    <3> QED BY <1>0, <1>5, <3>1 DEF WrittenNow, Writes
  <2>5. \A b \in Blks : Block(b)' = Block(b)
    BY <1>0 DEF Block, Cached
  <2> QED BY <1>0, <2>1, <2>2, <2>3, <2>4, <2>5, FileStays
<1> QED BY <1>0, <1>2, <1>6, TableStays DEF FilesInv

\* What AllocBlk, WriteBlk and WriteReturn know of the file of the call.
LEMMA WriteFile ==
  ASSUME FsInv, FilesInv, call.op = "write"
  PROVE  /\ call \in WriteCalls /\ InBlk \in 0 .. NFS_BLK_SZ - 1 /\ Offset \in Nat
         /\ Writes(call.fd) /\ Reach(call.fd) \in Nat
         /\ Reach(call.fd) = IF Offset > Ino(call.fd).sz THEN Offset ELSE Ino(call.fd).sz
         /\ \A o : WrittenNow(call.fd, o) <=> fds[call.fd].pos <= o /\ o < Offset
         /\ \A g : g # call.fd => ~Writes(g)
<1>1. call \in WriteCalls /\ InBlk \in 0 .. NFS_BLK_SZ - 1 /\ Offset \in Nat
  BY CallFacts, TransferFacts DEF FsInv
<1>2. Ino(call.fd).sz \in Nat
  BY CallFile
<1> QED BY <1>1, <1>2 DEF Writes, Reach, WrittenNow

\* A new block stands behind all that the file has.
LEMMA AllocBlkKeeps ==
  ASSUME FsInv, FilesInv, AllocBlk
  PROVE  FilesInv'
<1> PICK f : f = call.fd
  OBVIOUS
<1> DEFINE db == Ino(f).db
<1> PICK b \in Blks : fds' = [fds EXCEPT ![f].ino.db[Slot] = b]
  BY DEF AllocBlk
<1>0. /\ UNCHANGED <<formatted, flash, inodes, mounted, inobmp, cache, promised>>
      /\ call.op = "write" /\ Slot \in Slots /\ Current = 0
      /\ call' = [call EXCEPT !.fresh = TRUE]
  BY DEF AllocBlk, InCall, flashVars
<1>1. /\ f \in Fds /\ fds[f].open /\ FileKept(f)
      /\ call \in WriteCalls /\ fds[f] \in FdRecs /\ fds \in [Fds -> FdRecs]
  BY <1>0, CallFile, WriteFile DEF FsInv, CodeTypeOK
<1>2. /\ call'.op = "write" /\ call'.fd = f /\ call'.done = call.done
      /\ call'.value = call.value
  BY <1>0, <1>1 DEF WriteCalls
<1>3. /\ \A g \in Fds : /\ fds'[g].open = fds[g].open /\ fds'[g].inum = fds[g].inum
                        /\ fds'[g].pos = fds[g].pos
                        /\ g # f => fds'[g] = fds[g]
      /\ fds'[f].ino.name = Ino(f).name /\ fds'[f].ino.sz = Ino(f).sz
      /\ \A m \in Slots : m # Slot => fds'[f].ino.db[m] = db[m]
  <2> DEFINE k == Slot
             old == fds[f]
             ino == [old.ino EXCEPT !.db[k] = b]
             new == [old EXCEPT !.ino = ino]
  <2>1. /\ old \in FdRecs /\ old.ino \in InodeRecs /\ k \in Slots
        /\ old.ino.db \in [Slots -> Blks \cup {0}]
    BY <1>0, <1>1 DEF FdRecs, InodeRecs
  <2> HIDE DEF k
  <2>2. /\ ino.name = old.ino.name /\ ino.sz = old.ino.sz
        /\ \A m \in Slots : m # k => ino.db[m] = old.ino.db[m]
    BY <2>1 DEF InodeRecs
  <2>3. /\ new.open = old.open /\ new.inum = old.inum /\ new.pos = old.pos /\ new.ino = ino
    <3> HIDE DEF ino
    <3> QED BY <2>1, <2>2 DEF FdRecs
  <2>4. fds' = [fds EXCEPT ![f] = new]
    BY DEF k
  <2> HIDE DEF new, ino
  <2> QED BY <1>1, <2>2, <2>3, <2>4 DEF k, Ino
<1>4. Offset' = Offset /\ Slot' = Slot
  BY <1>1, <1>2, <1>3 DEF Offset, Slot
<1>5. /\ Writes(f)' /\ Reach(f)' = Reach(f) /\ Ino(f)' = fds'[f].ino
      /\ \A o : WrittenNow(f, o)' <=> WrittenNow(f, o)
      /\ \A g : g # f => ~Writes(g) /\ ~Writes(g)'
  <2>1. Writes(f) /\ Writes(f)' /\ Ino(f)' = fds'[f].ino
    BY <1>0, <1>2 DEF Writes, Ino
  <2>2. Reach(f)' = Reach(f)
    BY <1>1, <1>3, <1>4, <2>1 DEF Reach
  <2> QED BY <1>0, <1>1, <1>2, <1>3, <1>4, <2>1, <2>2 DEF Writes, WrittenNow
<1>6. \A d \in Blks : Block(d)' = Block(d)
  BY <1>0 DEF Block, Cached
<1>7. \A o \in 0 .. Reach(f) - 1 : o \div NFS_BLK_SZ \in Slots /\ o \div NFS_BLK_SZ # Slot
  <2>1. db[Slot] = 0
    BY <1>0 DEF Current
  <2> QED BY <1>1, <2>1 DEF FileKept, HasBlks
<1>9. TransferSane'
  <2>1. \A g \in Fds : fds'[g].open => fds'[g].pos <= fds'[g].ino.sz
    <3>1. \A g \in Fds : fds[g].open => fds[g].pos <= fds[g].ino.sz
      BY DEF FilesInv, TransferSane, Ino
    <3> QED BY SMTT(30), <1>1, <1>3, <3>1 DEF Ino
  <2> QED BY <1>2, <1>4, <1>5, <1>7, <2>1 DEF TransferSane, Ino
<1>10. FileKept(f)'
  <2>1. ASSUME NEW o \in 0 .. Reach(f) - 1
        PROVE  /\ Ino(f)'.db[o \div NFS_BLK_SZ] = Ino(f).db[o \div NFS_BLK_SZ]
               /\ Cell(Ino(f), o)' = Cell(Ino(f), o)
    <3> DEFINE k == o \div NFS_BLK_SZ
    <3>1. k \in Slots /\ k # Slot /\ db[k] # 0
      BY <1>1, <1>7 DEF FileKept, HasBlks
    <3>2. fds'[f].ino.db[k] = db[k] /\ db[k] \in Blks
      BY <1>1, <1>3, <3>1 DEF FdRecs, InodeRecs, Ino
    <3>3. Block(Ino(f).db[k])' = Block(Ino(f).db[k])
      <4>1. Ino(f)'.db[k] = db[k]
        BY <1>5, <3>2
      <4> HIDE DEF k, db
      <4>2. \A d \in Blks : d = db[k] => Block(Ino(f).db[k])' = Block(d)
        BY <1>6, <4>1 DEF Block, k
      <4> QED BY <1>1, <3>2, <4>2 DEF db
    <3>4. Ino(f)'.db[k] = Ino(f).db[k]
      BY <1>1, <1>5, <3>2
    <3>5. Cell(Ino(f), o)' = Cell(Ino(f), o)
      BY <3>3 DEF Cell
    <3> QED BY <3>4, <3>5
  <2>2. ASSUME NEW o \in 0 .. Reach(f)' - 1
        PROVE  /\ o \div NFS_BLK_SZ \in Slots /\ Ino(f)'.db[o \div NFS_BLK_SZ] # 0
               /\ Cell(Ino(f), o)' = IF WrittenNow(f, o)' THEN call'.value
                                ELSE promised[Ino(f).name][o + 1]
    <3>1. o \in 0 .. Reach(f) - 1
      BY <1>5
    <3>2. /\ o \div NFS_BLK_SZ \in Slots /\ Ino(f).db[o \div NFS_BLK_SZ] # 0
          /\ Cell(Ino(f), o) = IF WrittenNow(f, o) THEN call.value
                          ELSE promised[Ino(f).name][o + 1]
      BY <1>1, <3>1 DEF FileKept, HasBlks
    <3> QED BY <1>2, <1>5, <2>1, <3>1, <3>2
  <2>3. Ino(f)'.name = Ino(f).name /\ Ino(f)'.sz = Ino(f).sz
    BY <1>1, <1>3, <1>5
  <2> QED BY <1>0, <1>1, <1>5, <2>2, <2>3 DEF FileKept, HasBlks
<1>8. ASSUME NEW g \in Fds, fds'[g].open PROVE FileKept(g)'
  <2>1. CASE g # f
    <3>1. fds[g].open /\ Ino(g)' = Ino(g) /\ ~Writes(g) /\ ~Writes(g)'
      BY <1>3, <1>5, <1>8, <2>1 DEF Ino
    <3> QED BY <1>0, <1>6, <3>1, RestStays
  <2> QED BY <1>10, <2>1
<1>11. promised' \in [Names -> Seq(Cells) \cup {NoFile}]
  BY <1>0 DEF FilesInv
<1> QED BY <1>0, <1>9, <1>8, <1>11, TableStays DEF FilesInv

\* The chunk that is written belongs to the call, the rest of the block to the file.
LEMMA WriteBlkKeeps ==
  ASSUME FsInv, FilesInv, WriteBlk
  PROVE  FilesInv'
<1> PICK f, b : f = call.fd /\ b = Current
  OBVIOUS
<1> DEFINE db == Ino(f).db
           from == fds[f].pos
           old == IF call.fresh THEN ErasedBlk ELSE Block(b)
           new == [k \in 1 .. NFS_BLK_SZ |->
                     IF k \in InBlk + 1 .. InBlk + Chunk THEN call.value ELSE old[k]]
<1>0. /\ UNCHANGED <<formatted, flash, inodes, mounted, inobmp, fds, promised>>
      /\ call.op = "write" /\ call.done < call.len /\ b # 0
      /\ call' = [call EXCEPT !.done = @ + Chunk, !.fresh = FALSE]
      /\ cache' = Put(b, [dirty |-> TRUE, buf |-> new])
  BY DEF WriteBlk, InCall, flashVars
<1>1. /\ f \in Fds /\ fds[f].open /\ FileKept(f)
      /\ from \in Nat /\ call.done \in Nat /\ call.len \in Nat /\ Offset = from + call.done
      /\ from <= Ino(f).sz /\ Ino(f).sz \in Nat
  BY <1>0, CallFile
<1>2. /\ call \in WriteCalls /\ InBlk \in 0 .. NFS_BLK_SZ - 1 /\ Offset \in Nat
      /\ Writes(f) /\ Reach(f) \in Nat
      /\ Reach(f) = IF Offset > Ino(f).sz THEN Offset ELSE Ino(f).sz
      /\ \A o : WrittenNow(f, o) <=> from <= o /\ o < Offset
      /\ \A g : g # f => ~Writes(g)
  BY <1>0, WriteFile
<1>3. /\ b \in Blks /\ Chunk \in 1 .. call.len - call.done /\ InBlk + Chunk <= NFS_BLK_SZ
      /\ Slot \in Slots /\ db[Slot] = b
  <2>1. /\ Current \in Blks \cup {0}
        /\ Chunk \in 1 .. call.len - call.done /\ InBlk + Chunk <= NFS_BLK_SZ
    BY <1>0, TransferFacts DEF FsInv
  <2> QED BY <1>0, <2>1 DEF Current
<1>4. /\ call'.op = "write" /\ call'.fd = f /\ call'.done = call.done + Chunk
      /\ call'.len = call.len /\ call'.value = call.value /\ ~call'.fresh
  <2> DEFINE d == call.done + Chunk
  <2> HIDE DEF d
  <2>1. call' = [call EXCEPT !.done = d, !.fresh = FALSE]
    BY <1>0 DEF d
  <2> QED BY <1>0, <1>2, <2>1 DEF WriteCalls, d
<1>5. /\ Offset' = Offset + Chunk /\ Chunk \in Nat
      /\ \A g : Ino(g)' = Ino(g)
      /\ \A g : Writes(g)' <=> Writes(g)
  <2>1. Chunk \in Nat
    BY <1>1, <1>3
  <2>2. Offset' = Offset + Chunk
    <3>1. Offset' = from + (call.done + Chunk)
      BY <1>0, <1>4 DEF Offset
    <3> HIDE DEF from
    <3> QED BY <1>1, <2>1, <3>1
  <2> QED BY <1>0, <1>4, <2>1, <2>2 DEF Ino, Writes
<1>6. /\ Reach(f)' = IF Offset + Chunk > Ino(f).sz THEN Offset + Chunk ELSE Ino(f).sz
      /\ \A o : WrittenNow(f, o)' <=> from <= o /\ o < Offset + Chunk
  BY <1>0, <1>1, <1>2, <1>4, <1>5 DEF Reach, WrittenNow
<1> HIDE DEF new
<1>7. /\ Block(b)' = new
      /\ \A c \in Blks : c # b => Block(c)' = Block(c)
  <2>1. /\ Cached' = Cached \cup {b} /\ cache'[b].buf = new
        /\ \A c \in Cached : c # b => cache'[c] = cache[c]
    BY <1>0 DEF Put, Cached
  <2> QED BY <1>0, <2>1 DEF Block
<1>9. TransferSane'
  <2>1. \A g \in Fds : fds'[g].open => fds'[g].pos <= Ino(g)'.sz
    BY <1>0 DEF FilesInv, TransferSane, Ino
  <2> QED BY <1>4, <2>1 DEF TransferSane
\* No other place has the block.
<1>10. \A g \in Fds, k \in Slots : fds[g].open /\ Ino(g).db[k] = b => g = f /\ k = Slot
  BY <1>0, <1>1, <1>3 DEF FsInv, BlocksAccounted
<1>12. ASSUME NEW o \in 0 .. Reach(f)' - 1
       PROVE  /\ o \div NFS_BLK_SZ \in Slots /\ Ino(f).db[o \div NFS_BLK_SZ] # 0
              /\ Cell(Ino(f), o)' = IF WrittenNow(f, o)' THEN call.value
                               ELSE promised[Ino(f).name][o + 1]
  <2> DEFINE k == o \div NFS_BLK_SZ
             r == o % NFS_BLK_SZ
  <2>0. /\ o \in Nat /\ o < Reach(f)' /\ NFS_BLK_SZ \in Nat \ {0}
        /\ k \in Nat /\ r \in 0 .. NFS_BLK_SZ - 1
    <3>1. Reach(f)' \in Nat
      BY <1>1, <1>2, <1>5, <1>6
    <3>2. o \in Nat /\ o < Reach(f)' /\ NFS_BLK_SZ \in Nat \ {0}
      BY <3>1, NanosFSAssumption
    <3> QED BY <3>2, DivFacts
  <2>1. Offset <= o /\ o < Offset + Chunk <=>
          k = Slot /\ InBlk <= r /\ r < InBlk + Chunk
    BY <1>2, <1>3, <1>5, <2>0, ChunkIsInBlock DEF Slot, InBlk
  <2>2. Ino(f)'.db[k] = db[k]
    BY <1>1, <1>5
  <2> HIDE DEF k, r, db, from
  <2>3. CASE Offset <= o /\ o < Offset + Chunk
    <3>1. k = Slot /\ r + 1 \in InBlk + 1 .. InBlk + Chunk /\ r + 1 \in 1 .. NFS_BLK_SZ
      <4>1. k = Slot /\ InBlk <= r /\ r < InBlk + Chunk
        BY <2>1, <2>3
      <4> QED BY <1>2, <1>5, <2>0, <4>1
    <3>2. new[r + 1] = call.value
      BY <3>1 DEF new
    <3>3. Cell(Ino(f), o)' = call.value
      <4>1. Cell(Ino(f), o)' = Block(Ino(f).db[k])'[r + 1]
        BY DEF Cell, k, r
      <4>2. Ino(f)'.db[k] = b
        BY <1>3, <2>2, <3>1
      <4>3. Block(Ino(f).db[k])' = Block(b)'
        BY <4>2 DEF Block
      <4> QED BY <1>7, <3>2, <4>1, <4>3
    <3>4. WrittenNow(f, o)'
      <4>1. from <= o /\ o < Offset + Chunk
        BY <1>1, <2>0, <2>3 DEF from
      <4> QED BY <1>6, <4>1 DEF from
    <3> QED BY <1>0, <1>1, <1>3, <3>1, <3>3, <3>4 DEF k, db
  <2>4. CASE ~ (Offset <= o /\ o < Offset + Chunk)
    <3>1. o \in 0 .. Reach(f) - 1
      <4>1. o < Reach(f)
        BY <1>1, <1>2, <1>5, <1>6, <2>0, <2>4
      <4> QED BY <1>2, <2>0, <4>1
    <3>2. WrittenNow(f, o)' <=> WrittenNow(f, o)
      BY <1>2, <1>5, <1>6, <2>0, <2>4 DEF from
    <3>3. /\ k \in Slots /\ db[k] # 0
          /\ Cell(Ino(f), o) = IF WrittenNow(f, o) THEN call.value
                          ELSE promised[Ino(f).name][o + 1]
          /\ Cell(Ino(f), o) = Block(db[k])[r + 1]
      BY <1>1, <3>1 DEF FileKept, HasBlks, k, db, r, Cell
    <3>4. Cell(Ino(f), o)' = Cell(Ino(f), o)
      <4>1. Cell(Ino(f), o)' = Block(Ino(f).db[k])'[r + 1]
        BY DEF Cell, k, r
      <4>2. CASE k = Slot
        <5>1. ~call.fresh
          BY <1>0, <3>1, <4>2 DEF FilesInv, TransferSane, k
        <5>2. new[r + 1] = Block(b)[r + 1]
          <6>1. r + 1 \in 1 .. NFS_BLK_SZ /\ r + 1 \notin InBlk + 1 .. InBlk + Chunk
            <7>1. ~ (InBlk <= r /\ r < InBlk + Chunk)
              BY <2>1, <2>4, <4>2
            <7> QED BY <1>2, <1>5, <2>0, <7>1
          <6> QED BY <5>1, <6>1 DEF new, old
        <5>3. db[k] = b
          BY <1>3, <4>2 DEF db
        <5>4. Block(Ino(f).db[k])' = Block(b)'
          BY <2>2, <5>3 DEF Block
        <5> QED BY <1>7, <3>3, <4>1, <5>2, <5>3, <5>4
      <4>3. CASE k # Slot
        <5>1. db[k] # b /\ db[k] \in Blks
          <6>1. db[k] # b
            BY <1>1, <1>10, <3>3, <4>3 DEF db
          <6>2. Ino(f).db \in [Slots -> Blks \cup {0}]
            BY <1>1, FdType DEF FsInv
          <6> QED BY <1>1, <3>3, <6>1, <6>2 DEF db
        <5>2. PICK c \in Blks : c = db[k] /\ c # b
          BY <5>1
        <5>3. Block(Ino(f).db[k])' = Block(c)'
          BY <2>2, <5>2 DEF Block
        <5> QED BY <1>7, <3>3, <4>1, <5>2, <5>3
      <4> QED BY <4>2, <4>3
    <3> QED BY <1>1, <3>2, <3>3, <3>4 DEF k, db
  <2> QED BY <2>3, <2>4
<1>13. FileKept(f)'
  <2>1. promised'[Ino(f).name] = promised[Ino(f).name]
    BY <1>0
  <2> QED BY <1>0, <1>1, <1>4, <1>5, <1>12, <2>1 DEF FileKept, HasBlks
<1>14. ASSUME NEW g \in Fds, fds'[g].open PROVE FileKept(g)'
  <2>1. CASE g # f
    <3>1. fds[g].open /\ ~Writes(g) /\ ~Writes(g)'
      BY <1>0, <1>2, <1>5, <1>14, <2>1
    <3>2. \A c \in Blks : (\E k \in Slots : Ino(g).db[k] = c) => Block(c)' = Block(c)
      BY <1>7, <1>10, <2>1, <3>1
    <3> QED BY <1>0, <1>5, <3>1, <3>2, RestStays
  <2> QED BY <1>13, <2>1
<1>15. promised' \in [Names -> Seq(Cells) \cup {NoFile}]
  BY <1>0 DEF FilesInv
<1> QED BY <1>0, <1>9, <1>14, <1>15, TableStays DEF FilesInv


\* The content of a file after a write.
LEMMA OverwrittenFacts ==
  ASSUME NEW s \in Seq(Cells), NEW pos \in Nat, pos <= Len(s), NEW n \in Nat, NEW d \in Cells
  PROVE  /\ Overwritten(s, pos, n, d) \in Seq(Cells)
         /\ Len(Overwritten(s, pos, n, d)) = SizeAfter(Len(s), pos + n)
         /\ \A o \in 0 .. SizeAfter(Len(s), pos + n) - 1 :
              Overwritten(s, pos, n, d)[o + 1] =
                IF pos <= o /\ o < pos + n THEN d ELSE s[o + 1]
<1> DEFINE t == Overwritten(s, pos, n, d)
           m == SizeAfter(Len(s), pos + n)
<1>1. /\ Len(s) \in Nat /\ DOMAIN s = 1 .. Len(s) /\ \A k \in 1 .. Len(s) : s[k] \in Cells
  OBVIOUS
<1>2. m \in Nat /\ 1 .. m = 1 .. Len(s) \cup (pos + 1 .. pos + n)
  BY <1>1 DEF SizeAfter
<1>3. t = [k \in 1 .. m |-> IF k \in pos + 1 .. pos + n THEN d ELSE s[k]]
  BY <1>1, <1>2 DEF Overwritten
<1> HIDE DEF m
<1>4. t \in [1 .. m -> Cells]
  <2>1. \A k \in 1 .. m : k \notin pos + 1 .. pos + n => s[k] \in Cells
    BY <1>1, <1>2
  <2> QED BY <1>3, <2>1
<1> HIDE DEF t
<1>5. t \in Seq(Cells) /\ Len(t) = m
  BY <1>2, <1>4
<1>6. ASSUME NEW o \in 0 .. m - 1
      PROVE  t[o + 1] = IF pos <= o /\ o < pos + n THEN d ELSE s[o + 1]
  <2>1. /\ o \in Nat /\ o + 1 \in 1 .. m
        /\ o + 1 \in pos + 1 .. pos + n <=> pos <= o /\ o < pos + n
    BY <1>2
  <2> QED BY <1>3, <2>1
<1> QED BY <1>5, <1>6 DEF t, m

\* When a write returns, the file is as long as it reached, and what it has put there
\* When a write returns, the file is as long as it reached, and what it has put there
\* is promised.
LEMMA WriteReturnKeeps ==
  ASSUME FsInv, FilesInv, WriteReturn
  PROVE  FilesInv'
<1> PICK f, i, name, end : /\ f = call.fd /\ i = fds[f].inum /\ name = Ino(f).name
                           /\ end = fds[f].pos + call.done
  OBVIOUS
<1> DEFINE new == [Ino(f) EXCEPT !.sz = SizeAfter(@, end)]
           was == promised[name]
           now == Overwritten(was, fds[f].pos, call.done, call.value)
<1> PICK ino \in Programmed(inodes[i], new) : inodes' = [inodes EXCEPT ![i] = ino]
  BY DEF WriteReturn
<1>0. /\ UNCHANGED <<formatted, flash, mounted, inobmp, cache>>
      /\ call.op = "write" /\ call' = NoCall
      /\ fds' = [fds EXCEPT ![f].pos = end, ![f].ino = new]
      /\ ino \in Programmed(inodes[i], new) /\ inodes' = [inodes EXCEPT ![i] = ino]
      /\ promised' = [promised EXCEPT ![new.name] =
                        Overwritten(@, fds[f].pos, call.done, call.value)]
  BY DEF WriteReturn, InCall
<1>1. /\ f \in Fds /\ fds[f].open /\ FileKept(f)
      /\ fds[f].pos \in Nat /\ call.done \in Nat /\ Ino(f).sz \in Nat
      /\ fds[f].pos <= Ino(f).sz /\ Offset = end
      /\ name \in Names
  BY <1>0, CallFile DEF FsInv, FdsSane
<1>2. /\ call \in WriteCalls /\ Offset \in Nat /\ Reach(f) \in Nat
      /\ Reach(f) = IF Offset > Ino(f).sz THEN Offset ELSE Ino(f).sz
      /\ \A o : WrittenNow(f, o) <=> fds[f].pos <= o /\ o < Offset
      /\ \A g : g # f => ~Writes(g)
  BY <1>0, WriteFile
<1>3. /\ fds \in [Fds -> FdRecs] /\ Ino(f) \in InodeRecs /\ inodes \in [Inodes -> InodeRecs]
      /\ inobmp \subseteq Inodes /\ promised \in [Names -> Seq(Cells) \cup {NoFile}]
      /\ i \in Inodes
  BY <1>1, FdType DEF FsInv, CodeTypeOK, FdRecs, Ino, FilesInv, FdsSane
<1>4. /\ new.name = name /\ new.sz = Reach(f) /\ new.db = Ino(f).db
      /\ SizeAfter(Ino(f).sz, end) = Reach(f) /\ new \in InodeRecs
  <2>1. SizeAfter(Ino(f).sz, end) = Reach(f)
    BY <1>1, <1>2 DEF SizeAfter
  <2> QED BY <1>1, <1>2, <1>3, <2>1 DEF InodeRecs
<1>5. /\ now \in Seq(Cells) /\ Len(now) = Reach(f)
      /\ \A o \in 0 .. Reach(f) - 1 :
           now[o + 1] = IF WrittenNow(f, o) THEN call.value ELSE was[o + 1]
  <2>1. was \in Seq(Cells) /\ Len(was) = Ino(f).sz
    BY <1>1 DEF FileKept
  <2>2. call.value \in Cells
    BY <1>2 DEF WriteCalls, Cells
  <2>3. /\ now \in Seq(Cells) /\ Len(now) = SizeAfter(Len(was), end)
        /\ \A o \in 0 .. Len(now) - 1 :
             now[o + 1] = IF fds[f].pos <= o /\ o < end THEN call.value ELSE was[o + 1]
    <3>1. fds[f].pos \in Nat /\ fds[f].pos <= Len(was) /\ call.done \in Nat
      BY <1>1, <2>1
    <3> HIDE DEF was
    <3>2. /\ now \in Seq(Cells) /\ Len(now) = SizeAfter(Len(was), fds[f].pos + call.done)
          /\ \A o \in 0 .. SizeAfter(Len(was), fds[f].pos + call.done) - 1 :
               now[o + 1] = IF fds[f].pos <= o /\ o < fds[f].pos + call.done
                            THEN call.value ELSE was[o + 1]
      BY ZenonT(60), <2>1, <2>2, <3>1, OverwrittenFacts
    <3> QED BY <3>2
  <2> HIDE DEF now, was
  <2>4. Len(now) = Reach(f)
    BY <1>4, <2>1, <2>3
  <2>5. \A o : (fds[f].pos <= o /\ o < end) <=> WrittenNow(f, o)
    BY <1>1, <1>2
  <2> QED BY <2>3, <2>4, <2>5
<1>6. promised' = [promised EXCEPT ![name] = now]
  BY <1>0, <1>4
<1> HIDE DEF new, now
<1>7. /\ \A g \in Fds : /\ fds'[g].open = fds[g].open
                        /\ fds'[g].pos = IF g = f THEN end ELSE fds[g].pos
                        /\ fds'[g].ino = IF g = f THEN new ELSE fds[g].ino
      /\ promised'[name] = now /\ \A m \in Names : m # name => promised'[m] = promised[m]
      /\ promised' \in [Names -> Seq(Cells) \cup {NoFile}]
  <2>1. \A g \in Fds : fds'[g] = IF g = f THEN [fds[f] EXCEPT !.pos = end, !.ino = new] ELSE fds[g]
    BY <1>0, <1>1, <1>3
  <2>2. \A g \in Fds : /\ fds'[g].open = fds[g].open
                       /\ fds'[g].pos = IF g = f THEN end ELSE fds[g].pos
                       /\ fds'[g].ino = IF g = f THEN new ELSE fds[g].ino
    <3> DEFINE old == fds[f]
               rec == [old EXCEPT !.pos = end, !.ino = new]
    <3>1. old \in FdRecs
      BY <1>1, <1>3
    <3>2. rec.open = old.open /\ rec.pos = end /\ rec.ino = new
      BY <3>1 DEF FdRecs
    <3>3. \A g \in Fds : fds'[g] = IF g = f THEN rec ELSE fds[g]
      BY <2>1
    <3> HIDE DEF rec
    <3> QED BY <3>2, <3>3
  <2> QED BY <1>1, <1>3, <1>5, <1>6, <2>2
<1>8. TransferSane'
  <2>1. end <= new.sz
    BY <1>1, <1>2, <1>4
  <2>2. \A g \in Fds : fds'[g].open => fds'[g].pos <= fds'[g].ino.sz
    BY <1>7, <2>1 DEF FilesInv, TransferSane, Ino
  <2> QED BY <1>0, <2>2 DEF TransferSane, Ino, NoCall
<1>9. \A c \in Blks : Block(c)' = Block(c)
  BY <1>0 DEF Block, Cached
<1>10. \A g : /\ ~Writes(g)' /\ \A o : ~WrittenNow(g, o)'
              /\ Reach(g)' = Ino(g)'.sz
  BY <1>0 DEF Reach, WrittenNow, Writes, NoCall
<1>11. HasBlks(new, Reach(f))
  BY <1>1, <1>4 DEF FileKept, HasBlks
<1>12. FileKept(f)'
  <2>1. Ino(f)' = new /\ Reach(f)' = Reach(f)
    BY <1>1, <1>4, <1>7, <1>10 DEF Ino
  <2>2. ASSUME NEW o \in 0 .. Reach(f) - 1 PROVE Cell(Ino(f), o)' = now[o + 1]
    <3> DEFINE k == o \div NFS_BLK_SZ
    <3>1. /\ k \in Slots /\ new.db[k] # 0
          /\ Cell(Ino(f), o) = now[o + 1]
      BY <1>1, <1>4, <1>5 DEF FileKept, HasBlks
    <3>2. Ino(f).db \in [Slots -> Blks \cup {0}]
      BY <1>1, FdType DEF FsInv
    <3>3. PICK c \in Blks : c = new.db[k]
      BY <1>4, <3>1, <3>2
    <3>4. Cell(Ino(f), o)' = Cell(Ino(f), o)
      <4>1. Block(Ino(f).db[k])' = Block(c)'
        BY <2>1, <3>3 DEF Block
      <4>2. Block(Ino(f).db[k]) = Block(c)
        BY <1>4, <3>3
      <4>3. Block(c)' = Block(c)
        BY <1>9
      <4> QED BY <4>1, <4>2, <4>3 DEF Cell
    <3> QED BY <3>1, <3>4
  <2>3. HasBlks(Ino(f), Reach(f))'
    BY <1>11, <2>1 DEF HasBlks
  <2> QED BY <1>4, <1>5, <1>7, <1>10, <2>1, <2>2, <2>3 DEF FileKept
<1>13. ASSUME NEW g \in Fds, fds'[g].open PROVE FileKept(g)'
  <2>1. CASE g # f
    <3>1. fds[g].open /\ Ino(g)' = Ino(g) /\ ~Writes(g) /\ ~Writes(g)'
      BY <1>2, <1>7, <1>10, <1>13, <2>1 DEF Ino
    <3>2. Ino(g).name \in Names /\ Ino(g).name # name
      BY <1>1, <2>1, <3>1 DEF FsInv, FdsSane
    <3> QED BY <1>7, <1>9, <3>1, <3>2, RestStays
  <2> QED BY <1>12, <2>1
<1>14. ASSUME NEW j \in inobmp' PROVE HasBlks(inodes'[j], inodes'[j].sz)
  <2>1. CASE j # i
    BY <1>0, <1>3, <1>14, <2>1 DEF FilesInv
  <2>2. inodes'[i] = ino
    BY <1>0, <1>3
  <2>3. ino = new \/ ino.sz = 0
    <3>1. FlashOverwrites \/ (inodes[i].sz = 0 /\ inodes[i].db = NoBlks)
      BY <1>3 DEF FsInv, TableSane
    <3>2. inodes[i] \in InodeRecs
      BY <1>3
    <3> QED BY <1>0, <1>4, <3>1, <3>2, ProgrammedFacts
  <2>4. HasBlks(ino, ino.sz)
    <3>1. \A ob : HasBlks(ob, 0)
      BY DEF HasBlks
    <3> QED BY <1>4, <1>11, <2>3, <3>1
  <2> QED BY <2>1, <2>2, <2>4
<1> QED BY <1>7, <1>8, <1>13, <1>14 DEF FilesInv

\* No inode is longer than the blocks it has.
LEMMA FileFits ==
  ASSUME NEW ino, NEW n \in Nat, HasBlks(ino, n) PROVE n <= NFS_DIRECT_BLKS * NFS_BLK_SZ
<1> DEFINE o == n - 1
           q == o \div NFS_BLK_SZ
           r == o % NFS_BLK_SZ
<1>1. /\ NFS_DIRECT_BLKS \in Nat /\ NFS_BLK_SZ \in Nat \ {0}
      /\ NFS_DIRECT_BLKS * NFS_BLK_SZ \in Nat
  BY TimesInt, NanosFSAssumption
<1>2. CASE n # 0
  <2>1. o \in 0 .. n - 1 /\ o \in Nat
    BY <1>2
  <2>2. q \in Slots
    BY <2>1 DEF HasBlks
  <2>3. q \in Nat /\ r \in 0 .. NFS_BLK_SZ - 1 /\ o = NFS_BLK_SZ * q + r
    BY <1>1, <2>1, DivFacts
  <2>4. q < NFS_DIRECT_BLKS
    BY <1>1, <2>2, <2>3 DEF Slots
  <2> HIDE DEF q, r
  <2>5. NFS_BLK_SZ * q + NFS_BLK_SZ <= NFS_BLK_SZ * NFS_DIRECT_BLKS
    BY <1>1, <2>3, <2>4, TimesGrows
  <2>6. NFS_BLK_SZ * NFS_DIRECT_BLKS = NFS_DIRECT_BLKS * NFS_BLK_SZ /\ NFS_BLK_SZ * q \in Nat
    BY <1>1, <2>3, TimesInt
  <2> QED BY <1>1, <2>1, <2>3, <2>5, <2>6
<1> QED BY <1>1, <1>2

\* How the set of cached blocks changes.
LEMMA CacheMoves ==
  ASSUME CodeTypeOK, [Next]_vars
  PROVE  \/ Cached' = Cached
         \/ Cached' = {}
         \/ \E v \in Cached : Cached' = Cached \ {v}
         \/ \E b \in Blks : ~NeedsEviction(b) /\ Cached' = Cached \cup {b}
<1>1. CASE UNCHANGED cache
  BY <1>1 DEF Cached
<1>2. CASE PowerCut
  BY <1>2, EmptyCache DEF PowerCut, Cached
<1>3. CASE ReadBlk
  <2>1. Current \in Blks /\ ~NeedsEviction(Current)
    BY <1>3, TransferFacts DEF ReadBlk, InCall
  <2>2. \/ cache' = cache
        \/ cache' = Put(Current, [dirty |-> FALSE, buf |-> flash[Current]])
    BY <1>3 DEF ReadBlk
  <2> QED BY <2>1, <2>2 DEF Put, Cached
<1>4. CASE WriteBlk
  <2>1. Current \in Blks /\ ~NeedsEviction(Current)
    BY <1>4, TransferFacts DEF WriteBlk, InCall
  <2>2. \E e : cache' = Put(Current, e)
    BY <1>4, Zenon DEF WriteBlk
  <2> QED BY <2>1, <2>2 DEF Put, Cached
<1>5. CASE EvictClean
  BY <1>5 DEF EvictClean, Cached
<1>6. CASE EvictStore
  BY <1>6 DEF EvictStore, Cached
<1>7. CASE \/ MountAndFormat \/ Mount
           \/ \E n \in Names : OpenFile(n) \/ CreateFile(n)
           \/ \E f \in Fds : Close(f)
           \/ \E f \in Fds, len \in 1 .. MaxLen : StartRead(f, len)
           \/ \E f \in Fds, len \in 1 .. MaxLen, d \in Data : StartWrite(f, len, d)
           \/ ReadReturn \/ AllocBlk \/ WriteReturn \/ EvictErase
  BY <1>1, <1>7 DEF MountAndFormat, Mount, OpenFile, CreateFile, Close, StartRead, StartWrite,
       ReadReturn, AllocBlk, WriteReturn, EvictErase
<1> QED BY <1>1, <1>2, <1>3, <1>4, <1>5, <1>6, <1>7 DEF Next, vars

\* The cache never has more entries than buffers: an entry is added only when none
\* has to be freed.
LEMMA CacheBound ==
  ASSUME CodeTypeOK, Cardinality(Cached) <= CACHE_N, [Next]_vars
  PROVE  Cardinality(Cached') <= CACHE_N
<1>1. IsFiniteSet(Cached) /\ CACHE_N \in Nat \ {0}
  <2>1. IsFiniteSet(Blks)
    BY FS_Interval, NanosFSAssumption DEF Blks
  <2> QED BY <2>1, FS_Subset, NanosFSAssumption DEF CodeTypeOK
<1>2. Cardinality(Cached) \in Nat
  BY <1>1, FS_CardinalityType
<1>3. CASE Cached' = {}
  BY <1>1, <1>3, FS_EmptySet
<1>4. ASSUME NEW v \in Cached, Cached' = Cached \ {v}
      PROVE  Cardinality(Cached') <= CACHE_N
  <2>1. Cardinality(Cached') = Cardinality(Cached) - 1
    BY <1>1, <1>4, FS_RemoveElement
  <2> QED BY <1>1, <1>2, <2>1
<1>5. ASSUME NEW b \in Blks, ~NeedsEviction(b), Cached' = Cached \cup {b}
      PROVE  Cardinality(Cached') <= CACHE_N
  <2>1. Cardinality(Cached') = IF b \in Cached THEN Cardinality(Cached) ELSE Cardinality(Cached) + 1
    BY <1>1, <1>5, FS_AddElement
  <2> QED BY <1>1, <1>2, <1>5, <2>1 DEF NeedsEviction
<1> QED BY <1>3, <1>4, <1>5, CacheMoves

\* Each step keeps the files.
LEMMA FilesStep ==
  ASSUME FsInv, FilesInv, [Next]_vars PROVE FilesInv'
<1>1. CASE MountAndFormat \/ Mount \/ PowerCut
  BY <1>1, MountKeeps
<1>2. CASE \/ \E n \in Names : OpenFile(n)
           \/ \E f \in Fds : Close(f)
           \/ \E f \in Fds, len \in 1 .. MaxLen : StartRead(f, len)
  BY <1>2, OpenFileKeeps, CloseKeeps, StartReadKeeps
<1>3. CASE \E n \in Names : CreateFile(n)
  BY <1>3, CreateKeeps
<1>4. CASE \E f \in Fds, len \in 1 .. MaxLen, d \in Data : StartWrite(f, len, d)
  BY <1>4, StartWriteKeeps
<1>5. CASE ReadBlk \/ ReadReturn
  BY <1>5, ReadBlkKeeps, ReadReturnKeeps
<1>6. CASE AllocBlk \/ WriteBlk \/ WriteReturn
  BY <1>6, AllocBlkKeeps, WriteBlkKeeps, WriteReturnKeeps
<1>7. CASE EvictClean \/ EvictErase \/ EvictStore
  BY <1>7, EvictKeeps
<1>8. CASE UNCHANGED vars
  <2>1. /\ UNCHANGED <<formatted, flash, inodes, mounted, inobmp>>
        /\ UNCHANGED <<cache, fds, call, promised>>
    BY <1>8 DEF vars, flashVars
  <2>2. \A b \in Blks : Block(b)' = Block(b)
    BY <2>1 DEF Block, Cached
  <2> QED BY <2>1, <2>2, CallStays
<1> QED BY <1>1, <1>2, <1>3, <1>4, <1>5, <1>6, <1>7, <1>8 DEF Next

(***************************************************************************)
(* The invariant and the theorems about the content of the files.          *)
(***************************************************************************)

\* No file is open and none is in the table before the flash is formatted.
LEMMA KeptInit == Init => KeptInv
<1> SUFFICES ASSUME Init PROVE KeptInv
  OBVIOUS
<1>1. Cached = {} /\ Cardinality(Cached) = 0
  BY EmptyCache, FS_EmptySet DEF Init, Cached
<1>2. Bounds
  <2>1. \A f \in Fds : Ino(f).sz = 0
    BY DEF Init, Ino, Closed, NoInode, NewInode
  <2>2. CACHE_N \in Nat /\ NFS_DIRECT_BLKS * NFS_BLK_SZ \in Nat
    BY TimesInt, NanosFSAssumption
  <2> QED BY <1>1, <2>1, <2>2 DEF Bounds
<1>3. TransferSane
  BY DEF Init, TransferSane, Closed, NoCall
<1>4. /\ promised \in [Names -> Seq(Cells) \cup {NoFile}]
      /\ \A f \in Fds : ~fds[f].open
  BY DEF Init, Closed
<1> QED BY <1>2, <1>3, <1>4 DEF KeptInv, FilesInv, Init

\* An open file, as far as it goes, has its blocks.
LEMMA FileHasBlks ==
  ASSUME FsInv, FilesInv, NEW f \in Fds, fds[f].open
  PROVE  /\ Reach(f) \in Nat /\ Ino(f).sz <= Reach(f)
         /\ HasBlks(Ino(f), Reach(f)) /\ HasBlks(Ino(f), Ino(f).sz)
<1>1. Ino(f).sz \in Nat /\ HasBlks(Ino(f), Reach(f))
  BY FdType DEF FsInv, FilesInv, FileKept
<1>2. Reach(f) \in Nat /\ Ino(f).sz <= Reach(f)
  <2>1. CASE Writes(f)
    <3>1. f = call.fd /\ call.op = "write"
      BY <2>1 DEF Writes
    <3>2. Offset \in Nat /\ Reach(call.fd) \in Nat
          /\ Reach(call.fd) = IF Offset > Ino(call.fd).sz THEN Offset ELSE Ino(call.fd).sz
      BY <3>1, WriteFile
    <3> QED BY <1>1, <3>1, <3>2
  <2>2. CASE ~Writes(f)
    BY <1>1, <2>2 DEF Reach
  <2> QED BY <2>1, <2>2
<1>3. \A o \in 0 .. Ino(f).sz - 1 : o \in 0 .. Reach(f) - 1
  BY <1>1, <1>2
<1> QED BY <1>1, <1>2, <1>3 DEF HasBlks

\* No open file is longer than its blocks.
LEMMA OpenFits ==
  FsInv /\ FilesInv => \A f \in Fds : fds[f].open => Ino(f).sz <= NFS_DIRECT_BLKS * NFS_BLK_SZ
<1> SUFFICES ASSUME FsInv, FilesInv, NEW f \in Fds, fds[f].open
             PROVE  Ino(f).sz <= NFS_DIRECT_BLKS * NFS_BLK_SZ
  OBVIOUS
<1>1. Ino(f).sz \in Nat /\ HasBlks(Ino(f), Ino(f).sz)
  BY FileHasBlks, FdType DEF FsInv
<1> QED BY <1>1, FileFits

\* Every step keeps the files and the bounds.
LEMMA KeptStep == FsInv /\ KeptInv /\ [Next]_vars => KeptInv'
<1>0. (FsInv /\ FilesInv => \A f \in Fds : fds[f].open =>
                              Ino(f).sz <= NFS_DIRECT_BLKS * NFS_BLK_SZ)'
  BY OpenFits, PTL
<1> SUFFICES ASSUME FsInv, KeptInv, [Next]_vars PROVE KeptInv'
  OBVIOUS
<1>1. FsInv' /\ FilesInv'
  BY FsStep, FilesStep DEF KeptInv
<1>2. Cardinality(Cached)' <= CACHE_N
  BY CacheBound DEF FsInv, KeptInv, Bounds
<1>3. ASSUME NEW g \in Fds PROVE Ino(g)'.sz <= NFS_DIRECT_BLKS * NFS_BLK_SZ
  <2>1. CASE fds'[g].open
    BY <1>0, <1>1, <2>1
  <2>2. CASE ~fds'[g].open
    <3>1. fds'[g] = Closed
      BY <1>1, <2>2 DEF FsInv, FdsSane
    <3>2. Ino(g)'.sz = 0 /\ NFS_DIRECT_BLKS * NFS_BLK_SZ \in Nat
      BY <3>1, TimesInt, NanosFSAssumption DEF Ino, Closed, NoInode, NewInode
    <3> QED BY <3>2
  <2> QED BY <2>1, <2>2
<1> QED BY <1>1, <1>2, <1>3 DEF KeptInv, Bounds

\* Both invariants hold throughout.
LEMMA KeptInvariant == Spec => [](FsInv /\ KeptInv)
<1>1. Init => FsInv /\ KeptInv
  BY FsInit, KeptInit
<1>2. (FsInv /\ KeptInv) /\ [Next]_vars => (FsInv /\ KeptInv)'
  BY FsStep, KeptStep
<1> QED BY <1>1, <1>2, PTL DEF Spec

\* The variables have their types, no more is transferred than was asked for, the
\* cache has no more entries than buffers, and no file is longer than its blocks.
THEOREM NanosFSBounds == Spec => []TypeOK
<1>1. FsInv /\ KeptInv => TypeOK
  BY DEF FsInv, CallSane, KeptInv, FilesInv, Bounds, TypeOK
<1> QED BY <1>1, KeptInvariant, PTL

\* What an open file shows outside a write to it is what it is to hold.
LEMMA ShownIsPromised ==
  ASSUME FsInv, FilesInv, NEW f \in Fds, fds[f].open, ~Writes(f)
  PROVE  Shown(Ino(f)) = promised[Ino(f).name]
<1> DEFINE s == Shown(Ino(f))
           p == promised[Ino(f).name]
<1>1. Ino(f) \in InodeRecs /\ Ino(f).sz \in Nat /\ HasBlks(Ino(f), Ino(f).sz) /\ FileKept(f)
  BY FileHasBlks, FdType DEF FsInv, FilesInv
<1>2. /\ s \in Seq(Cells) /\ Len(s) = Ino(f).sz
      /\ \A o \in 0 .. Ino(f).sz - 1 : Cell(Ino(f), o) = s[o + 1]
  BY <1>1, ShownFacts
<1>3. /\ p \in Seq(Cells) /\ Len(p) = Ino(f).sz
      /\ \A o \in 0 .. Ino(f).sz - 1 : Cell(Ino(f), o) = p[o + 1]
  BY <1>1 DEF FileKept, Reach, WrittenNow
<1> HIDE DEF s, p
<1>4. \A k \in 1 .. Ino(f).sz : k - 1 \in 0 .. Ino(f).sz - 1 /\ (k - 1) + 1 = k
  BY <1>1
<1>5. ASSUME NEW k \in 1 .. Ino(f).sz PROVE s[k] = p[k]
  <2>1. /\ Cell(Ino(f), k - 1) = s[(k - 1) + 1]
        /\ Cell(Ino(f), k - 1) = p[(k - 1) + 1]
    BY <1>2, <1>3, <1>4
  <2> QED BY <1>4, <2>1
<1> DEFINE n == Ino(f).sz
<1>6. s = [k \in 1 .. n |-> s[k]] /\ p = [k \in 1 .. n |-> p[k]]
  BY <1>2, <1>3
<1> HIDE DEF n
<1>7. s = p
  BY <1>5, <1>6 DEF n
<1> QED BY <1>7 DEF s, p

\* On both kinds of flash an open file holds what it held when it was opened, with the
\* writes that returned put over it, whatever was evicted from the cache meanwhile.
THEOREM FilesStayKept == Spec => []FilesKept
<1>1. FsInv /\ KeptInv => FilesKept
  BY ShownIsPromised DEF FilesKept, KeptInv, Writes
<1> QED BY <1>1, KeptInvariant, PTL

(***************************************************************************)
(* No block is spent on cells that are not there: calls that stop early    *)
(* leave none behind in the file.                                          *)
(***************************************************************************)

\* The write in progress has just been given the block at the place k of the file of f.
Fresh(f, k) == Writes(f) /\ call.fresh /\ k = Slot

\* Each block of an open file holds a cell of it, or is the one that the write in progress
\* has just been given and is about to fill; each block of an inode on flash holds a cell
\* of its file.
BlocksUsed ==
  /\ \A f \in Fds, k \in Slots :
       fds[f].open /\ Ino(f).db[k] # 0 => NFS_BLK_SZ * k < Reach(f) \/ Fresh(f, k)
  /\ \A i \in inobmp, k \in Slots : inodes[i].db[k] # 0 => NFS_BLK_SZ * k < inodes[i].sz
  /\ call.op = "write" /\ call.fresh => call.done < call.len /\ Current # 0

\* Files whose blocks and reach did not change use their blocks as before.
LEMMA UsedStays ==
  ASSUME BlocksUsed, UNCHANGED <<inodes, inobmp>>,
         \A f \in Fds : fds'[f].open =>
           /\ fds[f].open /\ Ino(f)'.db = Ino(f).db /\ Reach(f)' = Reach(f)
           /\ \A k \in Slots : Fresh(f, k) => Fresh(f, k)',
         call'.op = "write" /\ call'.fresh => call'.done < call'.len /\ Current' # 0
  PROVE  BlocksUsed'
BY DEF BlocksUsed

\* Steps without a write, before and after.
LEMMA UsedNoWrite ==
  ASSUME BlocksUsed, UNCHANGED <<inodes, inobmp>>, call.op # "write", call'.op # "write",
         \A f \in Fds : fds'[f].open => fds[f].open /\ Ino(f)' = Ino(f)
  PROVE  BlocksUsed'
<1>1. \A f : /\ Reach(f) = Ino(f).sz /\ Reach(f)' = Ino(f)'.sz
             /\ \A k : ~Fresh(f, k)
  BY DEF Reach, Writes, Fresh
<1> QED BY <1>1, UsedStays

\* A write that has transferred nothing more.
LEMMA UsedInCall ==
  ASSUME BlocksUsed, UNCHANGED <<inodes, inobmp, fds>>,
         call'.op = call.op, call'.fd = call.fd, call'.done = call.done, call'.len = call.len,
         call.op = "write" => call'.fresh = call.fresh
  PROVE  BlocksUsed'
<1>1. Offset' = Offset /\ Slot' = Slot /\ Current' = Current
  BY DEF Offset, Slot, Current, Ino
<1>2. \A f : Ino(f)' = Ino(f)
  BY DEF Ino
<1>3. \A f : /\ Reach(f)' = Reach(f)
             /\ \A k : Fresh(f, k) => Fresh(f, k)'
  BY <1>1, <1>2 DEF Reach, Writes, Fresh
<1> QED BY <1>1, <1>2, <1>3, UsedStays DEF BlocksUsed

\* Opening finds the blocks of an inode on flash.
LEMMA UsedOpen ==
  ASSUME FsInv, BlocksUsed, NEW n \in Names, OpenFile(n) PROVE BlocksUsed'
<1> PICK f \in Fds, i \in Inodes :
       /\ f \in FreeFds /\ i \in Named(n)
       /\ fds' = [fds EXCEPT ![f] = OpenedFd(i, inodes[i])]
  BY DEF OpenFile, IsFirst
<1>0. /\ UNCHANGED <<flashVars, inobmp, call>> /\ call.op = "none" /\ i \in inobmp
      /\ fds \in [Fds -> FdRecs]
  BY DEF OpenFile, Idle, Named, FsInv, CodeTypeOK
<1>1. \A g : Reach(g) = Ino(g).sz /\ Reach(g)' = Ino(g)'.sz /\ \A k : ~Fresh(g, k)
  BY <1>0 DEF Reach, Writes, Fresh
<1>2. \A g \in Fds : fds'[g] = IF g = f THEN OpenedFd(i, inodes[i]) ELSE fds[g]
  BY <1>0
<1>3. \A g \in Fds, k \in Slots :
        fds'[g].open /\ Ino(g)'.db[k] # 0 => NFS_BLK_SZ * k < Ino(g)'.sz
  BY <1>0, <1>1, <1>2 DEF BlocksUsed, Ino, OpenedFd
<1> QED BY <1>0, <1>1, <1>3 DEF BlocksUsed, flashVars

\* A new file has no block.
LEMMA UsedCreate ==
  ASSUME FsInv, BlocksUsed, NEW n \in Names, CreateFile(n) PROVE BlocksUsed'
<1> PICK f \in Fds, i \in Inodes :
        /\ i \in Inodes \ inobmp
        /\ inobmp' = inobmp \cup {i}
        /\ \E ino \in Programmed(inodes[i], NewInode(n)) : inodes' = [inodes EXCEPT ![i] = ino]
        /\ fds' = [fds EXCEPT ![f] = OpenedFd(i, NewInode(n))]
  BY DEF CreateFile, IsFirst
<1> PICK ino \in Programmed(inodes[i], NewInode(n)) : inodes' = [inodes EXCEPT ![i] = ino]
  OBVIOUS
<1>0. /\ call.op = "none" /\ UNCHANGED call
      /\ i \in Inodes \ inobmp /\ inobmp' = inobmp \cup {i} /\ inobmp \subseteq Inodes
      /\ inodes' = [inodes EXCEPT ![i] = ino] /\ inodes \in [Inodes -> InodeRecs]
      /\ fds' = [fds EXCEPT ![f] = OpenedFd(i, NewInode(n))] /\ fds \in [Fds -> FdRecs]
  BY DEF CreateFile, Idle, FsInv, CodeTypeOK
<1>1. ino.db = NoBlks /\ NewInode(n).db = NoBlks
  <2>1. FlashOverwrites \/ (inodes[i].sz = 0 /\ inodes[i].db = NoBlks)
    BY DEF FsInv, TableSane
  <2>2. inodes[i] \in InodeRecs /\ NewInode(n) \in InodeRecs /\ NewInode(n).db = NoBlks
    BY <1>0, NewInodeType
  <2> QED BY <2>1, <2>2, ProgrammedFacts
<1>2. \A g : Reach(g) = Ino(g).sz /\ Reach(g)' = Ino(g)'.sz /\ \A k : ~Fresh(g, k)
  BY <1>0 DEF Reach, Writes, Fresh
<1>3. \A g \in Fds : fds'[g] = IF g = f THEN OpenedFd(i, NewInode(n)) ELSE fds[g]
  BY <1>0
<1>4. \A k \in Slots : NoBlks[k] = 0
  BY DEF NoBlks
<1>5. \A g \in Fds, k \in Slots :
        fds'[g].open /\ Ino(g)'.db[k] # 0 => NFS_BLK_SZ * k < Ino(g)'.sz
  <2>1. \A k \in Slots : OpenedFd(i, NewInode(n)).ino.db[k] = 0
    BY <1>1, <1>4 DEF OpenedFd
  <2>2. ASSUME NEW g \in Fds, NEW k \in Slots, fds'[g].open, Ino(g)'.db[k] # 0
        PROVE  NFS_BLK_SZ * k < Ino(g)'.sz
    <3>1. g # f
      BY <1>3, <2>1, <2>2 DEF Ino
    <3>2. fds[g].open /\ Ino(g)' = Ino(g)
      BY <1>3, <2>2, <3>1 DEF Ino
    <3> QED BY <1>2, <2>2, <3>2 DEF BlocksUsed
  <2> QED BY <2>2
<1>6. \A j \in inobmp', k \in Slots : inodes'[j].db[k] # 0 => NFS_BLK_SZ * k < inodes'[j].sz
  <2>1. \A j \in inobmp' : j # i => j \in inobmp /\ inodes'[j] = inodes[j]
    BY <1>0
  <2>2. inodes'[i].db = NoBlks
    BY <1>0, <1>1
  <2> QED BY <1>4, <2>1, <2>2 DEF BlocksUsed
<1> QED BY <1>0, <1>2, <1>5, <1>6 DEF BlocksUsed

\* A write that begins has been given no block.
LEMMA UsedStartWrite ==
  ASSUME FsInv, FilesInv, BlocksUsed, NEW f \in Fds, NEW len \in 1 .. MaxLen, NEW d \in Data,
         StartWrite(f, len, d)
  PROVE  BlocksUsed'
<1>0. /\ UNCHANGED <<inodes, inobmp, fds>>
      /\ call.op = "none" /\ fds[f].open
      /\ call'.op = "write" /\ call'.fd = f /\ call'.done = 0 /\ ~call'.fresh
  BY DEF StartWrite, Idle, flashVars
<1>1. /\ fds[f].pos \in Nat /\ Ino(f).sz \in Nat /\ fds[f].pos <= Ino(f).sz
  BY <1>0, FdType DEF FsInv, FilesInv, TransferSane
<1>2. \A g : Ino(g)' = Ino(g)
  BY <1>0 DEF Ino
<1>3. Offset' = fds[f].pos
  BY <1>0, <1>1 DEF Offset
<1>4. ASSUME NEW g PROVE Reach(g)' = Reach(g) /\ \A k : ~Fresh(g, k)
  <2>1. f = g => ~ (fds[f].pos > Ino(g).sz)
    BY <1>1
  <2> QED BY <1>0, <1>2, <1>3, <2>1 DEF Reach, Writes, Fresh
<1> QED BY <1>0, <1>2, <1>4, UsedStays

\* What AllocBlk does to the descriptor of the call.
LEMMA AllocFd ==
  ASSUME CodeTypeOK, call.fd \in Fds, Slot \in Slots, NEW b \in Blks,
         fds' = [fds EXCEPT ![call.fd].ino.db[Slot] = b]
  PROVE  LET f == call.fd
         IN  /\ \A g \in Fds : /\ g # f => fds'[g] = fds[g]
                               /\ fds'[g].open = fds[g].open /\ fds'[g].inum = fds[g].inum
                               /\ fds'[g].pos = fds[g].pos
                               /\ fds'[g].ino.name = fds[g].ino.name
                               /\ fds'[g].ino.sz = fds[g].ino.sz
             /\ fds'[f].ino.db[Slot] = b
             /\ \A m \in Slots : m # Slot => fds'[f].ino.db[m] = Ino(f).db[m]
<1> DEFINE f == call.fd
           k == Slot
           old == fds[f]
           ino == [old.ino EXCEPT !.db[k] = b]
           new == [old EXCEPT !.ino = ino]
<1>1. /\ old \in FdRecs /\ old.ino \in InodeRecs /\ k \in Slots /\ f \in Fds
      /\ old.ino.db \in [Slots -> Blks \cup {0}] /\ fds \in [Fds -> FdRecs]
  BY DEF FdRecs, InodeRecs, CodeTypeOK
<1> HIDE DEF k, f
<1>2. /\ ino.sz = old.ino.sz /\ ino.name = old.ino.name /\ ino.db[k] = b
      /\ \A m \in Slots : m # k => ino.db[m] = old.ino.db[m]
  BY <1>1 DEF InodeRecs
<1>3. new.inum = old.inum /\ new.pos = old.pos /\ new.ino = ino /\ new.open = old.open
  <2> HIDE DEF ino
  <2> QED BY <1>1, <1>2 DEF FdRecs
<1>4. fds' = [fds EXCEPT ![f] = new]
  BY DEF k, f
<1> HIDE DEF new, ino
<1>5. \A g \in Fds : fds'[g] = IF g = f THEN new ELSE fds[g]
  BY <1>1, <1>4
<1>6. \A g \in Fds : /\ g # f => fds'[g] = fds[g]
                     /\ fds'[g].open = fds[g].open /\ fds'[g].inum = fds[g].inum
                     /\ fds'[g].pos = fds[g].pos
                     /\ fds'[g].ino.name = fds[g].ino.name
                     /\ fds'[g].ino.sz = fds[g].ino.sz
  BY <1>2, <1>3, <1>5
<1>7. fds'[f].ino = ino
  BY <1>1, <1>3, <1>5
<1> QED BY <1>2, <1>6, <1>7 DEF k, f, Ino

\* The block that alloc_blk() gives is fresh.
LEMMA UsedAlloc ==
  ASSUME FsInv, FilesInv, BlocksUsed, AllocBlk PROVE BlocksUsed'
<1> PICK f : f = call.fd
  OBVIOUS
<1> PICK b \in Blks : fds' = [fds EXCEPT ![call.fd].ino.db[Slot] = b]
  BY DEF AllocBlk
<1>0. /\ UNCHANGED <<inodes, inobmp>>
      /\ call.op = "write" /\ Slot \in Slots /\ Current = 0 /\ call.done < call.len
      /\ call' = [call EXCEPT !.fresh = TRUE]
  BY DEF AllocBlk, InCall, flashVars
<1>1. /\ f \in Fds /\ fds[f].open /\ call \in WriteCalls
  BY <1>0, CallFile, WriteFile
<1>2. /\ call'.op = "write" /\ call'.fd = f /\ call'.done = call.done /\ call'.len = call.len
      /\ call'.fresh
  BY <1>0, <1>1 DEF WriteCalls
<1>3. /\ fds'[f].ino.db[Slot] = b
      /\ \A m \in Slots : m # Slot => fds'[f].ino.db[m] = Ino(f).db[m]
      /\ \A g \in Fds : /\ g # f => fds'[g] = fds[g]
                        /\ fds'[g].open = fds[g].open /\ fds'[g].pos = fds[g].pos
                        /\ fds'[g].ino.sz = fds[g].ino.sz
  BY <1>0, <1>1, AllocFd DEF FsInv
<1>4. Offset' = Offset /\ Slot' = Slot
  BY <1>1, <1>2, <1>3 DEF Offset, Slot
<1>5. \A g \in Fds : (Writes(g)' <=> Writes(g)) /\ Reach(g)' = Reach(g)
  <2>1. \A g : Writes(g)' <=> Writes(g)
    BY <1>0, <1>2 DEF Writes
  <2>2. \A g \in Fds : Ino(g)'.sz = Ino(g).sz
    BY <1>3 DEF Ino
  <2> QED BY <1>4, <2>1, <2>2 DEF Reach
<1>6. Current' # 0
  <2>1. Current' = b
    BY <1>0, <1>2, <1>3, <1>4 DEF Current, Ino
  <2> QED BY <2>1, NanosFSAssumption DEF Blks
<1>7. ASSUME NEW g \in Fds, NEW k \in Slots, fds'[g].open, Ino(g)'.db[k] # 0
      PROVE  NFS_BLK_SZ * k < Reach(g)' \/ Fresh(g, k)'
  <2>0. fds[g].open
    BY <1>3, <1>7
  <2>1. CASE g = f /\ k = Slot
    BY <1>2, <1>4, <2>1 DEF Fresh, Writes
  <2>2. CASE ~ (g = f /\ k = Slot)
    <3>1. Ino(g).db[k] # 0
      BY <1>3, <1>7, <2>2 DEF Ino
    <3>2. ~Fresh(g, k)
      BY <2>2 DEF Fresh, Writes
    <3> QED BY <1>5, <2>0, <3>1, <3>2 DEF BlocksUsed
  <2> QED BY <2>1, <2>2
<1> QED BY <1>0, <1>2, <1>6, <1>7 DEF BlocksUsed

\* A block that was fresh is reached.
LEMMA UsedWriteBlk ==
  ASSUME FsInv, FilesInv, BlocksUsed, WriteBlk PROVE BlocksUsed'
<1> PICK f : f = call.fd
  OBVIOUS
<1>0. /\ UNCHANGED <<inodes, inobmp, fds>>
      /\ call.op = "write" /\ call.done < call.len
      /\ call' = [call EXCEPT !.done = @ + Chunk, !.fresh = FALSE]
  BY DEF WriteBlk, InCall, flashVars
<1>1. /\ f \in Fds /\ fds[f].open /\ Ino(f).sz \in Nat
      /\ fds[f].pos \in Nat /\ call.done \in Nat /\ call.len \in Nat
      /\ Offset = fds[f].pos + call.done
  BY <1>0, CallFile
<1>2. /\ call \in WriteCalls /\ Offset \in Nat
      /\ Writes(f) /\ Reach(f) \in Nat
      /\ Reach(f) = IF Offset > Ino(f).sz THEN Offset ELSE Ino(f).sz
      /\ \A g : g # f => ~Writes(g)
  BY <1>0, WriteFile
<1>3. Chunk \in 1 .. call.len - call.done
  BY <1>0, TransferFacts DEF FsInv
<1>4. /\ call'.op = "write" /\ call'.fd = f /\ call'.done = call.done + Chunk /\ ~call'.fresh
  <2> DEFINE d == call.done + Chunk
  <2> HIDE DEF d
  <2>1. call' = [call EXCEPT !.done = d, !.fresh = FALSE]
    BY <1>0 DEF d
  <2> QED BY <1>0, <1>2, <2>1 DEF WriteCalls, d
<1>5. /\ Offset' = Offset + Chunk /\ Chunk \in Nat /\ Chunk > 0
      /\ \A g : Ino(g)' = Ino(g)
      /\ \A g : Writes(g)' <=> Writes(g)
  <2>1. Chunk \in Nat /\ Chunk > 0
    BY <1>1, <1>3
  <2>2. Offset' = Offset + Chunk
    <3> DEFINE from == fds[f].pos
    <3>1. Offset' = from + (call.done + Chunk)
      BY <1>0, <1>4 DEF Offset
    <3> HIDE DEF from
    <3>2. Offset = from + call.done /\ from \in Nat
      BY <1>1 DEF from
    <3> QED BY <1>1, <2>1, <3>1, <3>2
  <2> QED BY <1>0, <1>4, <2>1, <2>2 DEF Ino, Writes
<1>6. /\ Reach(f)' = IF Offset + Chunk > Ino(f).sz THEN Offset + Chunk ELSE Ino(f).sz
      /\ \A g : g # f => Reach(g)' = Reach(g)
  BY <1>0, <1>1, <1>2, <1>4, <1>5 DEF Reach
<1>7. Reach(f) <= Reach(f)' /\ Offset < Reach(f)' /\ Reach(f)' \in Nat
  BY <1>1, <1>2, <1>5, <1>6
<1>8. Slot \in Nat /\ NFS_BLK_SZ * Slot \in Nat /\ NFS_BLK_SZ * Slot <= Offset
  <2>1. Slot \in Nat /\ InBlk \in 0 .. NFS_BLK_SZ - 1 /\ Offset = NFS_BLK_SZ * Slot + InBlk
    BY <1>2, DivFacts, NanosFSAssumption DEF Slot, InBlk
  <2>2. NFS_BLK_SZ * Slot \in Nat /\ NFS_BLK_SZ \in Nat
    BY <2>1, TimesInt, NanosFSAssumption
  <2> QED BY <2>1, <2>2
<1>9. ASSUME NEW k \in Slots, Ino(f).db[k] # 0
      PROVE  NFS_BLK_SZ * k < Reach(f)'
  <2>1. CASE k = Slot
    BY <1>2, <1>7, <1>8, <2>1
  <2>2. CASE k # Slot
    <3>1. NFS_BLK_SZ * k < Reach(f)
      BY <1>1, <1>9, <2>2 DEF BlocksUsed, Fresh
    <3>2. NFS_BLK_SZ * k \in Nat
      BY TimesInt, NanosFSAssumption DEF Slots
    <3> QED BY <1>2, <1>7, <3>1, <3>2
  <2> QED BY <2>1, <2>2
<1>10. ASSUME NEW g \in Fds, g # f, NEW k \in Slots, fds[g].open, Ino(g).db[k] # 0
       PROVE  NFS_BLK_SZ * k < Reach(g)'
  BY <1>2, <1>6, <1>10 DEF BlocksUsed, Fresh
<1> QED BY <1>0, <1>4, <1>5, <1>9, <1>10 DEF BlocksUsed

\* A write does not return with a fresh block.
LEMMA UsedWriteReturn ==
  ASSUME FsInv, FilesInv, BlocksUsed, WriteReturn
  PROVE  BlocksUsed' /\ ~call.fresh
<1> PICK f, i, end : f = call.fd /\ i = fds[f].inum /\ end = fds[f].pos + call.done
  OBVIOUS
<1> DEFINE new == [Ino(f) EXCEPT !.sz = SizeAfter(@, end)]
<1> PICK ino \in Programmed(inodes[i], new) : inodes' = [inodes EXCEPT ![i] = ino]
  BY DEF WriteReturn
<1>0. /\ UNCHANGED inobmp /\ call.op = "write" /\ call' = NoCall
      /\ inodes' = [inodes EXCEPT ![i] = ino]
      /\ fds' = [fds EXCEPT ![f].pos = end, ![f].ino = new]
      /\ call.done >= call.len \/ Slot \notin Slots \/ Current = 0
  BY DEF WriteReturn, InCall
<1>1. /\ f \in Fds /\ fds[f].open
      /\ call.done \in Nat /\ call.len \in Nat /\ Offset = end /\ Ino(f).sz \in Nat
  BY <1>0, CallFile
<1>2. /\ Offset \in Nat
      /\ Reach(f) = IF Offset > Ino(f).sz THEN Offset ELSE Ino(f).sz
      /\ \A g : g # f => ~Writes(g)
  BY <1>0, WriteFile
<1>3. /\ Ino(f) \in InodeRecs /\ inodes \in [Inodes -> InodeRecs] /\ inobmp \subseteq Inodes
      /\ i \in Inodes /\ fds \in [Fds -> FdRecs]
  BY <1>1, FdType DEF FsInv, CodeTypeOK, FdsSane
<1>4. new.sz = Reach(f) /\ new.db = Ino(f).db /\ new \in InodeRecs
  <2>1. SizeAfter(Ino(f).sz, end) = Reach(f) /\ Reach(f) \in Nat
    BY <1>1, <1>2 DEF SizeAfter
  <2> QED BY <1>3, <2>1 DEF InodeRecs
<1>5. ~call.fresh
  BY <1>0, <1>1 DEF BlocksUsed, Current
<1>6. \A k \in Slots : new.db[k] # 0 => NFS_BLK_SZ * k < new.sz
  BY <1>1, <1>4, <1>5 DEF BlocksUsed, Fresh
<1>7. ino = new \/ (ino.sz = 0 /\ ino.db = NoBlks)
  <2>1. FlashOverwrites \/ (inodes[i].sz = 0 /\ inodes[i].db = NoBlks)
    BY <1>3 DEF FsInv, TableSane
  <2> HIDE DEF new
  <2> QED BY <1>3, <1>4, <2>1, ProgrammedFacts
<1> HIDE DEF new
<1>8. \A g : Reach(g)' = Ino(g)'.sz
  BY <1>0 DEF Reach, Writes, NoCall
<1>9. \A g \in Fds : /\ fds'[g].open = fds[g].open
                     /\ fds'[g].ino = IF g = f THEN new ELSE fds[g].ino
  <2> DEFINE old == fds[f]
             rec == [old EXCEPT !.pos = end, !.ino = new]
  <2>1. rec.open = old.open /\ rec.ino = new
    BY <1>1, <1>3 DEF FdRecs
  <2>2. \A g \in Fds : fds'[g] = IF g = f THEN rec ELSE fds[g]
    BY <1>0, <1>1, <1>3
  <2> HIDE DEF rec
  <2> QED BY <2>1, <2>2
<1>10. ASSUME NEW g \in Fds, NEW k \in Slots, fds'[g].open, Ino(g)'.db[k] # 0
       PROVE  NFS_BLK_SZ * k < Reach(g)'
  <2>1. CASE g = f
    BY <1>6, <1>8, <1>9, <1>10, <2>1 DEF Ino
  <2>2. CASE g # f
    <3>1. fds[g].open /\ Ino(g)' = Ino(g) /\ Reach(g) = Ino(g).sz /\ ~Fresh(g, k)
      BY <1>2, <1>9, <1>10, <2>2 DEF Ino, Reach, Fresh
    <3> QED BY <1>8, <1>10, <3>1 DEF BlocksUsed
  <2> QED BY <2>1, <2>2
<1>11. ASSUME NEW j \in inobmp', NEW k \in Slots, inodes'[j].db[k] # 0
       PROVE  NFS_BLK_SZ * k < inodes'[j].sz
  <2>1. CASE j # i
    BY <1>0, <1>3, <1>11, <2>1 DEF BlocksUsed
  <2>2. CASE j = i
    <3>1. inodes'[i] = ino
      BY <1>0, <1>3
    <3> QED BY <1>6, <1>7, <1>11, <2>2, <3>1 DEF NoBlks
  <2> QED BY <2>1, <2>2
<1>12. call'.op # "write"
  BY <1>0 DEF NoCall
<1> QED BY <1>5, <1>10, <1>11, <1>12 DEF BlocksUsed

\* Each step leaves no block unused.
LEMMA UsedStep == FsInv /\ FilesInv /\ BlocksUsed /\ [Next]_vars => BlocksUsed'
<1> SUFFICES ASSUME FsInv, FilesInv, BlocksUsed, [Next]_vars PROVE BlocksUsed'
  OBVIOUS
<1>1. CASE MountAndFormat \/ Mount \/ PowerCut
  <2>1. inobmp' = {} /\ call' = NoCall /\ \A f \in Fds : ~fds'[f].open
    BY <1>1 DEF MountAndFormat, Mount, PowerCut, FsInv, CallSane, Closed
  <2> QED BY <2>1 DEF BlocksUsed, NoCall
<1>2. CASE \/ \E f \in Fds : Close(f)
           \/ \E f \in Fds, len \in 1 .. MaxLen : StartRead(f, len)
           \/ ReadReturn
  <2>1. UNCHANGED <<inodes, inobmp>> /\ call.op # "write" /\ call'.op # "write"
    BY <1>2 DEF Close, StartRead, ReadReturn, Idle, InCall, flashVars, NoCall
  <2>2. \A f \in Fds : fds'[f].open => fds[f].open /\ Ino(f)' = Ino(f)
    <3>0. fds \in [Fds -> FdRecs]
      BY DEF FsInv, CodeTypeOK
    <3>1. ASSUME NEW g \in Fds, Close(g)
          PROVE  \A f \in Fds : fds'[f].open => fds[f].open /\ Ino(f)' = Ino(f)
      BY <3>0, <3>1 DEF Close, Closed, Ino
    <3>2. CASE \E f \in Fds, len \in 1 .. MaxLen : StartRead(f, len)
      BY <3>2 DEF StartRead, Ino
    <3>3. CASE ReadReturn
      BY <3>0, <3>3 DEF ReadReturn, FdRecs, Ino
    <3> QED BY <1>2, <3>1, <3>2, <3>3
  <2> QED BY <2>1, <2>2, UsedNoWrite
<1>3. CASE ReadBlk
  <2> DEFINE part == SubSeq(Block(Current), InBlk + 1, InBlk + Chunk)
  <2>1. /\ UNCHANGED <<inodes, inobmp>> /\ call.op = "read"
        /\ call' = [call EXCEPT !.done = @ + Chunk, !.got = @ \o part]
    BY <1>3 DEF ReadBlk, InCall, flashVars
  <2>2. call \in ReadCalls
    BY <2>1, CallFacts DEF FsInv
  <2> HIDE DEF part
  <2>3. call'.op = "read"
    BY <2>1, <2>2 DEF ReadCalls
  <2>4. \A f \in Fds : fds'[f].open => fds[f].open /\ Ino(f)' = Ino(f)
    BY <1>3 DEF ReadBlk, Ino
  <2> QED BY <2>1, <2>3, <2>4, UsedNoWrite
<1>4. CASE \E n \in Names : OpenFile(n) \/ CreateFile(n)
  BY <1>4, UsedOpen, UsedCreate
<1>5. CASE \E f \in Fds, len \in 1 .. MaxLen, d \in Data : StartWrite(f, len, d)
  BY <1>5, UsedStartWrite
<1>6. CASE AllocBlk \/ WriteBlk \/ WriteReturn
  BY <1>6, UsedAlloc, UsedWriteBlk, UsedWriteReturn
<1>7. CASE EvictClean \/ EvictErase \/ EvictStore
  <2>1. UNCHANGED <<inodes, inobmp, fds>>
    BY <1>7 DEF EvictClean, EvictErase, EvictStore, flashVars
  <2>2. CASE EvictClean
    BY <2>1, <2>2, UsedInCall DEF EvictClean
  <2>3. CASE EvictErase \/ EvictStore
    <3>1. CodeTypeOK
      BY DEF FsInv
    <3>2. PICK v \in Blks \cup {0} : call.op # "none" /\ call' = [call EXCEPT !.victim = v]
      BY <2>3, <3>1 DEF EvictErase, EvictStore, CodeTypeOK
    <3>3. /\ call'.op = call.op /\ call'.fd = call.fd /\ call'.done = call.done
          /\ call'.len = call.len
          /\ call.op = "write" => call'.fresh = call.fresh
      BY <3>1, <3>2, CallMoves, CallMovesData
    <3> QED BY <2>1, <3>3, UsedInCall
  <2> QED BY <1>7, <2>2, <2>3
<1>8. CASE UNCHANGED vars
  BY <1>8, UsedInCall DEF vars, flashVars
<1> QED BY <1>1, <1>2, <1>3, <1>4, <1>5, <1>6, <1>7, <1>8 DEF Next

(***************************************************************************)
(* NanosFS implements FileStore: the operators first.                      *)

(***************************************************************************)
(* NanosFS implements FileStore: the operators first.                      *)
(***************************************************************************)

\* What a write puts over the content is the same sequence in both modules.
LEMMA OverwrittenIsPut ==
  ASSUME NEW s \in Seq(Cells), NEW pos \in Nat, pos <= Len(s), NEW n \in Nat, NEW d \in Cells
  PROVE  Overwritten(s, pos, n, d) = Files!PutOver(s, pos, n, d)
<1> DEFINE a == SubSeq(s, 1, pos)
           b == [k \in 1 .. n |-> d]
           m == Len(s)
           c == SubSeq(s, pos + n + 1, m)
           l == SizeAfter(m, pos + n)
           ab == a \o b
           abc == ab \o c
           w == Overwritten(s, pos, n, d)
<1>1. m \in Nat /\ pos <= m /\ \A k \in 1 .. m : s[k] \in Cells
  OBVIOUS
<1>2. a \in Seq(Cells) /\ Len(a) = pos /\ \A k \in 1 .. pos : a[k] = s[k]
  <2>1. \A k \in 1 .. pos : s[k] \in Cells
    BY <1>1
  <2>2. /\ a \in Seq(Cells) /\ Len(a) = IF 1 <= pos THEN pos - 1 + 1 ELSE 0
        /\ \A k \in 1 .. pos - 1 + 1 : a[k] = s[1 + k - 1]
    BY <2>1, SubSeqProperties
  <2> HIDE DEF a
  <2>3. \A k \in 1 .. pos : 1 + k - 1 = k /\ k \in 1 .. pos - 1 + 1
    OBVIOUS
  <2> QED BY <2>2, <2>3
<1>3. b \in Seq(Cells) /\ Len(b) = n /\ \A k \in 1 .. n : b[k] = d
  OBVIOUS
<1>4. /\ c \in Seq(Cells) /\ Len(c) = IF pos + n + 1 <= m THEN m - pos - n ELSE 0
      /\ \A k \in 1 .. m - pos - n : c[k] = s[pos + n + k]
  <2>1. \A k \in pos + n + 1 .. m : s[k] \in Cells
    BY <1>1
  <2>2. /\ c \in Seq(Cells)
        /\ Len(c) = IF pos + n + 1 <= m THEN m - (pos + n + 1) + 1 ELSE 0
        /\ \A k \in 1 .. m - (pos + n + 1) + 1 : c[k] = s[(pos + n + 1) + k - 1]
    <3>1. pos + n + 1 \in Int /\ m \in Int
      BY <1>1
    <3> QED BY SMTT(60), <2>1, <3>1, SubSeqProperties
  <2> HIDE DEF c, m
  <2>3. /\ m - (pos + n + 1) + 1 = m - pos - n
        /\ \A k \in 1 .. m - pos - n : (pos + n + 1) + k - 1 = pos + n + k
    BY <1>1
  <2> QED BY <2>2, <2>3
<1> HIDE DEF a, b, c, m
<1>5. /\ ab \in Seq(Cells) /\ Len(ab) = pos + n
      /\ \A k \in 1 .. pos + n : ab[k] = IF k <= pos THEN a[k] ELSE b[k - pos]
  <2>1. a \in Seq(Cells) /\ b \in Seq(Cells) /\ Len(a) = pos /\ Len(b) = n
    BY <1>2, <1>3
  <2>2. /\ ab \in Seq(Cells) /\ Len(ab) = Len(a) + Len(b)
        /\ \A k \in 1 .. Len(a) + Len(b) :
             ab[k] = IF k <= Len(a) THEN a[k] ELSE b[k - Len(a)]
    BY <2>1, ConcatProperties
  <2> QED BY <2>1, <2>2
<1> HIDE DEF ab
<1>6. /\ abc \in Seq(Cells) /\ Len(abc) = pos + n + Len(c)
      /\ \A k \in 1 .. pos + n + Len(c) :
           abc[k] = IF k <= pos + n THEN ab[k] ELSE c[k - (pos + n)]
  <2>1. /\ abc \in Seq(Cells) /\ Len(abc) = Len(ab) + Len(c)
        /\ \A k \in 1 .. Len(ab) + Len(c) :
             abc[k] = IF k <= Len(ab) THEN ab[k] ELSE c[k - Len(ab)]
    BY <1>4, <1>5, ConcatProperties
  <2> QED BY <1>5, <2>1
<1> HIDE DEF abc
<1>7. /\ l \in Nat /\ l = pos + n + Len(c)
  BY <1>1, <1>4 DEF SizeAfter
<1>8. /\ w \in Seq(Cells) /\ Len(w) = l
      /\ \A o \in 0 .. l - 1 : w[o + 1] = IF pos <= o /\ o < pos + n THEN d ELSE s[o + 1]
  BY OverwrittenFacts, <1>1 DEF m
<1> HIDE DEF w, l
<1>9. ASSUME NEW k \in 1 .. l PROVE w[k] = abc[k]
  <2>1. w[k] = IF pos < k /\ k <= pos + n THEN d ELSE s[k]
    <3>1. k - 1 \in 0 .. l - 1 /\ (k - 1) + 1 = k
      BY <1>7
    <3>2. pos <= k - 1 /\ k - 1 < pos + n <=> pos < k /\ k <= pos + n
      BY <1>7
    <3> QED BY <1>8, <3>1, <3>2
  <2>2. CASE k <= pos
    <3>1. k \in 1 .. pos /\ k \in 1 .. pos + n /\ k \in 1 .. pos + n + Len(c)
      BY <1>7, <2>2
    <3> QED BY <1>2, <1>5, <1>6, <2>1, <2>2, <3>1
  <2>3. CASE pos < k /\ k <= pos + n
    <3>1. /\ k - pos \in 1 .. n /\ k \in 1 .. pos + n /\ k \in 1 .. pos + n + Len(c)
          /\ ~ (k <= pos)
      BY <1>7, <2>3
    <3> QED BY <1>3, <1>5, <1>6, <2>1, <2>3, <3>1
  <2>4. CASE pos + n < k
    <3>1. /\ k - (pos + n) \in 1 .. m - pos - n /\ k \in 1 .. pos + n + Len(c)
          /\ pos + n + (k - (pos + n)) = k /\ ~ (k <= pos + n)
      BY <1>1, <1>4, <1>7, <2>4
    <3> QED BY <1>4, <1>6, <2>1, <3>1
  <2> QED BY <1>7, <2>2, <2>3, <2>4
<1>10. w = abc
  BY <1>6, <1>7, <1>8, <1>9, SeqEqual
<1> QED BY <1>10 DEF w, abc, ab, a, b, c, m, Files!PutOver

\* FileStore counts as this module does.
LEMMA SameCardinality == \A S : Files!Cardinality(S) = Cardinality(S)
BY DEF Files!Cardinality, Cardinality

\* The blocks in the bitmap are finitely many; with all bits set they are the store's.
LEMMA BlksCount ==
  /\ \A S \in SUBSET Blks : IsFiniteSet(S)
  /\ Cardinality(Blks) = NFS_DATA_BLKS
<1>1. IsFiniteSet(Blks)
  BY FS_Interval, NanosFSAssumption DEF Blks
<1>2. \A S \in SUBSET Blks : IsFiniteSet(S)
  BY <1>1, FS_Subset
<1>3. Cardinality(Blks) = NFS_DATA_BLKS
  <2>1. 1 \in Int /\ NFS_DATA_BLKS \in Int /\ ~ (1 > NFS_DATA_BLKS)
    BY NanosFSAssumption
  <2>2. Cardinality(1 .. NFS_DATA_BLKS) = NFS_DATA_BLKS - 1 + 1
    BY <2>1, FS_Interval
  <2> QED BY <2>1, <2>2 DEF Blks
<1> QED BY <1>2, <1>3

\* A place that the file reaches has a block, and lies in the inode's table.
LEMMA ReachedHasBlk ==
  ASSUME NEW ino, NEW n \in Nat, HasBlks(ino, n), NEW k \in Nat, NFS_BLK_SZ * k < n
  PROVE  k \in Slots /\ ino.db[k] # 0
<1> DEFINE o == NFS_BLK_SZ * k
<1>1. NFS_BLK_SZ \in Nat \ {0} /\ 0 \in 0 .. NFS_BLK_SZ - 1 /\ o \in Nat
  BY TimesInt, NanosFSAssumption
<1>2. o = NFS_BLK_SZ * k + 0
  BY <1>1
<1>3. o \div NFS_BLK_SZ = k
  <2> HIDE DEF o
  <2> QED BY <1>1, <1>2, DivUnique
<1>4. o \in 0 .. n - 1
  BY <1>1
<1> HIDE DEF o
<1> QED BY <1>3, <1>4 DEF HasBlks

\* The blocks that the write in progress has taken, and which stand for cells, are one for
\* each place that the file gains, and none is taken twice.
LEMMA GrowthIsGained ==
  ASSUME FsInv, FilesInv, BlocksUsed, call.op = "write", ~call.fresh
  PROVE  Cardinality(blkbmp) =
           Cardinality(blkbmp \ Growth)
           + Cardinality(Files!Gained(Ino(call.fd).sz, Reach(call.fd)))
<1> PICK f, sz, n : f = call.fd /\ sz = Ino(f).sz /\ n = Reach(f)
  OBVIOUS
<1> DEFINE db == Ino(f).db
           gained == Files!Gained(sz, n)
           grown == blkbmp \cap Growth
           h == [k \in gained |-> db[k]]
<1>1. /\ f \in Fds /\ fds[f].open /\ sz \in Nat /\ n \in Nat /\ HasBlks(Ino(f), n)
      /\ db \in [Slots -> Blks \cup {0}] /\ 0 \notin Blks /\ blkbmp \subseteq Blks
  BY CallFile, FileHasBlks, FdType DEF FsInv, CodeTypeOK, Blks
<1>2. gained = {k \in Slots : sz <= NFS_BLK_SZ * k /\ NFS_BLK_SZ * k < n}
  BY DEF Files!Gained, Slots
<1>3. Growth = {db[k] : k \in {m \in Slots : sz <= NFS_BLK_SZ * m}}
  BY DEF Growth
<1> HIDE DEF db
<1>4. ASSUME NEW k \in Slots PROVE db[k] # 0 <=> NFS_BLK_SZ * k < n
  <2>1. db[k] # 0 => NFS_BLK_SZ * k < n
    BY <1>1 DEF BlocksUsed, Fresh, db
  <2>2. k \in Nat
    BY DEF Slots
  <2> QED BY <1>1, <2>1, <2>2, ReachedHasBlk DEF db
<1>5. \A k, m \in Slots : db[k] # 0 => db[k] \in blkbmp /\ (db[k] = db[m] => k = m)
  BY <1>1 DEF FsInv, BlocksAccounted, db
<1> HIDE DEF gained
<1>6. \A k \in gained : k \in Slots /\ db[k] # 0 /\ db[k] \in grown
  BY <1>2, <1>3, <1>4, <1>5
<1>7. ASSUME NEW b \in grown PROVE \E k \in gained : h[k] = b
  <2>1. PICK k \in Slots : b = db[k] /\ sz <= NFS_BLK_SZ * k
    BY <1>3
  <2>2. db[k] # 0
    BY <1>1, <2>1
  <2> QED BY <1>2, <1>4, <2>1, <2>2
<1>8. h \in [gained -> grown]
  BY <1>6
<1>9. \A k, m \in gained : h[k] = h[m] => k = m
  BY <1>5, <1>6
<1> HIDE DEF grown, h
<1>10. h \in Bijection(gained, grown)
  BY <1>7, <1>8, <1>9, Fun_IsBij
<1>11. ExistsBijection(grown, gained)
  BY <1>10, Fun_BijInverse DEF ExistsBijection
<1>12. IsFiniteSet(grown) /\ IsFiniteSet(blkbmp) /\ IsFiniteSet(blkbmp \ Growth)
  BY <1>1, BlksCount DEF grown
<1>13. Cardinality(gained) = Cardinality(grown)
  BY <1>11, <1>12, FS_Bijection
<1>14. blkbmp = (blkbmp \ Growth) \cup grown /\ (blkbmp \ Growth) \cap grown = {}
  BY DEF grown
<1>15. Cardinality(blkbmp) =
         Cardinality(blkbmp \ Growth) + Cardinality(grown) - Cardinality((blkbmp \ Growth) \cap grown)
  <2>1. \A S, T : IsFiniteSet(S) /\ IsFiniteSet(T) =>
          Cardinality(S \cup T) = Cardinality(S) + Cardinality(T) - Cardinality(S \cap T)
    BY FS_Union
  <2>2. Cardinality((blkbmp \ Growth) \cup grown) =
          Cardinality(blkbmp \ Growth) + Cardinality(grown)
          - Cardinality((blkbmp \ Growth) \cap grown)
    BY <1>12, <2>1, Zenon
  <2> QED BY <1>14, <2>2
<1>16. /\ Cardinality((blkbmp \ Growth) \cap grown) = 0
       /\ Cardinality(blkbmp \ Growth) \in Nat /\ Cardinality(grown) \in Nat
  BY <1>12, <1>14, FS_EmptySet, FS_CardinalityType
<1> QED BY <1>13, <1>15, <1>16 DEF gained

\* Before the write takes a block, and when a write begins, none counts as taken by it.
LEMMA GrowthBegins ==
  ASSUME FsInv, FilesInv, BlocksUsed, NEW f \in Fds, fds[f].open, call.op # "write",
         call'.op = "write", call'.fd = f, UNCHANGED <<fds, blkbmp>>
  PROVE  blkbmp' \ Growth' = blkbmp \ Growth
<1>1. Growth = {}
  BY DEF Growth
<1>2. Ino(f)' = Ino(f) /\ blkbmp \subseteq Blks
  BY DEF Ino, FsInv, CodeTypeOK
<1>3. Growth' = {Ino(f).db[k] : k \in {m \in Slots : Ino(f).sz <= NFS_BLK_SZ * m}}
  BY <1>2 DEF Growth
<1>4. ASSUME NEW k \in Slots, Ino(f).sz <= NFS_BLK_SZ * k PROVE Ino(f).db[k] = 0
  <2>1. Ino(f).sz \in Nat /\ NFS_BLK_SZ * k \in Nat /\ Reach(f) = Ino(f).sz /\ ~Fresh(f, k)
    BY FdType, TimesInt, NanosFSAssumption DEF FsInv, Slots, Reach, Writes, Fresh
  <2> QED BY <1>4, <2>1 DEF BlocksUsed
<1>5. Growth' \subseteq {0}
  BY <1>3, <1>4
<1>6. 0 \notin blkbmp
  BY <1>2 DEF Blks
<1> QED BY <1>1, <1>5, <1>6

\* The block that alloc_blk() gives counts as taken only when the write returns.
LEMMA GrowthGrows ==
  ASSUME FsInv, FilesInv, AllocBlk
  PROVE  blkbmp' \ Growth' = blkbmp \ Growth
<1> PICK f : f = call.fd
  OBVIOUS
<1> PICK b \in Blks : /\ b \in FreeBlks /\ blkbmp' = blkbmp \cup {b}
                      /\ fds' = [fds EXCEPT ![call.fd].ino.db[Slot] = b]
  BY DEF AllocBlk, IsFirst
<1>0. /\ call.op = "write" /\ Slot \in Slots /\ Current = 0
      /\ call' = [call EXCEPT !.fresh = TRUE]
  BY DEF AllocBlk, InCall
<1>1. /\ f \in Fds /\ fds[f].open /\ call \in WriteCalls /\ Ino(f).sz \in Nat
      /\ HasBlks(Ino(f), Ino(f).sz) /\ blkbmp \subseteq Blks
  BY <1>0, CallFile, WriteFile, FileHasBlks DEF FsInv, CodeTypeOK
<1>2. call'.op = "write" /\ call'.fd = f
  BY <1>0, <1>1 DEF WriteCalls
<1>3. /\ fds'[f].ino.db[Slot] = b /\ fds'[f].ino.sz = Ino(f).sz
      /\ \A m \in Slots : m # Slot => fds'[f].ino.db[m] = Ino(f).db[m]
  BY <1>0, <1>1, AllocFd DEF FsInv, Ino
<1> DEFINE S == {m \in Slots : Ino(f).sz <= NFS_BLK_SZ * m}
<1>4. Growth = {Ino(f).db[k] : k \in S}
  BY <1>0 DEF Growth
<1>5. Growth' = {fds'[f].ino.db[k] : k \in S}
  BY <1>2, <1>3 DEF Growth, Ino
<1>6. Slot \in S /\ Ino(f).db[Slot] = 0
  <2>1. Ino(f).db[Slot] = 0
    BY <1>0 DEF Current
  <2>2. Slot \in Nat /\ NFS_BLK_SZ * Slot \in Nat
    BY <1>0, TimesInt, NanosFSAssumption DEF Slots
  <2>3. ~ (NFS_BLK_SZ * Slot < Ino(f).sz)
    BY <1>1, <2>1, <2>2, ReachedHasBlk
  <2> QED BY <1>0, <1>1, <2>1, <2>2, <2>3
<1>7. \A k \in S : k \in Slots
  OBVIOUS
<1> HIDE DEF S
<1>8. b \notin blkbmp /\ 0 \notin blkbmp /\ b # 0
  BY <1>1 DEF FreeBlks, Blks
<1>9. b \in Growth'
  BY <1>3, <1>5, <1>6
<1>10. ASSUME NEW x \in blkbmp PROVE x \in Growth' <=> x \in Growth
  <2>1. x # b /\ x # 0
    BY <1>8
  <2>2. ASSUME x \in Growth' PROVE x \in Growth
    <3>1. PICK k \in S : x = fds'[f].ino.db[k]
      BY <1>5, <2>2
    <3>2. k # Slot
      BY <1>3, <2>1, <3>1
    <3> QED BY <1>3, <1>4, <1>7, <3>1, <3>2
  <2>3. ASSUME x \in Growth PROVE x \in Growth'
    <3>1. PICK k \in S : x = Ino(f).db[k]
      BY <1>4, <2>3
    <3>2. k # Slot
      BY <1>6, <2>1, <3>1
    <3> QED BY <1>3, <1>5, <1>7, <3>1, <3>2
  <2> QED BY <2>2, <2>3
<1> QED BY <1>8, <1>9, <1>10

(***************************************************************************)
(* NanosFS implements FileStore: the steps.                                *)
(***************************************************************************)
StoreInv == FsInv /\ FilesInv /\ Bounds /\ BlocksUsed

\* What the caller knows of an open descriptor.
LEMMA OpenFd ==
  ASSUME FsInv, FilesInv, NEW f \in Fds, fds[f].open
  PROVE  /\ mounted /\ Files!IsOpen(f)
         /\ File[f] = [cells |-> promised[Ino(f).name], pos |-> fds[f].pos]
         /\ File[f].cells = promised[Ino(f).name] /\ File[f].pos = fds[f].pos
         /\ Ino(f).name \in Names
         /\ promised[Ino(f).name] \in Seq(Cells) /\ Len(promised[Ino(f).name]) = Ino(f).sz
         /\ fds[f].pos \in Nat /\ Ino(f).sz \in Nat /\ fds[f].pos <= Ino(f).sz
<1>1. mounted /\ Ino(f).name \in Names /\ fds[f].pos \in Nat /\ Ino(f).sz \in Nat
  BY FdType DEF FsInv, CallSane, FdsSane
<1>2. /\ promised[Ino(f).name] \in Seq(Cells) /\ Len(promised[Ino(f).name]) = Ino(f).sz
      /\ fds[f].pos <= Ino(f).sz
  BY DEF FilesInv, FileKept, TransferSane
<1>3. File[f] = [cells |-> promised[Ino(f).name], pos |-> fds[f].pos]
  BY DEF File
<1>4. File[f].cells = promised[Ino(f).name] /\ File[f].pos = fds[f].pos
  BY <1>3
<1>5. File[f] # Files!Unused
  <2>1. File[f].cells # [cells |-> NoFile].cells
    BY <1>2, <1>4, NanosFSAssumption
  <2> QED BY <2>1 DEF Files!Unused
<1> QED BY <1>1, <1>2, <1>3, <1>4, <1>5 DEF Files!IsOpen

\* A descriptor that is not open is unused.
LEMMA ClosedFd ==
  ASSUME NEW f \in Fds, ~fds[f].open
  PROVE  File[f] = Files!Unused /\ ~Files!IsOpen(f)
BY DEF File, Files!Unused, Files!IsOpen

\* A task that is in no call finds the store quiet.
LEMMA IdleIsQuiet ==
  ASSUME FsInv, Idle
  PROVE  Files!Quiet /\ Request = Files!Nothing /\ call = NoCall /\ Growth = {}
<1>1. call = NoCall
  BY IdleIsNoCall DEF Idle, FsInv
<1> QED BY <1>1 DEF Idle, Request, Growth, NoCall, Files!Quiet, Files!Nothing

\* A step that changes one file, and the promise of its name only.
LEMMA OneFile ==
  ASSUME FsInv, NEW f \in Fds, NEW n \in Names, NEW x,
         \A g \in Fds : g # f => fds'[g] = fds[g] /\ (fds[g].open => Ino(g).name # n),
         \A m \in Names : m # n => promised'[m] = promised[m],
         File'[f] = x
  PROVE  File' = [File EXCEPT ![f] = x]
<1>1. ASSUME NEW g \in Fds, g # f PROVE File'[g] = File[g]
  <2>1. CASE fds[g].open
    <3>1. Ino(g)' = Ino(g) /\ Ino(g).name \in Names /\ Ino(g).name # n
      BY <1>1, <2>1 DEF FsInv, FdsSane, Ino
    <3>2. promised'[Ino(g)'.name] = promised[Ino(g).name]
      BY <3>1
    <3> QED BY <1>1, <2>1, <3>2 DEF File
  <2>2. CASE ~fds[g].open
    BY <1>1, <2>2 DEF File
  <2> QED BY <2>1, <2>2
<1>2. DOMAIN File = Fds /\ DOMAIN File' = Fds
  BY DEF File
<1>3. File = [g \in Fds |-> File[g]] /\ File' = [g \in Fds |-> File'[g]]
  BY DEF File
<1> QED BY <1>1, <1>2, <1>3

LEMMA InitIsInit ==
  ASSUME Init PROVE Files!Init
<1>1. File = [f \in Fds |-> Files!Unused]
  BY DEF Init, File, Closed, Files!Unused
<1>2. Request = Files!Nothing
  BY DEF Init, Request, NoCall, Files!Nothing
<1>3. Cardinality(blkbmp \ Growth) = 0
  <2>1. blkbmp \ Growth = {}
    BY DEF Init
  <2> QED BY <2>1, FS_EmptySet
<1> QED BY <1>1, <1>2, <1>3 DEF Init, Files!Init

\* Nothing is in memory when the store is mounted.
LEMMA MountIsMount ==
  ASSUME FsInv, MountAndFormat \/ Mount PROVE Files!Mount
<1>1. /\ ~mounted /\ mounted' /\ UNCHANGED <<fds, call>>
      /\ blkbmp = {} /\ blkbmp' = {} /\ \A f \in Fds : ~fds[f].open
  BY DEF MountAndFormat, Mount, FsInv, CallSane
<1>2. File' = File /\ Request' = Request
  BY <1>1 DEF File, Request
<1>3. blkbmp' \ Growth' = blkbmp \ Growth
  BY <1>1
<1> QED BY <1>1, <1>2, <1>3 DEF Files!Mount

LEMMA CutIsCut ==
  ASSUME PowerCut PROVE Files!PowerCut
<1>1. /\ mounted /\ mounted' = FALSE /\ fds' = [f \in Fds |-> Closed] /\ call' = NoCall
      /\ blkbmp' = {}
  BY DEF PowerCut
<1>2. File' = [f \in Fds |-> Files!Unused]
  BY <1>1 DEF File, Closed, Files!Unused
<1>3. Request' = Files!Nothing
  BY <1>1 DEF Request, NoCall, Files!Nothing
<1>4. Cardinality(blkbmp' \ Growth') = 0
  <2>1. blkbmp' \ Growth' = {}
    BY <1>1
  <2> QED BY <2>1, FS_EmptySet
<1> QED BY <1>1, <1>2, <1>3, <1>4 DEF Files!PowerCut

\* The file that is opened may hold anything that fits; what it is then to hold is what
\* its inode shows.
LEMMA OpenIsOpen ==
  ASSUME FsInv, FilesInv, NEW n \in Names, OpenFile(n)
  PROVE  \E f \in Fds : Files!Open(f)
<1> PICK f \in Fds, i \in Inodes :
       /\ f \in FreeFds /\ i \in Named(n)
       /\ fds' = [fds EXCEPT ![f] = OpenedFd(i, inodes[i])]
       /\ promised' = [promised EXCEPT ![n] = Shown(inodes[i])]
  BY DEF OpenFile, IsFirst
<1> DEFINE s == Shown(inodes[i])
<1>0. /\ Idle /\ NotOpen(n) /\ UNCHANGED <<mounted, call, blkbmp>>
      /\ i \in inobmp /\ inodes[i].name = n /\ ~fds[f].open
  BY DEF OpenFile, Named, FreeFds
<1>1. Files!Quiet /\ ~Files!IsOpen(f) /\ call = NoCall /\ Growth = {}
  BY <1>0, IdleIsQuiet, ClosedFd
<1>2. inodes[i] \in InodeRecs /\ inodes[i].sz \in Nat /\ HasBlks(inodes[i], inodes[i].sz)
  BY <1>0 DEF FsInv, CodeTypeOK, InodeRecs, FilesInv
<1>3. s \in Files!Contents
  <2>1. s \in Seq(Cells) /\ Len(s) = inodes[i].sz
    BY <1>2, ShownFacts
  <2>2. inodes[i].sz \in 0 .. NFS_DIRECT_BLKS * NFS_BLK_SZ
    <3>1. inodes[i].sz <= NFS_DIRECT_BLKS * NFS_BLK_SZ
      BY <1>2, FileFits
    <3> QED BY <1>2, <3>1, TimesInt, NanosFSAssumption
  <2> HIDE DEF s
  <2>3. s \in [1 .. inodes[i].sz -> Cells]
    BY <2>1
  <2> QED BY <2>2, <2>3 DEF Files!Contents
<1>4. /\ fds'[f] = OpenedFd(i, inodes[i]) /\ \A g \in Fds : g # f => fds'[g] = fds[g]
      /\ promised'[n] = s /\ \A m \in Names : m # n => promised'[m] = promised[m]
  BY DEF FsInv, CodeTypeOK, FilesInv
<1>5. File'[f] = [cells |-> s, pos |-> 0]
  <2>1. fds'[f].open /\ Ino(f)'.name = n /\ fds'[f].pos = 0
    BY <1>0, <1>4 DEF OpenedFd, Ino
  <2> HIDE DEF s
  <2> QED BY <1>4, <2>1 DEF File
<1> HIDE DEF s
<1>6. File' = [File EXCEPT ![f] = [cells |-> s, pos |-> 0]]
  <2>1. \A g \in Fds : fds[g].open => Ino(g).name # n
    BY <1>0 DEF NotOpen, Ino
  <2> QED BY <1>4, <1>5, <2>1, OneFile
<1>7. Request' = Request /\ blkbmp' \ Growth' = blkbmp \ Growth
  BY <1>0, <1>1 DEF Request, Growth, NoCall
<1>8. Files!Open(f)
  BY <1>0, <1>1, <1>3, <1>6, <1>7 DEF Files!Open
<1> QED BY <1>8

LEMMA CreateIsOpen ==
  ASSUME FsInv, FilesInv, NEW n \in Names, CreateFile(n)
  PROVE  \E f \in Fds : Files!Open(f)
<1> PICK f \in Fds, i \in Inodes :
       /\ f \in FreeFds
       /\ fds' = [fds EXCEPT ![f] = OpenedFd(i, NewInode(n))]
  BY DEF CreateFile, IsFirst
<1>0. /\ Idle /\ NotOpen(n) /\ UNCHANGED <<mounted, call, blkbmp>> /\ ~fds[f].open
      /\ promised' = [promised EXCEPT ![n] = <<>>]
  BY DEF CreateFile, FreeFds
<1>1. Files!Quiet /\ ~Files!IsOpen(f) /\ call = NoCall /\ Growth = {}
  BY <1>0, IdleIsQuiet, ClosedFd
<1>2. <<>> \in Files!Contents
  <2>1. <<>> \in [1 .. 0 -> Cells]
    OBVIOUS
  <2>2. 0 \in 0 .. NFS_DIRECT_BLKS * NFS_BLK_SZ
    BY TimesInt, NanosFSAssumption
  <2> QED BY <2>1, <2>2 DEF Files!Contents
<1>3. /\ fds'[f] = OpenedFd(i, NewInode(n)) /\ \A g \in Fds : g # f => fds'[g] = fds[g]
      /\ promised'[n] = <<>> /\ \A m \in Names : m # n => promised'[m] = promised[m]
  BY <1>0 DEF FsInv, CodeTypeOK, FilesInv
<1>4. File'[f] = [cells |-> <<>>, pos |-> 0]
  <2>1. fds'[f].open /\ Ino(f)'.name = n /\ fds'[f].pos = 0
    BY <1>3 DEF OpenedFd, Ino, NewInode
  <2> QED BY <1>3, <2>1 DEF File
<1>5. File' = [File EXCEPT ![f] = [cells |-> <<>>, pos |-> 0]]
  <2>1. \A g \in Fds : fds[g].open => Ino(g).name # n
    BY <1>0 DEF NotOpen, Ino
  <2> QED BY <1>3, <1>4, <2>1, OneFile
<1>6. Request' = Request /\ blkbmp' \ Growth' = blkbmp \ Growth
  BY <1>0, <1>1 DEF Request, Growth, NoCall
<1>7. Files!Open(f)
  BY <1>0, <1>1, <1>2, <1>5, <1>6 DEF Files!Open
<1> QED BY <1>7

LEMMA CloseIsClose ==
  ASSUME FsInv, FilesInv, NEW f \in Fds, Close(f) PROVE Files!Close(f)
<1>0. /\ Idle /\ fds[f].open /\ UNCHANGED <<mounted, call, promised, blkbmp>>
      /\ fds' = [fds EXCEPT ![f] = Closed]
  BY DEF Close
<1>1. Files!Quiet /\ Files!IsOpen(f) /\ call = NoCall /\ Growth = {} /\ Ino(f).name \in Names
  BY <1>0, IdleIsQuiet, OpenFd
<1>2. fds'[f] = Closed /\ \A g \in Fds : g # f => fds'[g] = fds[g]
  BY <1>0 DEF FsInv, CodeTypeOK
<1>3. File'[f] = Files!Unused
  BY <1>2 DEF File, Closed, Files!Unused
<1>4. File' = [File EXCEPT ![f] = Files!Unused]
  <2>1. \A g \in Fds : g # f /\ fds[g].open => Ino(g).name # Ino(f).name
    BY <1>0 DEF FsInv, FdsSane
  <2> QED BY <1>0, <1>1, <1>2, <1>3, <2>1, OneFile
<1>5. Request' = Request /\ blkbmp' \ Growth' = blkbmp \ Growth
  BY <1>0, <1>1 DEF Request, Growth, NoCall
<1> QED BY <1>0, <1>1, <1>4, <1>5 DEF Files!Close

\* A read asks for no more than what is left of the file.
LEMMA StartReadIsStartRead ==
  ASSUME FsInv, FilesInv, NEW f \in Fds, NEW len \in 1 .. MaxLen, StartRead(f, len)
  PROVE  Files!StartRead(f, len)
<1> DEFINE rest == Ino(f).sz - fds[f].pos
<1>0. /\ Idle /\ fds[f].open /\ fds[f].pos < Ino(f).sz
      /\ UNCHANGED <<mounted, fds, promised, blkbmp>>
      /\ call' = [op |-> "read", fd |-> f, len |-> MinOf(len, rest),
                  done |-> 0, victim |-> 0, got |-> <<>>]
  BY DEF StartRead
<1>1. Files!Quiet /\ Files!IsOpen(f) /\ Growth = {}
  BY <1>0, IdleIsQuiet, OpenFd
<1>2. Len(File[f].cells) - File[f].pos = rest /\ rest > 0
  <2>1. /\ File[f].cells = promised[Ino(f).name] /\ File[f].pos = fds[f].pos
        /\ Len(promised[Ino(f).name]) = Ino(f).sz
        /\ fds[f].pos \in Nat /\ Ino(f).sz \in Nat
    BY <1>0, OpenFd
  <2>2. Len(File[f].cells) = Ino(f).sz
    BY <2>1
  <2> QED BY <1>0, <2>1, <2>2
<1>3. File' = File
  BY <1>0 DEF File, Ino
<1>4. /\ Request' = [op |-> "read", by |-> f, got |-> <<>>,
                     len |-> IF len <= rest THEN len ELSE rest]
      /\ blkbmp' \ Growth' = blkbmp \ Growth
  BY <1>0, <1>1 DEF Request, MinOf, Growth
<1> HIDE DEF rest
<1> QED BY <1>0, <1>1, <1>2, <1>3, <1>4 DEF Files!StartRead

LEMMA StartWriteIsStartWrite ==
  ASSUME FsInv, FilesInv, BlocksUsed, NEW f \in Fds, NEW len \in 1 .. MaxLen, NEW d \in Data,
         StartWrite(f, len, d)
  PROVE  Files!StartWrite(f, len, d)
<1>0. /\ Idle /\ fds[f].open /\ UNCHANGED <<mounted, fds, promised, blkbmp>>
      /\ call' = [op |-> "write", fd |-> f, len |-> len, done |-> 0, victim |-> 0,
                  value |-> d, fresh |-> FALSE]
  BY DEF StartWrite
<1>1. Files!Quiet /\ Files!IsOpen(f)
  BY <1>0, IdleIsQuiet, OpenFd
<1>2. File' = File
  BY <1>0 DEF File, Ino
<1>3. Request' = [op |-> "write", by |-> f, len |-> len, value |-> d]
  BY <1>0 DEF Request
<1>4. blkbmp' \ Growth' = blkbmp \ Growth
  <2>1. call.op # "write" /\ call'.op = "write" /\ call'.fd = f
    BY <1>0 DEF Idle
  <2> QED BY <1>0, <2>1, GrowthBegins
<1> QED BY <1>0, <1>1, <1>2, <1>3, <1>4 DEF Files!StartWrite

\* What a read has got is the part of the file behind the position.
LEMMA GotPart ==
  FsInv /\ FilesInv /\ call.op = "read" =>
    call.got = SubSeq(promised[Ino(call.fd).name], fds[call.fd].pos + 1,
                      fds[call.fd].pos + call.done)
<1> SUFFICES ASSUME FsInv, FilesInv, call.op = "read"
             PROVE  call.got = SubSeq(promised[Ino(call.fd).name], fds[call.fd].pos + 1,
                                      fds[call.fd].pos + call.done)
  OBVIOUS
<1> PICK f, from, sz, n, written :
      /\ f = call.fd /\ from = fds[f].pos /\ sz = Ino(f).sz /\ n = call.done
      /\ written = promised[Ino(f).name]
  OBVIOUS
<1>1. /\ f \in Fds /\ fds[f].open /\ from \in Nat /\ n \in Nat /\ call.len \in Nat
      /\ n <= call.len /\ sz \in Nat
  BY CallFile
<1>2. written \in Seq(Cells) /\ Len(written) = sz
  BY <1>1, OpenFd
<1>3. /\ from + call.len <= sz /\ Len(call.got) = n /\ call.got \in Seq(Cells)
      /\ \A k \in 1 .. n : call.got[k] = written[from + k]
  BY CallFacts DEF FilesInv, TransferSane, ReadCalls, FsInv
<1> DEFINE part == SubSeq(written, from + 1, from + n)
<1>4. part \in Seq(Cells) /\ Len(part) = n /\ \A k \in 1 .. n : part[k] = written[from + k]
  <2>1. \A k \in from + 1 .. from + n : written[k] \in Cells
    <3>0. from + n <= sz
      BY <1>1, <1>3
    <3>1. \A k \in from + 1 .. from + n : k \in 1 .. sz
      BY <1>1, <3>0
    <3> QED BY <1>2, <3>1
  <2>2. /\ part \in Seq(Cells)
        /\ Len(part) = IF from + 1 <= from + n THEN (from + n) - (from + 1) + 1 ELSE 0
        /\ \A k \in 1 .. (from + n) - (from + 1) + 1 : part[k] = written[(from + 1) + k - 1]
    <3>1. from + 1 \in Int /\ from + n \in Int
      BY <1>1
    <3> QED BY SMTT(60), <2>1, <3>1, SubSeqProperties
  <2> HIDE DEF part
  <2>3. /\ (from + n) - (from + 1) + 1 = n
        /\ \A k \in 1 .. n : (from + 1) + k - 1 = from + k
    BY <1>1
  <2>4. Len(part) = n
    BY <1>1, <2>2
  <2>5. ASSUME NEW k \in 1 .. n PROVE part[k] = written[from + k]
    BY <2>2, <2>3
  <2> QED BY <2>2, <2>4, <2>5
<1> HIDE DEF part
<1>5. call.got = part
  BY <1>3, <1>4, SeqEqual
<1> QED BY <1>3, <1>5 DEF part

\* The next block delivers the next part of the file.
LEMMA ReadBlkIsDeliver ==
  ASSUME FsInv, FilesInv, FsInv', FilesInv', ReadBlk
  PROVE  Files!Deliver
<1> DEFINE part == SubSeq(Block(Current), InBlk + 1, InBlk + Chunk)
<1> PICK f, from, written :
      f = call.fd /\ from = fds[f].pos /\ written = promised[Ino(f).name]
  OBVIOUS
<1>0. /\ UNCHANGED <<mounted, fds, promised, blkbmp>>
      /\ call.op = "read" /\ call.done < call.len
      /\ call' = [call EXCEPT !.done = @ + Chunk, !.got = @ \o part]
  BY DEF ReadBlk, InCall
<1>1. /\ f \in Fds /\ fds[f].open /\ call.done \in Nat /\ call.len \in Nat
      /\ call \in ReadCalls /\ Chunk \in 1 .. call.len - call.done
  BY <1>0, CallFile, CallFacts, TransferFacts DEF FsInv
<1> HIDE DEF part
<1>2. /\ call'.op = "read" /\ call'.fd = f /\ call'.len = call.len
      /\ call'.done = call.done + Chunk
  BY <1>0, <1>1 DEF ReadCalls
<1>3. /\ Len(call.got) = call.done
      /\ call'.got = SubSeq(written, from + 1, from + call'.done)
  <2>1. Len(call.got) = call.done
    BY <1>0 DEF FilesInv, TransferSane
  <2>2. (FsInv /\ FilesInv /\ call.op = "read" =>
           call.got = SubSeq(promised[Ino(call.fd).name], fds[call.fd].pos + 1,
                             fds[call.fd].pos + call.done))'
    BY GotPart, PTL
  <2>3. Ino(call.fd)' = Ino(f)
    BY <1>0, <1>2 DEF Ino
  <2> QED BY <1>0, <1>2, <2>1, <2>2, <2>3
<1>4. /\ Request = [op |-> "read", by |-> f, len |-> call.len, got |-> call.got]
      /\ Request' = [op |-> "read", by |-> f, len |-> call.len, got |-> call'.got]
  BY <1>0, <1>2 DEF Request
<1>5. File' = File /\ blkbmp' \ Growth' = blkbmp \ Growth
  BY <1>0, <1>2 DEF File, Ino, Growth
<1>6. File[f].pos = from /\ File[f].cells = written
  BY <1>1, OpenFd
<1>7. call'.done \in Len(call.got) + 1 .. call.len
  BY <1>1, <1>2, <1>3
<1>8. Request' = [Request EXCEPT !.got =
                    SubSeq(File[f].cells, File[f].pos + 1, File[f].pos + call'.done)]
  <2>1. call'.got = SubSeq(File[f].cells, File[f].pos + 1, File[f].pos + call'.done)
    BY <1>3, <1>6
  <2>2. [Request EXCEPT !.got = call'.got] =
          [op |-> "read", by |-> f, len |-> call.len, got |-> call'.got]
    BY <1>4
  <2> QED BY <1>4, <2>1, <2>2
<1>9. Request.op = "read" /\ Request.by = f /\ Request.got = call.got /\ Request.len = call.len
  BY <1>4
<1>10. \E n \in Len(Request.got) + 1 .. Request.len :
         Request' = [Request EXCEPT !.got =
           SubSeq(File[Request.by].cells, File[Request.by].pos + 1, File[Request.by].pos + n)]
  BY <1>7, <1>8, <1>9, Zenon
<1> QED BY <1>0, <1>5, <1>9, <1>10, Zenon DEF Files!Deliver

\* A read returns when all is delivered: a file has a block at each of its cells.
LEMMA ReadReturnIsReturn ==
  ASSUME FsInv, FilesInv, ReadReturn
  PROVE  Files!ReturnRead
<1> PICK f, from, sz, n : f = call.fd /\ from = fds[f].pos /\ sz = Ino(f).sz /\ n = call.len
  OBVIOUS
<1>0. /\ UNCHANGED <<mounted, promised, blkbmp>> /\ call.op = "read" /\ call' = NoCall
      /\ call.done >= n \/ Current = 0
      /\ fds' = [fds EXCEPT ![f].pos = @ + call.done]
  BY DEF ReadReturn, InCall
<1>1. /\ f \in Fds /\ fds[f].open /\ HasBlks(Ino(f), sz)
      /\ from \in Nat /\ call.done \in Nat /\ n \in Nat /\ call.done <= n
      /\ sz \in Nat /\ Offset = from + call.done
  BY <1>0, CallFile, FileHasBlks
<1>2. from + n <= sz /\ Len(call.got) = call.done
  BY <1>0 DEF FilesInv, TransferSane
<1>3. call.done = n
  <2> SUFFICES ASSUME call.done < n PROVE FALSE
    BY <1>1
  <2>1. Current = 0
    BY <1>0, <1>1
  <2>2. Offset \in 0 .. sz - 1
    <3>1. Offset \in Nat /\ Offset < sz
      BY SMTT(30), <1>1, <1>2
    <3> QED BY <1>1, <3>1
  <2>3. Slot \in Slots /\ Ino(f).db[Slot] # 0
    BY <1>1, <2>2 DEF HasBlks, Slot
  <2> QED BY <2>1, <2>3 DEF Current
<1>4. /\ Request = [op |-> "read", by |-> f, len |-> n, got |-> call.got]
      /\ Request' = Files!Nothing
  BY <1>0 DEF Request, NoCall, Files!Nothing
<1>5. blkbmp' \ Growth' = blkbmp \ Growth
  BY <1>0 DEF Growth, NoCall
<1>6. File' = [File EXCEPT ![f].pos = @ + n]
  <2>1. /\ fds'[f].open /\ fds'[f].pos = from + n /\ fds'[f].ino = fds[f].ino
        /\ \A g \in Fds : g # f => fds'[g] = fds[g]
    BY <1>0, <1>1, <1>3 DEF FsInv, CodeTypeOK, FdRecs
  <2> DEFINE s == promised[Ino(f).name]
  <2>2. File[f] = [cells |-> s, pos |-> from]
    BY <1>1 DEF File
  <2>3. File'[f] = [cells |-> s, pos |-> from + n]
    BY <1>0, <1>1, <2>1 DEF File, Ino
  <2>4. /\ Ino(f).name \in Names
        /\ \A g \in Fds : g # f /\ fds[g].open => Ino(g).name # Ino(f).name
    BY <1>1 DEF FsInv, FdsSane
  <2> HIDE DEF s
  <2>5. File' = [File EXCEPT ![f] = [cells |-> s, pos |-> from + n]]
    BY <1>0, <1>1, <2>1, <2>3, <2>4, OneFile
  <2>6. [File[f] EXCEPT !.pos = @ + n] = [cells |-> s, pos |-> from + n]
    BY <2>2
  <2> QED BY <2>5, <2>6
<1>7. /\ Request.op = "read" /\ Request.by = f /\ Request.len = n /\ Request.got = call.got
  BY <1>4
<1> QED BY <1>0, <1>2, <1>3, <1>4, <1>5, <1>6, <1>7 DEF Files!ReturnRead

\* A write that stops short of its request has come to the end of the inode's table or
\* has found no free block.
LEMMA WriteReturnIsReturn ==
  ASSUME StoreInv, StoreInv', WriteReturn
  PROVE  Files!ReturnWrite(call.done)
<1> USE DEF StoreInv
<1> PICK f, from, name, n, len, d, end :
      /\ f = call.fd /\ from = fds[f].pos /\ name = Ino(f).name
      /\ n = call.done /\ len = call.len /\ d = call.value /\ end = from + n
  OBVIOUS
<1> DEFINE new == [Ino(f) EXCEPT !.sz = SizeAfter(@, end)]
           was == promised[name]
           is  == Files!PutOver(was, from, n, d)
<1>0. /\ UNCHANGED <<mounted, blkbmp>> /\ mounted /\ call.op = "write" /\ call' = NoCall
      /\ n >= len \/ Slot \notin Slots \/ FreeBlks = {}
      /\ fds' = [fds EXCEPT ![f].pos = end, ![f].ino = new]
      /\ promised' = [promised EXCEPT ![new.name] = Overwritten(@, from, n, d)]
  BY DEF WriteReturn, InCall
<1>1. /\ f \in Fds /\ fds[f].open /\ from \in Nat /\ n \in Nat /\ len \in Nat
      /\ n <= len /\ Offset = end /\ Ino(f).sz \in Nat /\ end \in Nat
  BY <1>0, CallFile
<1>2. /\ call \in WriteCalls /\ d \in Cells
      /\ Reach(f) = IF end > Ino(f).sz THEN end ELSE Ino(f).sz
  BY <1>0, <1>1, WriteFile DEF WriteCalls, Cells
<1>3. /\ File[f] = [cells |-> was, pos |-> from] /\ File[f].cells = was /\ File[f].pos = from
      /\ name \in Names /\ was \in Seq(Cells) /\ Len(was) = Ino(f).sz /\ from <= Len(was)
  BY <1>1, OpenFd
<1>4. new.name = name
  <2>1. Ino(f) \in InodeRecs
    BY <1>1, FdType DEF FsInv
  <2> QED BY <2>1 DEF InodeRecs
<1>5. /\ Overwritten(was, from, n, d) = is
      /\ is \in Seq(Cells) /\ Len(is) = Reach(f)
  <2> HIDE DEF was
  <2>1. Overwritten(was, from, n, d) = is
    BY <1>1, <1>2, <1>3, OverwrittenIsPut
  <2>2. /\ Overwritten(was, from, n, d) \in Seq(Cells)
        /\ Len(Overwritten(was, from, n, d)) = SizeAfter(Len(was), end)
    <3>1. was \in Seq(Cells) /\ from \in Nat /\ from <= Len(was) /\ n \in Nat /\ d \in Cells
      BY <1>1, <1>2, <1>3
    <3>2. \A s \in Seq(Cells), p, m \in Nat, v \in Cells :
            p <= Len(s) => /\ Overwritten(s, p, m, v) \in Seq(Cells)
                           /\ Len(Overwritten(s, p, m, v)) = SizeAfter(Len(s), p + m)
      BY OverwrittenFacts
    <3>3. /\ Overwritten(was, from, n, d) \in Seq(Cells)
          /\ Len(Overwritten(was, from, n, d)) = SizeAfter(Len(was), from + n)
      BY <3>1, <3>2, Zenon
    <3> QED BY <3>3
  <2> HIDE DEF is
  <2> QED BY <1>1, <1>2, <1>3, <2>1, <2>2 DEF SizeAfter
<1> HIDE DEF is
<1>6. promised'[name] = is /\ \A m \in Names : m # name => promised'[m] = promised[m]
  <2>1. promised \in [Names -> Seq(Cells) \cup {NoFile}]
    BY DEF FilesInv
  <2> HIDE DEF new
  <2> QED BY <1>0, <1>3, <1>4, <1>5, <2>1
<1>7. File' = [File EXCEPT ![f] = [cells |-> is, pos |-> end]]
  <2> HIDE DEF new
  <2>1. /\ fds'[f].open /\ fds'[f].pos = end /\ fds'[f].ino = new
        /\ \A g \in Fds : g # f => fds'[g] = fds[g]
    BY <1>0, <1>1 DEF FsInv, CodeTypeOK, FdRecs
  <2>2. File'[f] = [cells |-> is, pos |-> end]
    BY <1>1, <1>4, <1>6, <2>1 DEF File, Ino
  <2>3. \A g \in Fds : g # f /\ fds[g].open => Ino(g).name # name
    BY <1>1 DEF FsInv, FdsSane
  <2> HIDE DEF is
  <2> QED BY <1>1, <1>3, <1>6, <2>1, <2>2, <2>3, OneFile
<1>8. /\ Request = [op |-> "write", by |-> f, len |-> len, value |-> d]
      /\ Request' = Files!Nothing
  BY <1>0 DEF Request, NoCall, Files!Nothing
<1>9. Request.op = "write" /\ Request.by = f /\ Request.len = len /\ Request.value = d
  BY <1>8
<1>10. /\ blkbmp' \ Growth' = blkbmp
       /\ Cardinality(blkbmp) = Cardinality(blkbmp \ Growth)
                                + Cardinality(Files!Gained(Len(was), Len(is)))
  <2>1. blkbmp' \ Growth' = blkbmp
    BY <1>0 DEF Growth, NoCall
  <2>2. ~call.fresh
    BY UsedWriteReturn
  <2>3. Cardinality(blkbmp) = Cardinality(blkbmp \ Growth)
                              + Cardinality(Files!Gained(Ino(f).sz, Reach(f)))
    BY <1>0, <2>2, GrowthIsGained
  <2> QED BY <1>3, <1>5, <2>1, <2>3
<1>11. ASSUME n < len, Slot \notin Slots PROVE end = NFS_DIRECT_BLKS * NFS_BLK_SZ
  <2>1. NFS_DIRECT_BLKS * NFS_BLK_SZ <= end
    <3>0. Offset \in Nat
      BY <1>1
    <3>1. Slot \in Nat /\ InBlk \in 0 .. NFS_BLK_SZ - 1 /\ Offset = NFS_BLK_SZ * Slot + InBlk
      BY <3>0, DivFacts, NanosFSAssumption DEF Slot, InBlk
    <3>2. NFS_DIRECT_BLKS <= Slot /\ NFS_DIRECT_BLKS \in Nat /\ NFS_BLK_SZ \in Nat \ {0}
      BY <1>11, <3>1, NanosFSAssumption DEF Slots
    <3>3. NFS_BLK_SZ * NFS_DIRECT_BLKS <= NFS_BLK_SZ * Slot
      <4>1. CASE NFS_DIRECT_BLKS = Slot
        BY <3>1, <3>2, <4>1, TimesInt
      <4>2. CASE NFS_DIRECT_BLKS < Slot
        <5>1. NFS_BLK_SZ * NFS_DIRECT_BLKS + NFS_BLK_SZ <= NFS_BLK_SZ * Slot
          BY <3>1, <3>2, <4>2, TimesGrows
        <5>2. NFS_BLK_SZ * NFS_DIRECT_BLKS \in Nat /\ NFS_BLK_SZ * Slot \in Nat
          BY <3>1, <3>2, TimesInt
        <5> QED BY <3>2, <5>1, <5>2
      <4> QED BY <3>1, <3>2, <4>1, <4>2
    <3>4. /\ NFS_BLK_SZ * NFS_DIRECT_BLKS \in Nat /\ NFS_BLK_SZ * Slot \in Nat
          /\ NFS_BLK_SZ * NFS_DIRECT_BLKS = NFS_DIRECT_BLKS * NFS_BLK_SZ
      BY <3>1, <3>2, TimesInt
    <3> QED BY <1>1, <3>1, <3>3, <3>4
  <2>2. end <= NFS_DIRECT_BLKS * NFS_BLK_SZ
    <3>1. HasBlks(Ino(f), Reach(f)) /\ Reach(f) \in Nat
      BY <1>1, FileHasBlks
    <3>2. Reach(f) <= NFS_DIRECT_BLKS * NFS_BLK_SZ
      BY <3>1, FileFits
    <3>3. NFS_DIRECT_BLKS * NFS_BLK_SZ \in Nat
      BY TimesInt, NanosFSAssumption
    <3> QED BY <1>1, <1>2, <3>1, <3>2, <3>3
  <2>3. NFS_DIRECT_BLKS * NFS_BLK_SZ \in Nat
    BY TimesInt, NanosFSAssumption
  <2> QED BY <1>1, <2>1, <2>2, <2>3
<1>12. ASSUME FreeBlks = {} PROVE Cardinality(blkbmp' \ Growth') = NFS_DATA_BLKS
  <2>1. blkbmp = Blks
    BY <1>12 DEF FsInv, CodeTypeOK, FreeBlks
  <2> QED BY <1>10, <2>1, BlksCount
<1>13. n < len => \/ end = NFS_DIRECT_BLKS * NFS_BLK_SZ
                  \/ Cardinality(blkbmp' \ Growth') = NFS_DATA_BLKS
  BY <1>0, <1>1, <1>11, <1>12
<1> HIDE DEF was
<1> DEFINE old == File[Request.by]
<1>14. /\ call.done <= Request.len
       /\ File' = [File EXCEPT ![Request.by] =
            [cells |-> Files!PutOver(old.cells, old.pos, call.done, Request.value),
             pos |-> old.pos + call.done]]
  BY <1>1, <1>3, <1>7, <1>9 DEF is
<1>15. /\ Cardinality(blkbmp' \ Growth') =
            Cardinality(blkbmp \ Growth)
            + Files!Cardinality(Files!Gained(Len(old.cells),
                Len(Files!PutOver(old.cells, old.pos, call.done, Request.value))))
       /\ call.done < Request.len =>
            \/ old.pos + call.done = NFS_DIRECT_BLKS * NFS_BLK_SZ
            \/ Cardinality(blkbmp' \ Growth') = NFS_DATA_BLKS
  BY <1>3, <1>9, <1>10, <1>13, SameCardinality DEF is
<1> QED BY <1>0, <1>8, <1>9, <1>14, <1>15, Zenon DEF Files!ReturnWrite

\* Evicting entries, giving a block and writing one are not seen.
LEMMA InsideIsHidden ==
  ASSUME FsInv, FilesInv,
         \/ EvictClean \/ EvictErase \/ EvictStore \/ AllocBlk \/ WriteBlk \/ UNCHANGED vars
  PROVE  UNCHANGED Files!storeVars
<1>0. CodeTypeOK
  BY DEF FsInv
<1>1. ASSUME UNCHANGED <<mounted, fds, promised, blkbmp>>, call'.op = call.op,
             call.op # "none" => call'.fd = call.fd /\ call'.len = call.len,
             call.op = "none" => call' = call,
             call.op = "read" => call'.got = call.got,
             call.op = "write" => call'.value = call.value
      PROVE  UNCHANGED Files!storeVars
  <2>1. File' = File
    BY <1>1 DEF File, Ino
  <2>2. Request' = Request /\ blkbmp' \ Growth' = blkbmp \ Growth
    <3>1. CASE call.op = "none"
      BY <1>1, <3>1 DEF Request, Growth
    <3>2. CASE call.op = "read"
      BY <1>1, <3>2 DEF Request, Growth
    <3>3. CASE call.op = "write"
      <4>1. Ino(call.fd)' = Ino(call.fd)
        BY <1>1, <3>3 DEF Ino
      <4>2. Growth' = Growth
        BY <1>1, <3>3, <4>1 DEF Growth
      <4> QED BY <1>1, <3>3, <4>2 DEF Request
    <3> QED BY <1>0, <3>1, <3>2, <3>3, CallFacts
  <2> QED BY <1>1, <2>1, <2>2 DEF Files!storeVars
<1>2. CASE EvictClean \/ UNCHANGED vars
  <2>1. UNCHANGED <<mounted, fds, promised, blkbmp, call>>
    BY <1>2 DEF EvictClean, vars
  <2> QED BY <1>1, <2>1
<1>3. CASE EvictErase \/ EvictStore
  <2>1. /\ call.op # "none" /\ \E v \in Blks \cup {0} : call' = [call EXCEPT !.victim = v]
        /\ UNCHANGED <<mounted, fds, promised, blkbmp>>
    BY <1>0, <1>3 DEF EvictErase, EvictStore, CodeTypeOK
  <2>2. PICK v \in Blks \cup {0} : call' = [call EXCEPT !.victim = v]
    BY <2>1
  <2>3. /\ call'.op = call.op /\ call'.fd = call.fd /\ call'.len = call.len
        /\ call.op = "write" => call'.value = call.value
        /\ call.op = "read" => call'.got = call.got
    BY <1>0, <2>1, <2>2, CallMoves, CallMovesData
  <2> QED BY <1>1, <2>1, <2>3
<1>4. CASE WriteBlk
  <2> DEFINE x == call.done + Chunk
  <2>1. /\ UNCHANGED <<mounted, fds, promised, blkbmp>> /\ call.op = "write"
        /\ call' = [call EXCEPT !.done = x, !.fresh = FALSE]
    BY <1>4 DEF WriteBlk, InCall
  <2>2. call \in WriteCalls
    BY <1>0, <2>1, CallFacts
  <2> HIDE DEF x
  <2>3. /\ call'.op = "write" /\ call'.fd = call.fd /\ call'.len = call.len
        /\ call'.value = call.value
    BY <2>1, <2>2 DEF WriteCalls
  <2> QED BY <1>1, <2>1, <2>3
<1>5. CASE AllocBlk
  <2> PICK f : f = call.fd
    OBVIOUS
  <2>1. PICK b \in Blks : fds' = [fds EXCEPT ![call.fd].ino.db[Slot] = b]
    BY <1>5 DEF AllocBlk
  <2>2. /\ UNCHANGED <<mounted, promised>> /\ call.op = "write" /\ Slot \in Slots
        /\ call' = [call EXCEPT !.fresh = TRUE]
    BY <1>5 DEF AllocBlk, InCall
  <2>3. call \in WriteCalls /\ call.fd \in Fds
    BY <1>0, <2>2, CallFacts
  <2>4. /\ call'.op = "write" /\ call'.fd = f /\ call'.len = call.len
        /\ call'.value = call.value
    BY <2>2, <2>3 DEF WriteCalls
  <2>5. Request' = Request
    BY <2>2, <2>4 DEF Request
  <2>6. \A g \in Fds : /\ fds'[g].open = fds[g].open /\ fds'[g].pos = fds[g].pos
                       /\ fds'[g].ino.name = fds[g].ino.name
    BY <1>0, <2>1, <2>2, <2>3, AllocFd
  <2>7. File' = File
    BY <2>2, <2>6 DEF File, Ino
  <2>8. blkbmp' \ Growth' = blkbmp \ Growth
    BY <1>5, GrowthGrows
  <2> QED BY <2>2, <2>5, <2>7, <2>8 DEF Files!storeVars
<1> QED BY <1>2, <1>3, <1>4, <1>5

\* Each step is one of the store, or is not seen.
LEMMA StoreStep ==
  StoreInv /\ StoreInv' /\ [Next]_vars => [Files!Next]_(Files!storeVars)
<1> SUFFICES ASSUME StoreInv, StoreInv', [Next]_vars
             PROVE  Files!Next \/ UNCHANGED Files!storeVars
  OBVIOUS
<1>0. FsInv /\ FilesInv /\ BlocksUsed /\ FsInv' /\ FilesInv'
  BY DEF StoreInv
<1>1. CASE MountAndFormat \/ Mount \/ PowerCut
  BY <1>0, <1>1, MountIsMount, CutIsCut DEF Files!Next
<1>2. ASSUME NEW n \in Names, OpenFile(n) \/ CreateFile(n) PROVE Files!Next
  <2>1. \E f \in Fds : Files!Open(f)
    BY <1>0, <1>2, OpenIsOpen, CreateIsOpen
  <2> QED BY <2>1 DEF Files!Next
<1>3. ASSUME NEW f \in Fds, Close(f) PROVE Files!Next
  BY <1>0, <1>3, CloseIsClose DEF Files!Next
<1>4. ASSUME NEW f \in Fds, NEW len \in 1 .. MaxLen, StartRead(f, len) PROVE Files!Next
  BY <1>0, <1>4, StartReadIsStartRead DEF Files!Next
<1>5. ASSUME NEW f \in Fds, NEW len \in 1 .. MaxLen, NEW d \in Data, StartWrite(f, len, d)
      PROVE  Files!Next
  BY <1>0, <1>5, StartWriteIsStartWrite DEF Files!Next
<1>6. CASE ReadBlk \/ ReadReturn
  BY <1>0, <1>6, ReadBlkIsDeliver, ReadReturnIsReturn DEF Files!Next
<1>7. CASE WriteReturn
  <2>1. call.done \in 0 .. MaxLen
    BY <1>0, <1>7, CallFacts DEF FsInv, WriteReturn, InCall
  <2>2. Files!ReturnWrite(call.done)
    BY <1>7, WriteReturnIsReturn
  <2> QED BY <2>1, <2>2 DEF Files!Next
<1>8. CASE \/ EvictClean \/ EvictErase \/ EvictStore \/ AllocBlk \/ WriteBlk
           \/ UNCHANGED vars
  BY <1>0, <1>8, InsideIsHidden
<1> QED BY <1>1, <1>2, <1>3, <1>4, <1>5, <1>6, <1>7, <1>8 DEF Next

LEMMA StoreInvariant == Spec => []StoreInv
<1>1. Init => StoreInv
  <2>1. Init => BlocksUsed
    BY DEF Init, BlocksUsed, NoCall, Closed
  <2> QED BY <2>1, FsInit, KeptInit DEF StoreInv, KeptInv
<1>2. StoreInv /\ [Next]_vars => StoreInv'
  BY FsStep, KeptStep, UsedStep DEF StoreInv, KeptInv
<1> QED BY <1>1, <1>2, PTL DEF Spec

\* No sequence of calls, also of those that stop early, leaves a block in an open file
\* that holds no cell of it.
THEOREM NoBlockWasted ==
  Spec => [](\A f \in Fds, k \in Slots :
               (/\ fds[f].open /\ Ino(f).db[k] # 0
                /\ ~(call.op = "write" /\ call.fd = f)) => NFS_BLK_SZ * k < Ino(f).sz)
<1>1. StoreInv => (\A f \in Fds, k \in Slots :
                     (/\ fds[f].open /\ Ino(f).db[k] # 0
                      /\ ~(call.op = "write" /\ call.fd = f)) => NFS_BLK_SZ * k < Ino(f).sz)
  BY DEF StoreInv, BlocksUsed, Reach, Writes, Fresh
<1> QED BY <1>1, StoreInvariant, PTL

\* On both kinds of flash nfs_open(), nfs_read(), nfs_write() and nfs_close() implement a
\* store of open files that are sequences of cells: a read delivers all it was asked for
\* and the file has; a write changes the file at its return, takes a block for each place
\* of the file that it reaches first and no other, and stops short only when the inode's
\* table or the bitmap leaves no room, whatever the cache evicts meanwhile.
THEOREM NanosFSImplementsStore == Spec => StoreRefinement
<1>1. Init => Files!Init
  BY InitIsInit
<1>2. StoreInv /\ StoreInv' /\ [Next]_vars => [Files!Next]_(Files!storeVars)
  BY StoreStep
<1> QED BY <1>1, <1>2, StoreInvariant, PTL DEF Spec, StoreRefinement, Files!Spec
==============================================================================
