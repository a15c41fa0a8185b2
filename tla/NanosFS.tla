------------------------------- MODULE NanosFS -------------------------------
(***************************************************************************)
(* NanosFS (fs/nfs.c): superblock with two bitmaps, inode table, data      *)
(* blocks on flash, a write-back block cache, and descriptors that each    *)
(* hold a copy of their inode.  The power may be cut between any two       *)
(* operations on the flash.                                                *)
(*                                                                         *)
(* The calls come from one task, as in the repository.  A read or write    *)
(* takes one action per block; the two flash operations of an eviction are *)
(* actions of their own.  A block is a sequence of BLK_SZ cells, which are *)
(* `Erased' between its erasure and its write.  An inode is written where  *)
(* it lies, without an erasure: on NOR flash this clears bits and sets     *)
(* none, see `Programmed'.  The repository has no flash driver; the module *)
(* describes both kinds.                                                   *)
(***************************************************************************)
EXTENDS Integers, Sequences, FiniteSets

CONSTANTS
  Names,             (* paths                                               *)
  Data, Erased,      (* what a cell of the flash holds; Erased is 0xFF      *)
  NFS_DATA_BLKS, NFS_BLK_SZ, NFS_DIRECT_BLKS, NFS_MAX_INODES, NFS_MAX_FDS,
  CACHE_N,
  MaxLen,            (* longest read or write explored                      *)
  NoFile,
  FlashKinds,        (* the kinds of flash that the board may have          *)
  Garbled            (* what two names written over each other make there   *)

Cells == Data \cup {Erased}

ASSUME NanosFSAssumption ==
  /\ Erased \notin Data
  /\ NoFile \notin Names /\ NoFile \notin Seq(Cells)
  /\ FlashKinds \subseteq {"nor", "overwriting"}
  /\ Garbled \notin Names \cup {NoFile}
  /\ NFS_DATA_BLKS \in Nat \ {0} /\ NFS_BLK_SZ \in Nat \ {0}
  /\ NFS_DIRECT_BLKS \in Nat \ {0}
  /\ NFS_MAX_INODES \in Nat \ {0} /\ NFS_MAX_FDS \in Nat \ {0}
  /\ CACHE_N \in Nat \ {0}
  /\ MaxLen \in Nat \ {0}

Blks   == 1 .. NFS_DATA_BLKS       (* 0 in an inode stands for no block     *)
Slots  == 0 .. NFS_DIRECT_BLKS - 1
Inodes == 1 .. NFS_MAX_INODES
Fds    == 1 .. NFS_MAX_FDS

ErasedBlk == [k \in 1 .. NFS_BLK_SZ |-> Erased]
NoBlks    == [k \in Slots |-> 0]

VARIABLES
  flash_kind,        (* external, chosen once: the kind of the flash        *)
  (* on flash *)
  formatted,         (* the superblock has its magic number                 *)
  flash,             (* the data blocks                                     *)
  inodes,            (* the inode table                                     *)
  (* in memory *)
  mounted,
  blkbmp, inobmp,    (* the bits set in the bitmaps of s_sb                 *)
  cache,             (* valid entries by block: dirty and buf               *)
  fds,               (* descriptors: open, inum, the inode's copy, pos      *)
  call,              (* the nfs_read or nfs_write in progress               *)
  (* for the properties *)
  promised           (* what a file is to hold: what its inode showed when  *)
                     (* it was opened, and the writes that returned since   *)

flashVars == <<formatted, flash, inodes>>
vars == <<flash_kind, flashVars, mounted, blkbmp, inobmp, cache, fds, call, promised>>

NewInode(n) == [name |-> n, sz |-> 0, db |-> NoBlks]
NoInode == NewInode(NoFile)
Closed  == [open |-> FALSE, inum |-> 0, ino |-> NoInode, pos |-> 0]
NoCall  == [op |-> "none"]

MinOf(a, b) == IF a <= b THEN a ELSE b

\* m is the first of S, as a loop over the table finds it.
IsFirst(m, S) == m \in S /\ \A n \in S : m <= n

(***************************************************************************)
(* Mounting and formatting.                                                *)
(***************************************************************************)

\* nfs_mount() without a valid superblock: nfs_format() erases the partition.
MountAndFormat ==
  /\ ~mounted /\ ~formatted
  /\ formatted' = TRUE
  /\ flash' = [b \in Blks |-> ErasedBlk]
  /\ inodes' = [i \in Inodes |-> NoInode]
  /\ mounted' = TRUE
  /\ UNCHANGED <<blkbmp, inobmp, cache, fds, call, promised>>

\* nfs_mount() with a superblock, which is the one nfs_format() wrote.
Mount ==
  /\ ~mounted /\ formatted
  /\ mounted' = TRUE
  /\ blkbmp' = {} /\ inobmp' = {}
  /\ promised' = [n \in Names |-> NoFile]
  /\ UNCHANGED <<flashVars, cache, fds, call>>

\* The power is cut: what was in memory is lost.
PowerCut ==
  /\ mounted
  /\ mounted' = FALSE
  /\ blkbmp' = {} /\ inobmp' = {}
  /\ cache' = <<>>
  /\ fds' = [f \in Fds |-> Closed]
  /\ call' = NoCall
  /\ UNCHANGED <<flashVars, promised>>

(***************************************************************************)
(* The block cache.                                                        *)
(***************************************************************************)
Cached == DOMAIN cache

\* A slip: the cache is not looked at.
StoredBlock(b) == flash[b]

\* A block as rblk() delivers it.
Block(b) == IF b \in Cached THEN cache[b].buf ELSE flash[b]

\* A slip: the entry that is filled is not marked dirty.
PutClean(b, e) ==
  [c \in Cached \cup {b} |-> IF c = b THEN [e EXCEPT !.dirty = FALSE] ELSE cache[c]]

\* The cache with e as its entry for b.
Put(b, e) == [c \in Cached \cup {b} |-> IF c = b THEN e ELSE cache[c]]

\* An entry has to be freed before b is brought into the cache.
NeedsEviction(b) == b \notin Cached /\ Cardinality(Cached) = CACHE_N

\* The cells that reading the file of this inode from its beginning delivers.
Shown(ino) ==
  [k \in 1 .. ino.sz |->
     Block(ino.db[(k - 1) \div NFS_BLK_SZ])[((k - 1) % NFS_BLK_SZ) + 1]]

(***************************************************************************)
(* Opening and closing.                                                    *)
(***************************************************************************)
Idle == mounted /\ call.op = "none"

\* flash_write() replaces what it finds, which NOR flash does not do.
FlashOverwrites == flash_kind = "overwriting"

\* What flash_write() of the inode `new' may leave where the flash holds `old'.  On NOR
\* flash that is not erased there, a number is not greater than either of the two (it is
\* their AND), and different names leave one that nobody uses.
Programmed(old, new) ==
  IF FlashOverwrites \/ old = NoInode THEN {new}
  ELSE [name : {IF new.name = old.name THEN new.name ELSE Garbled},
        sz   : 0 .. MinOf(old.sz, new.sz),
        db   : {d \in [Slots -> Blks \cup {0}] :
                  \A k \in Slots : d[k] <= MinOf(old.db[k], new.db[k])}]

\* The inodes in use that have the name n.
Named(n) == {i \in inobmp : inodes[i].name = n}

\* The applications have one descriptor of a file at a time.
NotOpen(n) == \A f \in Fds : fds[f].open => fds[f].ino.name # n

FreeFds == {f \in Fds : ~fds[f].open}

\* What nfs_open() puts into a descriptor.
OpenedFd(i, ino) == [open |-> TRUE, inum |-> i, ino |-> ino, pos |-> 0]

\* nfs_open(n, flags) of a file that exists.
OpenFile(n) ==
  /\ Idle /\ NotOpen(n)
  /\ \E f \in Fds, i \in Inodes :
       /\ IsFirst(f, FreeFds) /\ IsFirst(i, Named(n))
       /\ fds' = [fds EXCEPT ![f] = OpenedFd(i, inodes[i])]
       /\ promised' = [promised EXCEPT ![n] = Shown(inodes[i])]
  /\ UNCHANGED <<flashVars, mounted, blkbmp, inobmp, cache, call>>

\* nfs_open(n, NFS_O_CREAT) of a file that does not exist.
CreateFile(n) ==
  /\ Idle /\ NotOpen(n)
  /\ Named(n) = {}
  /\ \E f \in Fds, i \in Inodes :
       /\ IsFirst(f, FreeFds) /\ IsFirst(i, Inodes \ inobmp)
       /\ inobmp' = inobmp \cup {i}
       /\ \E ino \in Programmed(inodes[i], NewInode(n)) :
            inodes' = [inodes EXCEPT ![i] = ino]
       /\ fds' = [fds EXCEPT ![f] = OpenedFd(i, NewInode(n))]
  /\ promised' = [promised EXCEPT ![n] = <<>>]
  /\ UNCHANGED <<formatted, flash, mounted, blkbmp, cache, call>>

\* nfs_close(f); what the descriptor held is not looked at any more.
Close(f) ==
  /\ Idle /\ fds[f].open
  /\ fds' = [fds EXCEPT ![f] = Closed]
  /\ UNCHANGED <<flashVars, mounted, blkbmp, inobmp, cache, call, promised>>

(***************************************************************************)
(* The loops of nfs_read and nfs_write: `done' of `len' cells are          *)
(* transferred; victim is the dirty entry that cevict() has erased.        *)
(***************************************************************************)
Ino(f) == fds[f].ino

Offset == fds[call.fd].pos + call.done
Slot   == Offset \div NFS_BLK_SZ
InBlk  == Offset % NFS_BLK_SZ

\* A slip: the end of the transfer is forgotten.
ChunkToBlkEnd == NFS_BLK_SZ - InBlk

\* The cells of the next block that are transferred.
Chunk == MinOf(call.len - call.done, NFS_BLK_SZ - InBlk)

\* The block of the next cell; 0 if the inode has none there.
Current == IF Slot \in Slots THEN Ino(call.fd).db[Slot] ELSE 0

InCall(op) == mounted /\ call.op = op /\ call.victim = 0

\* cevict() takes the entry used least recently; no property tells which.
EvictClean ==
  /\ mounted /\ call.op # "none" /\ call.victim = 0
  /\ call.done < call.len /\ Current # 0 /\ NeedsEviction(Current)
  /\ \E v \in Cached :
       /\ ~cache[v].dirty
       /\ cache' = [c \in Cached \ {v} |-> cache[c]]
  /\ UNCHANGED <<flashVars, mounted, blkbmp, inobmp, fds, call, promised>>

EvictErase ==
  /\ mounted /\ call.op # "none" /\ call.victim = 0
  /\ call.done < call.len /\ Current # 0 /\ NeedsEviction(Current)
  /\ \E v \in Cached :
       /\ cache[v].dirty
       /\ flash' = [flash EXCEPT ![v] = ErasedBlk]
       /\ call' = [call EXCEPT !.victim = v]
  /\ UNCHANGED <<formatted, inodes, mounted, blkbmp, inobmp, cache, fds, promised>>

\* A slip: the victim is erased and not written.
DropVictim == flash

\* The flash with the victim's buffer written.
StoreVictim == [flash EXCEPT ![call.victim] = cache[call.victim].buf]

EvictStore ==
  /\ mounted /\ call.op # "none" /\ call.victim # 0
  /\ flash' = StoreVictim
  /\ cache' = [c \in Cached \ {call.victim} |-> cache[c]]
  /\ call' = [call EXCEPT !.victim = 0]
  /\ UNCHANGED <<formatted, inodes, mounted, blkbmp, inobmp, fds, promised>>

\* nfs_read(f, buf, len), of what is left of the file.
StartRead(f, len) ==
  /\ Idle /\ fds[f].open
  /\ fds[f].pos < Ino(f).sz
  /\ call' = [op |-> "read", fd |-> f, len |-> MinOf(len, Ino(f).sz - fds[f].pos),
              done |-> 0, victim |-> 0, got |-> <<>>]
  /\ UNCHANGED <<flashVars, mounted, blkbmp, inobmp, cache, fds, promised>>

ReadBlk ==
  /\ InCall("read")
  /\ call.done < call.len /\ Current # 0 /\ ~NeedsEviction(Current)
  /\ call' = [call EXCEPT !.done = @ + Chunk,
                          !.got = @ \o SubSeq(Block(Current), InBlk + 1, InBlk + Chunk)]
  /\ cache' = IF Current \in Cached THEN cache
              ELSE Put(Current, [dirty |-> FALSE, buf |-> flash[Current]])
  /\ UNCHANGED <<flashVars, mounted, blkbmp, inobmp, fds, promised>>

ReadReturn ==
  /\ InCall("read")
  /\ call.done >= call.len \/ Current = 0
  /\ fds' = [fds EXCEPT ![call.fd].pos = @ + call.done]
  /\ call' = NoCall
  /\ UNCHANGED <<flashVars, mounted, blkbmp, inobmp, cache, promised>>

\* nfs_write(f, buf, len); the buffer holds the same value d in all cells.
StartWrite(f, len, d) ==
  /\ Idle /\ fds[f].open
  /\ call' = [op |-> "write", fd |-> f, len |-> len, done |-> 0, victim |-> 0,
              value |-> d, fresh |-> FALSE]
  /\ UNCHANGED <<flashVars, mounted, blkbmp, inobmp, cache, fds, promised>>

\* A slip: the bits are not looked at.
FreeBlksAll == Blks

\* The blocks whose bit is clear.
FreeBlks == Blks \ blkbmp

\* alloc_blk() for a place of the file that has no block; fblks and the erase
\* counts decide nothing.
AllocBlk ==
  /\ InCall("write")
  /\ call.done < call.len /\ Slot \in Slots /\ Current = 0
  /\ \E b \in Blks :
       /\ IsFirst(b, FreeBlks)
       /\ blkbmp' = blkbmp \cup {b}
       /\ fds' = [fds EXCEPT ![call.fd].ino.db[Slot] = b]
  /\ call' = [call EXCEPT !.fresh = TRUE]
  /\ UNCHANGED <<flashVars, mounted, inobmp, cache, promised>>

\* rblk(), or a buffer of 0xFF for a new block, then memcpy() and wblk().
WriteBlk ==
  /\ InCall("write")
  /\ call.done < call.len /\ Current # 0 /\ ~NeedsEviction(Current)
  /\ LET old == IF call.fresh THEN ErasedBlk ELSE Block(Current)
         new == [k \in 1 .. NFS_BLK_SZ |->
                   IF k \in InBlk + 1 .. InBlk + Chunk THEN call.value ELSE old[k]]
     IN  cache' = Put(Current, [dirty |-> TRUE, buf |-> new])
  /\ call' = [call EXCEPT !.done = @ + Chunk, !.fresh = FALSE]
  /\ UNCHANGED <<flashVars, mounted, blkbmp, inobmp, fds, promised>>

\* The size of a file of size sz after a write that ended at pos.
SizeAfter(sz, pos) == IF pos > sz THEN pos ELSE sz

\* The content s with n cells of value d written at pos.
Overwritten(s, pos, n, d) ==
  LET written == pos + 1 .. pos + n
  IN  [k \in DOMAIN s \cup written |-> IF k \in written THEN d ELSE s[k]]

\* The end of nfs_write(): all is transferred, or the file or the disk is full.
WriteReturn ==
  /\ InCall("write")
  /\ \/ call.done >= call.len
     \/ Slot \notin Slots
     \/ Current = 0 /\ FreeBlks = {}
  /\ LET f == call.fd
         end == fds[f].pos + call.done
         new == [Ino(f) EXCEPT !.sz = SizeAfter(@, end)]
     IN  /\ fds' = [fds EXCEPT ![f].pos = end, ![f].ino = new]
         /\ \E ino \in Programmed(inodes[fds[f].inum], new) :
              inodes' = [inodes EXCEPT ![fds[f].inum] = ino]
         /\ promised' = [promised EXCEPT ![new.name] =
                           Overwritten(@, fds[f].pos, call.done, call.value)]
  /\ call' = NoCall
  /\ UNCHANGED <<formatted, flash, mounted, blkbmp, inobmp, cache>>

(***************************************************************************)
(* The specification.                                                      *)
(***************************************************************************)
Init ==
  /\ flash_kind \in FlashKinds
  /\ formatted = FALSE
  /\ flash = [b \in Blks |-> ErasedBlk]
  /\ inodes = [i \in Inodes |-> NoInode]
  /\ mounted = FALSE
  /\ blkbmp = {} /\ inobmp = {}
  /\ cache = <<>>
  /\ fds = [f \in Fds |-> Closed]
  /\ call = NoCall
  /\ promised = [n \in Names |-> NoFile]

Next ==
  /\ \/ MountAndFormat \/ Mount \/ PowerCut
     \/ \E n \in Names : OpenFile(n) \/ CreateFile(n)
     \/ \E f \in Fds : Close(f)
     \/ \E f \in Fds, len \in 1 .. MaxLen : StartRead(f, len)
     \/ \E f \in Fds, len \in 1 .. MaxLen, d \in Data : StartWrite(f, len, d)
     \/ ReadBlk \/ ReadReturn
     \/ AllocBlk \/ WriteBlk \/ WriteReturn
     \/ EvictClean \/ EvictErase \/ EvictStore
  /\ UNCHANGED flash_kind

Spec == Init /\ [][Next]_vars

-----------------------------------------------------------------------------
(***************************************************************************)
(* Properties.                                                             *)
(***************************************************************************)
InodeRecs == [name : Names \cup {NoFile, Garbled}, sz : Nat, db : [Slots -> Blks \cup {0}]]
BlkBufs   == [1 .. NFS_BLK_SZ -> Cells]
FdRecs    == [open : BOOLEAN, inum : Inodes \cup {0}, ino : InodeRecs, pos : Nat]

ReadCalls  == [op : {"read"}, fd : Fds, len : 1 .. MaxLen, done : 0 .. MaxLen,
               victim : Blks \cup {0}, got : Seq(Cells)]
WriteCalls == [op : {"write"}, fd : Fds, len : 1 .. MaxLen, done : 0 .. MaxLen,
               victim : Blks \cup {0}, value : Data, fresh : BOOLEAN]

\* The types of the variables of the code.
CodeTypeOK ==
  /\ formatted \in BOOLEAN /\ mounted \in BOOLEAN
  /\ flash \in [Blks -> BlkBufs]
  /\ inodes \in [Inodes -> InodeRecs]
  /\ blkbmp \subseteq Blks /\ inobmp \subseteq Inodes
  /\ Cached \subseteq Blks
  /\ cache \in [Cached -> [dirty : BOOLEAN, buf : BlkBufs]]
  /\ fds \in [Fds -> FdRecs]
  /\ call \in {NoCall} \cup ReadCalls \cup WriteCalls

\* Every variable has its type; no more is transferred than was asked for, there
\* are no more entries in the cache than buffers, and a file is no longer than
\* its blocks.
TypeOK ==
  /\ CodeTypeOK
  /\ promised \in [Names -> Seq(Cells) \cup {NoFile}]
  /\ call # NoCall => call.done <= call.len
  /\ Cardinality(Cached) <= CACHE_N
  /\ \A f \in Fds : Ino(f).sz <= NFS_DIRECT_BLKS * NFS_BLK_SZ

\* An entry that is not dirty holds what the flash holds: what the eviction of
\* such an entry throws away can be read again.
CleanIsStored == \A b \in Cached : ~cache[b].dirty => cache[b].buf = flash[b]

\* A block belongs to one place of one open file: alloc_blk() gives none away that a file
\* has, in whatever order files are created, grow, are closed and opened again.
BlocksAccounted ==
  \A f, g \in Fds, k, m \in Slots :
    (fds[f].open /\ fds[g].open /\ Ino(f).db[k] # 0) =>
      /\ Ino(f).db[k] \in blkbmp
      /\ Ino(f).db[k] = Ino(g).db[m] => f = g /\ k = m

\* As long as a file is open, it holds what it held then with the writes that returned
\* put over it, although its blocks and those of other files are evicted in between,
\* blocks are written in part and calls stop early.
FilesKept ==
  \A f \in Fds :
    fds[f].open => \/ call.op = "write" /\ call.fd = f
                   \/ Shown(Ino(f)) = promised[Ino(f).name]

\* The store as the caller knows it.
File ==
  [f \in Fds |-> IF fds[f].open THEN [cells |-> promised[Ino(f).name], pos |-> fds[f].pos]
                 ELSE [cells |-> NoFile]]

\* The blocks that the write in progress has taken.
Growth ==
  IF call.op # "write" THEN {}
  ELSE {Ino(call.fd).db[k] : k \in {m \in Slots : Ino(call.fd).sz <= NFS_BLK_SZ * m}}

Request ==
  CASE call.op = "none"  -> call
    [] call.op = "read"  -> [op |-> "read", by |-> call.fd, len |-> call.len, got |-> call.got]
    [] call.op = "write" -> [op |-> "write", by |-> call.fd, len |-> call.len,
                             value |-> call.value]

Files == INSTANCE FileStore WITH
  Handles <- Fds, Absent <- NoFile,
  BlkLen <- NFS_BLK_SZ, FileBlks <- NFS_DIRECT_BLKS, StoreBlks <- NFS_DATA_BLKS,
  up <- mounted, file <- File, taken <- Cardinality(blkbmp \ Growth), request <- Request

\* NanosFS implements FileStore.  A read delivers all that it was asked for and the
\* file has, whatever is evicted between its blocks; a write takes the blocks it needs and
\* no other, and stops short only at the end of the inode's table or when the bitmap is
\* full.
StoreRefinement == Files!Spec

\* Opening n finds what the writes that returned have put there.
FindsWritten(n) == OpenFile(n) /\ promised[n] # NoFile => promised'[n] = promised[n]

\* On a flash that overwrites, a file that is opened again holds what was written: the
\* inode and the blocks are found, although the descriptor is gone and blocks were evicted
\* meanwhile.
OverwritingReopens == [][FlashOverwrites => \A n \in Names : FindsWritten(n)]_vars

\* What nfs_open() and nfs_write() rely on, and is not so on NOR flash, where the size that
\* was written over the 0 of a new inode stays 0: on any flash a file that is opened again
\* holds what was written.
FilesReopen == [][\A n \in Names : FindsWritten(n)]_vars

\* What opening n and reading it to the end delivers.
Visible(n) ==
  IF Named(n) = {} THEN NoFile
  ELSE Shown(inodes[CHOOSE i \in Named(n) : IsFirst(i, Named(n))])

\* Mounting after a power cut finds what the writes that returned have put into
\* a file (README, "Power-safe writes"; CHANGELOG, "replay on mount").
PowerSafeWrites ==
  [][ Mount => \A n \in Names :
                 promised[n] \notin {NoFile, <<>>} => Visible(n)' = promised[n] ]_vars
==============================================================================
