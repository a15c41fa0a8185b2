SPECIFICATION Spec
CONSTANTS
  Names = {n1, n2}
  Data = {d1}
  Erased = ff
  NFS_DATA_BLKS = 3
  NFS_BLK_SZ = 2
  NFS_DIRECT_BLKS = 2
  NFS_MAX_INODES = 2
  NFS_MAX_FDS = 2
  CACHE_N = 2
  MaxLen = 2
  NoFile = absent
  Garbled = garbled
  FlashKinds = {"nor", "overwriting"}
SYMMETRY DataSymmetry
INVARIANTS
  TypeOK
  CleanIsStored
  BlocksAccounted
  FilesKept
PROPERTIES
  StoreRefinement
  OverwritingReopens
