SPECIFICATION Spec
CONSTANTS
  Names = {n1}
  Data = {d1}
  Erased = ff
  NFS_DATA_BLKS = 2
  NFS_BLK_SZ = 2
  NFS_DIRECT_BLKS = 2
  NFS_MAX_INODES = 1
  NFS_MAX_FDS = 1
  CACHE_N = 1
  MaxLen = 2
  NoFile = absent
  Garbled = garbled
  FlashKinds = {"nor"}
PROPERTIES
  FilesReopen
