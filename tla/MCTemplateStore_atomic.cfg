\* Saves and loads under kills and power loss, with a disk that syncs.
SPECIFICATION Spec
CONSTANTS
  a = a
  b = b
  nan = nan
  proc = proc
  Threads = {t1, t2}
  Processes = {proc}
  ProcessOf <- MCProcessOf
  Embedding <- MCEmbedding
  NonFinite = {nan}
  Bundles <- MCBundles
  Legacy <- MCLegacy
  Inode = {i1, i2, i3, i4}
  MaySyncFail = FALSE
  NoInode = NoInode
  NoThread = NoThread
  NoArg = NoArg
  Torn = Torn
  Unreadable = Unreadable
  Silent = Silent
  Ok = Ok
  Error = Error
SYMMETRY Symmetry
INVARIANTS
  TypeOK
PROPERTIES
  ImplementsAtomicStore
