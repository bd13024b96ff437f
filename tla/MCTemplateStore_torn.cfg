\* Saves and loads under kills and power loss, on a disk whose sync may fail.
SPECIFICATION Spec
CONSTANTS
  a = a
  b = b
  nan = nan
  proc = proc
  Threads = {t1}
  Processes = {proc}
  ProcessOf <- MCProcessOf
  Embedding <- MCEmbedding
  NonFinite = {nan}
  Bundles <- MCBundles
  Legacy <- MCLegacy
  Inode = {i1, i2, i3, i4}
  MaySyncFail = TRUE
  NoInode = NoInode
  NoThread = NoThread
  NoArg = NoArg
  Torn = Torn
  Unreadable = Unreadable
  Silent = Silent
  Ok = Ok
  Error = Error
SYMMETRY Symmetry
INVARIANTS
  NeverTorn
