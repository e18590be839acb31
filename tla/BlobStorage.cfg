SPECIFICATION FairSpec
CONSTANTS
  a = a
  b = b
  k0 = k0
  k1 = k1
  u1 = u1
  u2 = u2
  u3 = u3
  m1 = m1
  w1 = w1
  Owners = {a, b}
  Keys = {k0, k1}
  EmptyKey = k0
  Uploads = {u1, u2, u3}
  OwnerOf <- MCOwnerOf
  RawKey <- MCRawKey
  FileKey <- MCFileKey
  Legacy = {u2}
  Memos = {m1}
  MemoKey <- MCMemoKey
  Workers = {w1}
  MaxDeletes = 2
  MaxFaults = 1
CHECK_DEADLOCK FALSE
INVARIANTS
  StorageInv
  ReferencedBlobsExist
PROPERTIES
  TasksSettle
