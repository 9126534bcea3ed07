CONSTANTS
  Ids = {s1, s2}
  Keys = {k1, pass}
  Sensitive = {pass}
  Conns = {c1}
  MaxBoots = 1
  DiskFull = FALSE
SPECIFICATION Spec
INVARIANTS NoSensitiveOnDisk CheckpointWhole CheckpointComplete RestoredOnce
