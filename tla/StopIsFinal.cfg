SPECIFICATION Spec
CONSTANTS
  p1 = p1
  p2 = p2
  v1 = v1
  v2 = v2
  t1 = t1
  t2 = t2
  t3 = t3
  Process = {p1}
  Watcher = {v1, v2}
  NoProcess = NoProcess
  NoWatcher = NoWatcher
  Tx = {t1}
  BlockOf <- Blocks
  BatchSize = 1
  MaxReplay = 2
  MaxLag = 0
  MaxBlock = 1
  MaxCrashes = 0
PROPERTIES StopIsFinal
