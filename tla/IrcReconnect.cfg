\* A connection whose watcher has stopped.
SPECIFICATION FairSpec
CONSTANTS
  starter = starter
  remover = remover
  Task = {starter, remover}
  Watcher = {watcher}
  May <- StartAndRemove
  Nobody = Nobody
CHECK_DEADLOCK FALSE
PROPERTIES ConnectionGetsReady
