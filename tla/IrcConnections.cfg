SPECIFICATION FairSpec
CONSTANTS
  starter = starter
  remover = remover
  Task = {starter, remover}
  Watcher = {watcher}
  May <- StartAndRemove
  Nobody = Nobody
CHECK_DEADLOCK FALSE
INVARIANTS TypeOK AbsentClientReturns
PROPERTIES WatcherConnects EventsGetRead ShutdownEndsAll
