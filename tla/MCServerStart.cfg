SPECIFICATION StartSpec
CONSTANTS
  boot = boot
  websocket = websocket
  restore = restore
  client = client
  update = update
  None = None
  Tasks <- MCTasks
  Preset <- MCPreset
  BootTask = boot
  ClientTask = client
  Budget = 2
  Stages = {0, 9}
  Versions = {1, 2, 3}
  Minimum = 2
INVARIANTS
  OneBootRun
  BootInOrder
  MongoMigrated
  RolesKnown
  ClientServed
PROPERTY
  TasksRun
CHECK_DEADLOCK FALSE
