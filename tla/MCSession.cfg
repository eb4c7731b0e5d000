SPECIFICATION Spec
CONSTANTS
  Parts = {"input", "clients", "record", "patch", "substrate", "events"}
  \* ClientInput
  Clients = {"a", "b", "p"}
  Readonly = {"p"}
  Script <- MCScript
  Limit = 3
  \* SessionClients
  Ids = {1, 2}
  Slow = {2}
  Sizes <- MCSizes
  Cells = {"cell"}
  MaxCells = 4
  Settle = 1
  Budget = 3
  MaxOutput = 1
  MaxRequests = 2
  \* SessionRecord
  MaxChanges = 1
  MaxLocks = 1
  MaxCas = 2
  \* PtySubstrate
  Capacity = 3
  END_RETRIES = 1
  INPUT_QUEUE_DEPTH = 1
  Scenes = {"output", "control", "settle"}
  MaxOut = 2
  MaxCalls = 1
  \* EventLog
  MAX_LINES = 2
  KEEP_LINES = 1
  TRUNCATE_CHECK_INTERVAL = 2
  Inodes = {1, 2}
  MaxEvents = 1
  MaxHolds = 1
  MaxGen = 2
  \* MetadataPatch
  Writers = {1, 2}
  Ops = {"patch", "tag", "name", "cas"}
  EventWait = 1
  PatchWait = 2
  MaxOps = 2
  MaxForeign = 1
  MaxTick = 2
INVARIANTS InputIsKept ClientsAreServed RecordIsTrue ChildIsOwn EventsAreDelivered
PROPERTY EndsAreOrderly
CHECK_DEADLOCK FALSE
