SPECIFICATION Spec
CONSTANTS
  Parts = {"launch", "attach", "query", "handle", "picker", "words"}
  \* PlainLaunch
  Users = {1, 2}
  UserCommands = {"run", "attach", "restart", "up", "down"}
  Images = {"unbound", "able", "unable"}
  MaxDaemons = 3
  \* AttachClient
  MaxOut = 1
  MaxConns = 2
  MaxPressed = 1
  Tries = {0, 2}
  \* PeerQuery
  Kinds = {"connect", "peek", "follow", "send", "stats", "control", "wait"}
  Hit = 2
  MaxScreens = 2
  MaxGen = 3
  Items = 2
  \* TerminalHandle
  MaxAttempts = 2
  MaxPrinted = 2
  MaxReads = 2
  MaxQueue = 1
  MaxUnread = 1
  MaxCalls = 2
  Data = 1
  \* Picker
  Names = {"a", "b"}
  NewName = "c"
  Keys = {"down", "return", "f", "q"}
  Viewports = {1, 2}
  MaxKeys = 2
  MaxChanges = 1
  \* CommandLine
  Commands = {"run", "attach", "exec", "peek", "send", "events", "list", "remote-serve", "stats",
              "restart", "kill", "rm", "gc", "tag", "tag-multi", "emit", "up", "down", "rename",
              "metadata", "readiness", "evidence", "capabilities", "operation",
              "publication-revocation", "completions", "root", "interactive"}
  MaxWords = 3
INVARIANTS LaunchesAreExclusive ViewsAreCurrent AnswersAreOwn ChoicesAreKept
PROPERTY LiveDaemonsKeepRecords
CHECK_DEADLOCK FALSE
