SPECIFICATION Spec
CONSTANTS
  Parts = {"keys", "scanner", "actor", "screen", "history", "wire", "widgets"}
  \* KeyInput
  U32 = 900
  U16 = 300
  CharMax = 300
  Alphabet = {27, 91, 60, 59, 49, 57, 65, 90, 126, 51, 117, 77, 109, 120, 13}
  MaxTyped = 3
  KeyParts = {"", "ctrl", "alt", "shift", "a", "b", "c", "d", "e", "f", "g", "h", "i", "j", "k", "l", "m",
              "n", "o", "p", "q", "r", "s", "t", "u", "v", "w", "x", "y", "z", "up", "home", "tab", "return", "escape",
              "backspace", "space", "delete", "pageup", "f1", "f5", "/", "no"}
  \* TerminalActor, its scanner
  Bytes = {"esc", "[", "]", "c", "bslash", "bel", "can", "6"}
  MAX_CSI = 3
  MAX_OSC = 1
  MAX_METADATA = 2
  MaxInput = 5
  \* TerminalActor
  Flags = {"bracketed_paste", "enhanced_paste"}
  Tokens <- MCTokens
  Chunks = 2
  MaxKitty = 2
  MaxStep = 3
  \* ScreenReplay
  Height = 2
  Cols = 3
  MaxRows = 3
  CellHeight = 2
  Placements <- MCPlacements
  \* ScreenReplay, its history
  MAX_CURSORS = 2
  Readers = {1, 2}
  Limits = {0, 1, 2}
  MaxPrinted = 4
  MaxTick = 1
  MaxSerial = 4
  \* WireProtocol
  Radix = 16
  MAX_PACKET_LENGTH = 9
  MaxPackets = 2
  Sizes = {0, 255}
  Codes = {1}
  \* Widgets
  Kinds = {"region", "virtual", "stream", "area", "tree", "table", "date", "palette", "form",
           "focus", "commands"}
  MaxItems = 5
  MaxText = 3
  MaxTickets = 4
  Years = {1999, 2000, 2001, 2024}
INVARIANTS BytesAreUnderstood ReplayIsFaithful HistoryIsWhole WidgetsAreRight
CHECK_DEADLOCK FALSE
