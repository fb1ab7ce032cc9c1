SPECIFICATION Spec
CONSTANTS
  lobby = lobby
  chat = chat
  Torn = Torn
  Names = {lobby, chat}
  TicksPerDay = 2
  Retention = 1
  MaxBytesPerRoom = 3
  MaxTotalBytes = 3
  ReplayCount = 2
  ReplayBytes = 2
  Sizes = {1}
  Horizon = 3
  MaxRecords = 2
  MaxCuts = 1
PROPERTIES ReadableAfterCut
