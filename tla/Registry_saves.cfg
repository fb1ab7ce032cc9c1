SPECIFICATION FairSpec
CONSTANTS
  lobby = lobby
  chat = chat
  Nil = Nil
  Names = {lobby, chat}
  Default = {lobby}
  PruneAfter = 0
  Horizon = 1
  MaxEdits = 1
INVARIANTS TypeOK FileAgreesUnlessMarked DefaultRoomsStand
PROPERTIES ChangesReachDisk
