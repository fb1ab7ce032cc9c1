SPECIFICATION Spec
CONSTANTS
  s1 = s1
  s2 = s2
  s3 = s3
  alice = alice
  bob = bob
  lobby = lobby
  chat = chat
  o1 = o1
  o2 = o2
  o3 = o3
  Nil = Nil
  Sessions = {s1, s2}
  Identities = {alice}
  Names = {lobby, chat}
  Objs = {o1, o2, o3}
  IdOf <- MCIdOf
  Trusted = {alice}
  ConfigBanned = {}
  DefaultRooms = {}
  MaxSessions = 2
  MaxRooms = 2
  MaxRoomsPerSession = 1
  MaxRegisteredRooms = 1
  MaxRoomAcl = 1
SYMMETRY Addresses
INVARIANTS RoomsPerSessionHold
PROPERTIES PeopleSpec
CHECK_DEADLOCK FALSE
