SPECIFICATION Spec
CONSTANTS
  s1 = s1
  s2 = s2
  alice = alice
  bob = bob
  Nil = Nil
  Sessions = {s1, s2}
  Identities = {alice, bob}
  IdOf <- MCIdOf
  Trusted = {bob}
  Switched = {"i", "m"}
  MaxRoomAcl = 1
  InviteTTL = 1
INVARIANTS TypeOK FounderKeepsCommand
PROPERTIES ChangesAreMarked EntersByRight NoBackDoor
