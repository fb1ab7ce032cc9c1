SPECIFICATION Spec
CONSTANTS
  alice = alice
  bob = bob
  carol = carol
  a1 = a1
  a2 = a2
  b1 = b1
  Nil = Nil
  People = {alice, bob, carol}
  Sessions = {a1, a2, b1}
  Owner <- MCOwnerOnSessions
  Wants <- MCWants
  MaxSuffix = 1
  MaxKnownPeers = 2
  Savers = {"prune", "stop"}
  Horizon = 1
INVARIANTS TypeOK NamesAreUnique FileAgreesUnlessMarked
PROPERTIES OwedAreEvictedLast
CHECK_DEADLOCK FALSE
