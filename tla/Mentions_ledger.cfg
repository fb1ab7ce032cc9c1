SPECIFICATION Spec
CONSTANTS
  s1 = s1
  s2 = s2
  s3 = s3
  alice = alice
  bob = bob
  m1 = m1
  m2 = m2
  m3 = m3
  Nil = Nil
  People = {alice, bob}
  Sessions = {s3}
  Messages = {m1, m2, m3}
  Owner <- MCOwner
  Named = {bob}
  QueueLimit = 2
  MaxKnownPeers = 1
  LoadLimit = 1
  MaxCopies = 0
SYMMETRY Lines
INVARIANTS TypeOK QueueIsATail OptedOutHoldNothing
PROPERTIES DropsExactlyWhatWasSent LedgerSpec
