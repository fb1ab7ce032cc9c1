SPECIFICATION FairSpec
CONSTANTS
  s1 = s1
  s2 = s2
  s3 = s3
  alice = alice
  bob = bob
  m1 = m1
  m2 = m2
  m3 = m3
  Nil = Nil
  People = {alice}
  Sessions = {s1, s2}
  Messages = {m1}
  Owner <- MCOwner
  Named = {alice}
  QueueLimit = 1
  MaxKnownPeers = 1
  LoadLimit = 1
  MaxCopies = 0
PROPERTIES HeldReachesAbsent
