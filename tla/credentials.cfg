\* Two accounts, two callbacks at one time, three OAuth states.
SPECIFICATION CredSpec
CONSTANTS
  Email = {e1, e2}
  State = {s1, s2, s3}
  Request = {q1, q2}
  MaxGrant = 3
  NoEmail = NoEmail
  NoState = NoState
SYMMETRY Interchangeable
INVARIANTS
  OwnCredential
  UsableUnlessLost
PROPERTIES
  StateAcceptedOnce
  KeepsAuthorization
  ImplementsTokenTable
