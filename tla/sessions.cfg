\* Two accounts in one browser, two requests at one time, two sessions, two pages.
SPECIFICATION SessSpec
CONSTANTS
  Email = {e1, e2}
  Sid = {s1, s2}
  Request = {q1, q2}
  MaxReplaced = 1
  MaxPages = 2
  NoEmail = NoEmail
  NoSid = NoSid
  NoPage = NoPage
  Keep = Keep
SYMMETRY Interchangeable
INVARIANTS
  WritesToShownAccount
  LoggedOutForGood
  OneSession
PROPERTIES
  RefusedOnlyIfOver
