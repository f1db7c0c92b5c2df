\* Two devices and three accounts: every table, every order of its rows.
CONSTANTS
  Mac = {m1, m2}
  Email = {e1, e2, e3}
  NoEmail = NoEmail
SPECIFICATION MASpec
INVARIANTS
  FoldExact
  YieldsSoleClaims
CHECK_DEADLOCK FALSE
