\* Faults in any order, of a start, of the machine and of the operator.
SPECIFICATION FairTLSSpec
CONSTANTS
  KeyPair = {k1, k2, k3, k4, k5}
  MaxFaults = 4
  Absent = Absent
  Torn = Torn
  NoPair = NoPair
CHECK_DEADLOCK FALSE
INVARIANTS
  StuckOnlyByCutKey
  KeepsPair
PROPERTY StartsUnlessStuck
