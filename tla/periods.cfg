\* The scanner's ticker, 20 minutes each, and the monitor's, 1 minute and 6.
SPECIFICATION PeriodicSpec
CONSTANTS
  Job <- DefaultJobs
  MaxMissed = 3
INVARIANTS
  NextRunSoon
  AgeBounded
