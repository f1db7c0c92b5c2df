---------------------------- MODULE PeriodicProofs ----------------------------
(***************************************************************************)
(* Proofs about Periodic, for every interval and every timeout.            *)
(***************************************************************************)
EXTENDS Periodic, TLAPS

\* The longest time from the first run to the second; what the missed runs add.
FirstGap == job.interval + job.timeout
Owed     == missed * Longer

\* What is known of the ticker, and of the time between two runs.
Timely ==
  /\ toTick > 0
  /\ running => since <= job.timeout
  /\ ~ticking => running /\ first /\ age = Never /\ ~pending
  /\ first /\ running => ~ticking
  /\ first /\ ~running => since + (IF pending THEN 0 ELSE toTick) <= FirstGap
  /\ ~first /\ ~pending => since + toTick <= job.interval
  /\ ~first /\ ~running => since <= Longer

\* What is known of the runs since a result: between two runs, those that were
\* missed have used up the first wait.
Aging ==
  age # Never =>
    /\ first => missed = 0 /\ age <= since
    /\ ~first /\ running => age <= since + Owed + FirstGap
    /\ ~first /\ ~running => age <= since + Owed + (IF missed = 0 THEN 0 ELSE FirstGap - Longer)

PeriodicInv == PeriodicTypeOK /\ Timely /\ Aging

USE PeriodicAssumption

\* The job never changes, nor what is computed from it.
LEMMA SameJob ==
  ASSUME PeriodicTypeOK, [PeriodicNext]_vars
  PROVE  /\ job' = job /\ job.interval \in Nat \ {0} /\ job.timeout \in Nat \ {0}
         /\ Longer' = Longer /\ FirstGap' = FirstGap
         /\ Longer \in Nat /\ FirstGap \in Nat /\ Longer <= FirstGap
         /\ job.interval <= Longer /\ job.timeout <= Longer
         /\ FirstGap = job.interval + job.timeout
<1>1. job' = job
  BY DEF PeriodicNext, BeginRun, RunSucceeds, RunFails, Waits, Passes, Restart, vars
<1>2. job.interval \in Nat \ {0} /\ job.timeout \in Nat \ {0}
  BY DEF PeriodicTypeOK
<1>3. Longer' = Longer /\ FirstGap' = FirstGap
  BY <1>1 DEF Longer, FirstGap
<1> QED BY <1>1, <1>2, <1>3 DEF Longer, FirstGap

LEMMA Products ==
  ASSUME NEW a \in Nat, NEW b \in Nat
  PROVE  a * b \in Nat /\ 0 * b = 0 /\ (a + 1) * b = a * b + b
OBVIOUS

LEMMA Owing ==
  ASSUME PeriodicTypeOK, PeriodicTypeOK', Longer \in Nat, Longer' = Longer
  PROVE  /\ Owed \in Nat /\ Owed' \in Nat
         /\ missed' = missed => Owed' = Owed
         /\ missed = 0 => Owed = 0
         /\ missed' = 0 => Owed' = 0
         /\ missed' = missed + 1 => Owed' = Owed + Longer
<1>1. missed \in Nat /\ missed' \in Nat
  BY DEF PeriodicTypeOK
<1>2. missed * Longer \in Nat /\ 0 * Longer = 0 /\ (missed + 1) * Longer = missed * Longer + Longer
  BY <1>1, Products
<1>3. missed' * Longer \in Nat
  BY <1>1, Products
<1>4. Owed = missed * Longer /\ Owed' = missed' * Longer
  BY DEF Owed
<1> QED BY <1>2, <1>3, <1>4

LEMMA TypeStep == PeriodicInv /\ [PeriodicNext]_vars => PeriodicTypeOK'
<1> SUFFICES ASSUME PeriodicInv, [PeriodicNext]_vars PROVE PeriodicTypeOK'
  OBVIOUS
<1> USE DEF PeriodicInv, Never
<1>1. /\ running' \in BOOLEAN /\ ticking' \in BOOLEAN /\ pending' \in BOOLEAN /\ first' \in BOOLEAN
  BY Zenon DEF PeriodicNext, BeginRun, RunSucceeds, RunFails, Waits, Passes, Restart, PeriodicTypeOK, vars
<1>2. missed' \in 0..MaxMissed /\ since' \in Nat
  BY DEF PeriodicNext, BeginRun, RunSucceeds, RunFails, Waits, Passes, Clock, Restart, PeriodicTypeOK, vars
<1>3. age' \in Nat \cup {Never}
  BY DEF PeriodicNext, BeginRun, RunSucceeds, RunFails, Waits, Passes, Clock, Restart, PeriodicTypeOK, vars
<1>4. job' = job /\ job.interval \in Nat \ {0}
  BY SameJob
<1>5. toTick' \in 0..job.interval
  BY <1>4 DEF PeriodicNext, BeginRun, RunSucceeds, RunFails, Waits, Passes, Restart, PeriodicTypeOK, Timely, vars
<1> QED BY <1>1, <1>2, <1>3, <1>4, <1>5 DEF PeriodicTypeOK

LEMMA TimelyStep == PeriodicInv /\ [PeriodicNext]_vars => Timely' /\ Aging'
<1> SUFFICES ASSUME PeriodicInv, [PeriodicNext]_vars PROVE Timely' /\ Aging'
  OBVIOUS
<1> USE DEF Never
<1>1. PeriodicTypeOK /\ PeriodicTypeOK' /\ Timely /\ Aging
  BY TypeStep DEF PeriodicInv
<1>2. /\ job' = job /\ job.interval \in Nat \ {0} /\ job.timeout \in Nat \ {0}
      /\ Longer' = Longer /\ FirstGap' = FirstGap
      /\ Longer \in Nat /\ FirstGap \in Nat /\ Longer <= FirstGap
      /\ job.interval <= Longer /\ job.timeout <= Longer
      /\ FirstGap = job.interval + job.timeout
  BY <1>1, SameJob
<1>3. /\ Owed \in Nat /\ Owed' \in Nat
      /\ missed' = missed => Owed' = Owed
      /\ missed = 0 => Owed = 0
      /\ missed' = 0 => Owed' = 0
      /\ missed' = missed + 1 => Owed' = Owed + Longer
  BY <1>1, <1>2, Owing
<1>a. /\ since \in Nat /\ toTick \in Nat /\ toTick <= job.interval /\ age \in Nat \cup {-1} /\ missed \in Nat
  BY <1>1, <1>2 DEF PeriodicTypeOK
<1>4. CASE BeginRun
  <2>1. Timely'
    BY <1>1, <1>2, <1>4, <1>a DEF BeginRun, Timely
  <2>2. Aging'
    BY <1>1, <1>2, <1>3, <1>4, <1>a DEF BeginRun, Timely, Aging
  <2> QED BY <2>1, <2>2
<1>5. CASE RunSucceeds
  <2>1. Timely'
    BY <1>1, <1>2, <1>5, <1>a DEF RunSucceeds, Waits, Timely
  <2>2. Aging'
    BY <1>1, <1>2, <1>3, <1>5, <1>a DEF RunSucceeds, Waits, Timely, Aging
  <2> QED BY <2>1, <2>2
<1>6. CASE RunFails
  <2>1. Timely'
    BY <1>1, <1>2, <1>6, <1>a DEF RunFails, Waits, Timely
  <2>2. Aging'
    BY <1>1, <1>2, <1>3, <1>6, <1>a DEF RunFails, Waits, Timely, Aging
  <2> QED BY <2>1, <2>2
<1>7. CASE Passes
  <2>1. /\ since' = since + 1 /\ running' = running /\ ticking' = ticking /\ first' = first
        /\ missed' = missed /\ Owed' = Owed
        /\ age = Never => age' = Never
        /\ age # Never => age' = age + 1
    BY <1>3, <1>7 DEF Passes, Clock
  <2>2. /\ running => since + 1 <= job.timeout
        /\ ~running => ~pending /\ ticking
    BY <1>1, <1>2, <1>7, <1>a DEF Passes, Timely
  <2>3. ticking => IF toTick = 1 THEN toTick' = job.interval /\ pending' = TRUE
                                 ELSE toTick' = toTick - 1 /\ pending' = pending
    BY <1>7 DEF Passes
  <2>4. ~ticking => toTick' = toTick /\ pending' = pending
    BY <1>7 DEF Passes
  <2>5. Timely'
    BY <1>1, <1>2, <1>a, <2>1, <2>2, <2>3, <2>4 DEF Timely
  <2>6. Aging'
    BY <1>1, <1>2, <1>3, <1>a, <2>1 DEF Aging
  <2> QED BY <2>5, <2>6
<1>8. CASE Restart
  BY <1>2, <1>8 DEF Restart, Timely, Aging
<1>9. CASE UNCHANGED vars
  BY <1>1, <1>2, <1>3, <1>9 DEF vars, Timely, Aging
<1> QED BY <1>4, <1>5, <1>6, <1>7, <1>8, <1>9 DEF PeriodicNext

LEMMA PeriodicInvHolds == PeriodicSpec => []PeriodicInv
<1>1. PeriodicInit => PeriodicInv
  <2> SUFFICES ASSUME PeriodicInit PROVE PeriodicInv
    OBVIOUS
  <2>1. job.interval \in Nat \ {0} /\ job.timeout \in Nat \ {0}
    BY DEF PeriodicInit
  <2>2. 0 \in 0..MaxMissed /\ job.interval \in 0..job.interval
    BY <2>1
  <2>3. PeriodicTypeOK
    BY <2>2 DEF PeriodicInit, PeriodicTypeOK
  <2>4. Timely /\ Aging
    BY <2>1 DEF PeriodicInit, Timely, Aging
  <2> QED BY <2>3, <2>4 DEF PeriodicInv
<1>2. PeriodicInv /\ [PeriodicNext]_vars => PeriodicInv'
  BY TypeStep, TimelyStep DEF PeriodicInv
<1> QED BY <1>1, <1>2, PTL DEF PeriodicSpec

\* The goroutine's state keeps its form.
THEOREM PeriodicTypeCorrect == PeriodicSpec => []PeriodicTypeOK
<1>1. PeriodicInv => PeriodicTypeOK
  BY DEF PeriodicInv
<1> QED BY <1>1, PeriodicInvHolds, PTL

\* The next run begins when the last one is over or an interval after it began,
\* whichever is later (network.go:105-115, hub_monitor.go:48-58).
THEOREM RunsGoOn == PeriodicSpec => []NextRunSoon
<1>1. ASSUME PeriodicInv PROVE NextRunSoon
  <2>1. job.interval \in Nat \ {0} /\ job.timeout \in Nat \ {0} /\ since \in Nat /\ toTick \in Nat
    BY <1>1 DEF PeriodicInv, PeriodicTypeOK
  <2> QED BY <1>1, <2>1 DEF PeriodicInv, Timely, NextRunSoon, FirstGap, Longer
<1> QED BY <1>1, PeriodicInvHolds, PTL

\* A result's age is bounded by the runs missed since (network.go:133-142).
THEOREM ResultsAgeBounded == PeriodicSpec => []AgeBounded
<1>1. ASSUME PeriodicInv PROVE AgeBounded
  <2>1. /\ job.interval \in Nat \ {0} /\ job.timeout \in Nat \ {0}
        /\ since \in Nat /\ toTick \in Nat /\ missed \in Nat /\ age \in Nat \cup {Never}
    BY <1>1 DEF PeriodicInv, PeriodicTypeOK
  <2>2. Longer \in Nat /\ Longer <= job.interval + job.timeout
    BY <2>1 DEF Longer
  <2>3. Owed \in Nat /\ (missed = 0 => Owed = 0)
    BY <2>1, <2>2, Products DEF Owed
  <2>4. since <= FirstGap /\ (running => since <= job.timeout) /\ (~first /\ ~running => since <= Longer)
    BY <1>1, <2>1, <2>2 DEF PeriodicInv, Timely, FirstGap
  <2>5. age # Never => age <= job.interval + 2 * job.timeout + Owed
    BY <1>1, <2>1, <2>2, <2>3, <2>4 DEF PeriodicInv, Aging, FirstGap, Never
  <2> QED BY <2>5 DEF AgeBounded, Owed
<1> QED BY <1>1, PeriodicInvHolds, PTL
===============================================================================
