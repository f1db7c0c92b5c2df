-------------------------------- MODULE Periodic --------------------------------
(***************************************************************************)
(* The goroutine that runs a job at once and then at every tick of a       *)
(* time.Ticker, each run under a timeout: the arp-scan that fills the      *)
(* cache (network.go), whose timeout is the interval itself, and the hub   *)
(* monitor's pass (hub_monitor.go), whose timeout is several intervals.    *)
(*                                                                         *)
(* Time is counted in units.  The ticker is made after the first run, and  *)
(* its channel holds one tick: those that nobody takes are dropped.        *)
(***************************************************************************)
EXTENDS Integers

CONSTANTS
  Job,       \* the jobs: the interval between ticks, the timeout of a run
  MaxMissed  \* bound: runs in a row without a result

ASSUME PeriodicAssumption ==
  /\ Job \subseteq [interval : Nat \ {0}, timeout : Nat \ {0}]
  /\ MaxMissed \in Nat

VARIABLES
  job,      \* the goroutine's job
  running,  \* is a run under way?
  since,    \* the time since the last run began
  ticking,  \* has the ticker been made?
  toTick,   \* the time to its next tick
  pending,  \* is there a tick in its channel?
  age,      \* the time since the run began that gave the last result, or Never
  missed,   \* the runs without a result since then
  first     \* history: has the process begun no run but the first?

vars == <<job, running, since, ticking, toTick, pending, age, missed, first>>

Never == -1

PeriodicTypeOK ==
  /\ job \in Job /\ first \in BOOLEAN
  /\ running \in BOOLEAN /\ ticking \in BOOLEAN /\ pending \in BOOLEAN
  /\ since \in Nat /\ toTick \in 0..job.interval /\ age \in Nat \cup {Never}
  /\ missed \in 0..MaxMissed

\* The process starts, and the job is run without waiting for a tick.
PeriodicInit ==
  /\ job \in Job /\ running = TRUE /\ since = 0 /\ ticking = FALSE /\ toTick = job.interval
  /\ pending = FALSE /\ age = Never /\ missed = 0 /\ first = TRUE

\* The goroutine takes a tick.
BeginRun ==
  /\ ~running /\ pending
  /\ running' = TRUE /\ since' = 0 /\ pending' = FALSE /\ first' = FALSE
  /\ UNCHANGED <<job, ticking, toTick, age, missed>>

\* Back to the select; after the first run the ticker is made.
Waits ==
  /\ running' = FALSE /\ ticking' = TRUE
  /\ toTick' = IF ticking THEN toTick ELSE job.interval
  /\ UNCHANGED <<job, pending, since, first>>

\* Mutant: the first result is kept.
RunSucceedsOnce ==
  /\ running /\ Waits
  /\ age' = (IF age = Never THEN since ELSE age) /\ missed' = 0

\* A run that ends in time with a result.
RunSucceeds ==
  /\ running /\ Waits
  /\ age' = since /\ missed' = 0

\* An error, nothing heard, or the timeout: the last result stays.
RunFails ==
  /\ running /\ Waits /\ missed < MaxMissed
  /\ missed' = missed + 1 /\ UNCHANGED age

Clock == since' = since + 1 /\ age' = IF age = Never THEN Never ELSE age + 1

\* Mutant: the channel holds no tick, and the goroutine loses those of a run.
PassesUnbuffered ==
  /\ ~(running /\ since = job.timeout) /\ ~(~running /\ pending) /\ Clock
  /\ IF ~ticking THEN UNCHANGED <<toTick, pending>>
     ELSE IF toTick = 1 THEN toTick' = job.interval /\ pending' = ~running
     ELSE toTick' = toTick - 1 /\ UNCHANGED pending
  /\ UNCHANGED <<job, running, ticking, missed, first>>

\* Time passes, unless a run has to be cut off or a tick is waited for.  A tick
\* that finds one in the channel is dropped.
Passes ==
  /\ ~(running /\ since = job.timeout) /\ ~(~running /\ pending) /\ Clock
  /\ IF ~ticking THEN UNCHANGED <<toTick, pending>>
     ELSE IF toTick = 1 THEN toTick' = job.interval /\ pending' = TRUE
     ELSE toTick' = toTick - 1 /\ UNCHANGED pending
  /\ UNCHANGED <<job, running, ticking, missed, first>>

Restart ==
  /\ running' = TRUE /\ since' = 0 /\ ticking' = FALSE /\ toTick' = job.interval
  /\ pending' = FALSE /\ age' = Never /\ missed' = 0 /\ first' = TRUE
  /\ UNCHANGED job

PeriodicNext == BeginRun \/ RunSucceeds \/ RunFails \/ Passes \/ Restart

PeriodicSpec == PeriodicInit /\ [][PeriodicNext]_vars

-------------------------------------------------------------------------------
(* Properties.                                                             *)

Longer == IF job.timeout > job.interval THEN job.timeout ELSE job.interval

\* However long runs take and whatever ticks are dropped, the next run begins as soon
\* as the last one is over, or an interval after it began if that is later: only
\* after the first run of a process, which precedes the ticker, is it a whole
\* interval more (network.go:105-115, hub_monitor.go:48-58).
NextRunSoon == since <= IF first THEN job.timeout + job.interval ELSE Longer

\* The result in hand, a cached sighting among them, is never older than the runs
\* missed since allow: the first wait, the run that is under way, and the longer of
\* interval and timeout for each run missed (network.go:133-142).
AgeBounded ==
  age # Never => age <= job.interval + 2 * job.timeout + missed * Longer
===============================================================================
