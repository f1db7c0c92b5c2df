--------------------------------- MODULE Kiosk ---------------------------------
(***************************************************************************)
(* The kiosk (kiosk.go, scripts/valet-kiosk-reset.sh): browsers that are   *)
(* launched, signalled and cleaned up by reset scripts, which handlers,    *)
(* the start and the watchdog schedule without looking at each other.      *)
(*                                                                         *)
(* A reset is a goroutine that sleeps and then runs the script; each line  *)
(* of the script that starts a command is a step.  A launch stands for a   *)
(* run's profile directory together with the wrapper shell and the browser *)
(* that use it: mktemp picks one whose name is free.  A wrapper still      *)
(* starting has no --user-data-dir argument that pkill could match, but    *)
(* carries the browser's name, which is all that pgrep looks for.          *)
(***************************************************************************)
EXTENDS Naturals

CONSTANTS
  Reset,        \* bound: resets under way at one time
  Launch,       \* bound: profile directories and browsers at one time
  MaxFaults,    \* bound: kills, restarts and failing commands
  SelfMatches,  \* is the browser named on valet's own command line?
  NoLaunch

ASSUME KioskAssumption ==
  /\ MaxFaults \in Nat /\ SelfMatches \in BOOLEAN /\ NoLaunch \notin Launch

VARIABLES
  at,        \* each reset: the step it is about to take
  dir,       \* each reset: the directory it has made
  browser,   \* each launch: "none", "starting", "up" or "closing"
  dirs,      \* the directories that exist
  faults,    \* how many faults there have been
  left,      \* history: browsers whose user is done with them, no reset having failed since
  tangled,   \* history: at the last pkill another reset was past its own
  orphaned   \* history: directories whose browser or script was killed

vars == <<at, dir, browser, dirs, faults, left, tangled, orphaned>>

Steps == {"delayed", "kill", "sweep", "mktemp", "launch"}

KioskTypeOK ==
  /\ at \in [Reset -> Steps \cup {"idle"}] /\ dir \in [Reset -> Launch \cup {NoLaunch}]
  /\ browser \in [Launch -> {"none", "starting", "up", "closing"}]
  /\ dirs \in SUBSET Launch /\ left \in SUBSET Launch /\ orphaned \in SUBSET dirs
  /\ faults \in 0..MaxFaults /\ tangled \in BOOLEAN
  /\ \A r \in Reset : dir[r] # NoLaunch <=> at[r] = "launch"

\* scheduleKioskResetOnStartup.
KioskInit ==
  /\ \E r \in Reset : at = [q \in Reset |-> IF q = r THEN "delayed" ELSE "idle"]
  /\ dir = [r \in Reset |-> NoLaunch] /\ browser = [l \in Launch |-> "none"]
  /\ dirs \in SUBSET Launch /\ orphaned = dirs
  /\ faults = 0 /\ left = {} /\ tangled = FALSE

Fault == faults < MaxFaults /\ faults' = faults + 1

-------------------------------------------------------------------------------
(* Who asks for a reset.                                                   *)

Schedule(r) == at[r] = "idle" /\ at' = [at EXCEPT ![r] = "delayed"]

\* Mutant: one reset at a time is thought to be enough.
AskResetOnce(r, l) ==
  /\ browser[l] \in {"up", "closing"} /\ at[r] = "idle"
  /\ IF \E q \in Reset : at[q] # "idle" THEN UNCHANGED at ELSE Schedule(r)
  /\ left' = left \cup {l}
  /\ UNCHANGED <<dir, browser, dirs, faults, tangled, orphaned>>

\* scheduleKioskResetAfterResponse: a browser with the kiosk cookie has logged
\* out, or come back from RC with an error, a stale state or another account.
\* Its request may be looked at when it is on its way out already.
AskReset(r, l) ==
  /\ browser[l] \in {"up", "closing"} /\ Schedule(r)
  /\ left' = left \cup {l}
  /\ UNCHANGED <<dir, browser, dirs, faults, tangled, orphaned>>

\* Mutant: a profile directory is taken for the sign of a running browser.
RunningByProfile == dirs # {} \/ \E r \in Reset : at[r] \in Steps \ {"delayed"}

\* What pgrep -f matches: a wrapper or a browser, a script with the browser's
\* name among its arguments, and valet itself if its own flags name it.
Running ==
  \/ SelfMatches \/ \E l \in Launch : browser[l] # "none"
  \/ \E r \in Reset : at[r] \in Steps \ {"delayed"}

WatchdogContinues == Running /\ UNCHANGED vars

WatchdogTick(r) ==
  /\ ~Running /\ Schedule(r)
  /\ UNCHANGED <<dir, browser, dirs, faults, left, tangled, orphaned>>

\* pgrep cannot run, which is taken for no match.
WatchdogBlind(r) ==
  /\ Fault /\ Schedule(r)
  /\ UNCHANGED <<dir, browser, dirs, left, tangled, orphaned>>

-------------------------------------------------------------------------------
(* A reset: the goroutine's delay, then the script.                        *)

Go(r, from, to) == at[r] = from /\ at' = [at EXCEPT ![r] = to]

Begin(r) ==
  /\ Go(r, "delayed", "kill")
  /\ UNCHANGED <<dir, browser, dirs, faults, left, tangled, orphaned>>

\* Past its own pkill, and so out of reach of its own signal.
PastKill(r) == at[r] \in {"sweep", "mktemp", "launch"}

Signalled == [l \in Launch |-> IF browser[l] = "up" THEN "closing" ELSE browser[l]]

\* Mutant: only the browser whose user is done is signalled.
PkillLeft(r) ==
  /\ Go(r, "kill", "sweep")
  /\ browser' = [l \in Launch |-> IF l \in left THEN Signalled[l] ELSE browser[l]]
  /\ tangled' = \/ \E q \in Reset : PastKill(q)
                \/ \E l \in Launch : browser[l] = "starting"
  /\ UNCHANGED <<dir, dirs, faults, left, orphaned>>

\* pkill -f -- --user-data-dir=<base>: every browser, and no wrapper.
Pkill(r) ==
  /\ Go(r, "kill", "sweep")
  /\ browser' = Signalled
  /\ tangled' = \/ \E q \in Reset : PastKill(q)
                \/ \E l \in Launch : browser[l] = "starting"
  /\ UNCHANGED <<dir, dirs, faults, left, orphaned>>

\* rm -rf of every directory of the base name.  One that a process is still
\* writing to may survive.
Sweep(r) ==
  /\ Go(r, "sweep", "mktemp")
  /\ dirs' \in SUBSET {l \in dirs : browser[l] # "none"}
  /\ orphaned' = orphaned \cap dirs'
  /\ UNCHANGED <<dir, browser, faults, left, tangled>>

\* A random name: not that of a directory or of a run still under way.
FreeNames == {l \in Launch \ dirs : browser[l] = "none" /\ \A r \in Reset : dir[r] # l}

Mktemp(r) ==
  /\ Go(r, "mktemp", "launch")
  /\ \E l \in FreeNames : dir' = [dir EXCEPT ![r] = l] /\ dirs' = dirs \cup {l}
  /\ UNCHANGED <<browser, faults, left, tangled, orphaned>>

\* nohup sh -c '...' &
LaunchWrapper(r) ==
  /\ Go(r, "launch", "idle")
  /\ browser' = [browser EXCEPT ![dir[r]] = "starting"]
  /\ dir' = [dir EXCEPT ![r] = NoLaunch]
  /\ UNCHANGED <<dirs, faults, left, tangled, orphaned>>

\* The script cannot start, mktemp fails under set -e, or ResetTimeout kills it.
ResetFails(r) ==
  /\ at[r] \in Steps /\ Fault
  /\ at' = [at EXCEPT ![r] = "idle"] /\ dir' = [dir EXCEPT ![r] = NoLaunch]
  /\ left' = IF at[r] \in {"delayed", "kill"} THEN {} ELSE left
  /\ orphaned' = orphaned \cup ({dir[r]} \cap dirs)
  /\ UNCHANGED <<browser, dirs, tangled>>

-------------------------------------------------------------------------------
(* Browsers.                                                               *)

\* The wrapper runs the browser, which makes its directory if it is gone.
BrowserStarts(l) ==
  /\ browser[l] = "starting"
  /\ browser' = [browser EXCEPT ![l] = "up"] /\ dirs' = dirs \cup {l}
  /\ UNCHANGED <<at, dir, faults, left, tangled, orphaned>>

\* It ends by itself: a crash, the window closed.
BrowserEnds(l) ==
  /\ browser[l] = "up"
  /\ browser' = [browser EXCEPT ![l] = "closing"]
  /\ UNCHANGED <<at, dir, dirs, faults, left, tangled, orphaned>>

\* It never comes up: no display, no such browser.
StartFails(l) ==
  /\ browser[l] = "starting" /\ Fault
  /\ browser' = [browser EXCEPT ![l] = "closing"]
  /\ UNCHANGED <<at, dir, dirs, left, tangled, orphaned>>

\* Mutant: a wrapper without the trap.
BrowserGoneOnly(l) ==
  /\ browser[l] = "closing"
  /\ browser' = [browser EXCEPT ![l] = "none"] /\ left' = left \ {l}
  /\ UNCHANGED <<at, dir, dirs, faults, tangled, orphaned>>

\* It has gone, and the wrapper's EXIT trap removes its directory.
BrowserGone(l) ==
  /\ browser[l] = "closing"
  /\ browser' = [browser EXCEPT ![l] = "none"]
  /\ dirs' = dirs \ {l} /\ left' = left \ {l} /\ orphaned' = orphaned \ {l}
  /\ UNCHANGED <<at, dir, faults, tangled>>

\* SIGKILL to browser and wrapper.
HardKill(l) ==
  /\ browser[l] # "none" /\ Fault
  /\ browser' = [browser EXCEPT ![l] = "none"] /\ left' = left \ {l}
  /\ orphaned' = orphaned \cup ({l} \cap dirs)
  /\ UNCHANGED <<at, dir, dirs, tangled>>

\* Valet dies; systemd kills what is left of its control group and starts it again.
Restart ==
  /\ Fault
  /\ \E r \in Reset : at' = [q \in Reset |-> IF q = r THEN "delayed" ELSE "idle"]
  /\ dir' = [r \in Reset |-> NoLaunch] /\ browser' = [l \in Launch |-> "none"]
  /\ dirs' \in SUBSET dirs /\ orphaned' = dirs'
  /\ left' = {} /\ tangled' = FALSE

ResetStep(r) == Begin(r) \/ Pkill(r) \/ Sweep(r) \/ Mktemp(r) \/ LaunchWrapper(r)

KioskNext ==
  \/ \E r \in Reset :
       \/ WatchdogTick(r) \/ WatchdogBlind(r) \/ ResetStep(r) \/ ResetFails(r)
       \/ \E l \in Launch : AskReset(r, l)
  \/ \E l \in Launch :
       BrowserStarts(l) \/ BrowserEnds(l) \/ StartFails(l) \/ BrowserGone(l) \/ HardKill(l)
  \/ WatchdogContinues \/ Restart

KioskSpec == KioskInit /\ [][KioskNext]_vars

\* The ticker fires, goroutines and scripts run, a wrapper runs its browser, and
\* a browser obeys its signal.  Users, crashes and faults owe nothing.
KioskFairness ==
  /\ WF_vars(\E r \in Reset : WatchdogTick(r))
  /\ \A r \in Reset : WF_vars(ResetStep(r))
  /\ \A l \in Launch : WF_vars(BrowserStarts(l)) /\ WF_vars(BrowserGone(l))

FairKioskSpec == KioskSpec /\ KioskFairness

-------------------------------------------------------------------------------
(* Properties.                                                             *)

Showing == {l \in Launch : browser[l] \in {"starting", "up"}}

\* A reset that no other one overlaps leaves one browser on the screen, and so
\* heals what overlapping ones have left (kiosk.go:140-153).
OneBrowser == ~tangled => \A k, l \in Showing : k = l

\* Temp space does not accumulate: a directory that exists belongs to a browser
\* or to a script about to launch one, or its owner was killed
\* (valet-kiosk-reset.sh:24-28).
NothingLeaks ==
  \A l \in dirs \ orphaned : browser[l] # "none" \/ \E r \in Reset : dir[r] = l

\* A user who is done is not left to the next one: the browser is signalled, or a
\* reset that will signal it is still to come (kiosk.go:80-90).
LogoutHeard ==
  \A l \in left : browser[l] = "up" => \E r \in Reset : at[r] \in {"delayed", "kill"}

\* "There is no shared state to race over" (valet-kiosk-reset.sh:12-13): unless
\* resets overlap, a sweep removes no directory that a script is about to use or
\* that belongs to a browser coming up or showing; a browser closing may lose its.
SweepSparesUsed ==
  [][~tangled => \A r \in Reset : at[r] = "sweep" /\ at'[r] = "mktemp" =>
       \A l \in dirs \ dirs' : l \notin Showing /\ \A q \in Reset : dir[q] # l]_vars

\* Whatever overlaps, and however often users leave, the kiosk shows a browser
\* again and again while faults are finitely many and
\* valet is not itself taken for the browser (kiosk.go:101-138).
KioskReturns == []<>(\E l \in Launch : browser[l] = "up")

===============================================================================
