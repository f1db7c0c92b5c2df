------------------------------ MODULE KioskProofs ------------------------------
(***************************************************************************)
(* Proofs about Kiosk, for any number of resets, launches and faults.      *)
(***************************************************************************)
EXTENDS Kiosk, TLAPS

\* A directory about to be used is nobody else's, and users have only left
\* browsers that have been up.
OwnDirs ==
  /\ \A r \in Reset : dir[r] \in Launch =>
       /\ browser[dir[r]] = "none"
       /\ \A q \in Reset : dir[q] = dir[r] => q = r
  /\ \A l \in left : browser[l] \in {"up", "closing"}

\* While nothing is tangled, one run at most is past its pkill and unsignalled.
Alone ==
  ~tangled =>
    /\ \A k, l \in Showing : k = l
    /\ \A q, r \in Reset : PastKill(q) /\ PastKill(r) => q = r
    /\ \A r \in Reset : PastKill(r) => Showing = {}

KioskInv == KioskTypeOK /\ OwnDirs /\ Alone /\ NothingLeaks /\ LogoutHeard

USE KioskAssumption

\* Every action keeps the state's form.
LEMMA TypeStep ==
  ASSUME KioskTypeOK, [KioskNext]_vars
  PROVE  KioskTypeOK'
<1> USE DEF KioskTypeOK, Steps
<1>1. ASSUME NEW r \in Reset, NEW l \in Launch, AskReset(r, l) PROVE KioskTypeOK'
  BY <1>1 DEF AskReset, Schedule
<1>2. ASSUME NEW r \in Reset, WatchdogTick(r) \/ WatchdogBlind(r) PROVE KioskTypeOK'
  BY <1>2 DEF WatchdogTick, WatchdogBlind, Schedule, Fault
<1>3. ASSUME NEW r \in Reset, Begin(r) PROVE KioskTypeOK'
  BY <1>3 DEF Begin, Go
<1>4. ASSUME NEW r \in Reset, Pkill(r) PROVE KioskTypeOK'
  BY <1>4 DEF Pkill, Go, Signalled
<1>5. ASSUME NEW r \in Reset, Sweep(r) PROVE KioskTypeOK'
  BY <1>5 DEF Sweep, Go
<1>6. ASSUME NEW r \in Reset, Mktemp(r) PROVE KioskTypeOK'
  BY <1>6 DEF Mktemp, Go, FreeNames
<1>7. ASSUME NEW r \in Reset, LaunchWrapper(r) PROVE KioskTypeOK'
  BY <1>7 DEF LaunchWrapper, Go
<1>8. ASSUME NEW r \in Reset, ResetFails(r) PROVE KioskTypeOK'
  BY <1>8 DEF ResetFails, Fault
<1>9. ASSUME NEW l \in Launch, BrowserStarts(l) PROVE KioskTypeOK'
  BY <1>9 DEF BrowserStarts
<1>10. ASSUME NEW l \in Launch, BrowserEnds(l) \/ StartFails(l) PROVE KioskTypeOK'
  BY <1>10 DEF BrowserEnds, StartFails, Fault
<1>11. ASSUME NEW l \in Launch, BrowserGone(l) PROVE KioskTypeOK'
  BY <1>11 DEF BrowserGone
<1>12. ASSUME NEW l \in Launch, HardKill(l) PROVE KioskTypeOK'
  BY <1>12 DEF HardKill, Fault
<1>13. CASE Restart
  <2>1. at' \in [Reset -> {"delayed", "idle"}]
    BY <1>13 DEF Restart
  <2>2. \A r \in Reset : at'[r] \in {"delayed", "idle"}
    BY <2>1
  <2>3. dirs' \in SUBSET Launch /\ orphaned' \in SUBSET dirs' /\ left' \in SUBSET Launch
    BY <1>13 DEF Restart
  <2>4. faults' \in 0..MaxFaults
    BY <1>13 DEF Restart, Fault
  <2>5. at' \in [Reset -> Steps \cup {"idle"}]
    BY <2>1
  <2> QED BY <1>13, <2>2, <2>3, <2>4, <2>5 DEF Restart
<1>14. CASE WatchdogContinues \/ UNCHANGED vars
  BY <1>14 DEF WatchdogContinues, vars
<1> QED BY <1>1, <1>2, <1>3, <1>4, <1>5, <1>6, <1>7, <1>8, <1>9, <1>10, <1>11, <1>12, <1>13, <1>14 DEF KioskNext, ResetStep

\* mktemp's names are free, and only browsers that are up are left.
LEMMA OwnDirsStep ==
  ASSUME KioskTypeOK, OwnDirs, [KioskNext]_vars
  PROVE  OwnDirs'
<1> USE DEF KioskTypeOK, OwnDirs, Steps
<1>1. ASSUME NEW r \in Reset, NEW l \in Launch, AskReset(r, l) PROVE OwnDirs'
  BY <1>1 DEF AskReset, Schedule
<1>2. ASSUME NEW r \in Reset, WatchdogTick(r) \/ WatchdogBlind(r) PROVE OwnDirs'
  BY <1>2 DEF WatchdogTick, WatchdogBlind, Schedule, Fault
<1>3. ASSUME NEW r \in Reset, Begin(r) PROVE OwnDirs'
  BY <1>3 DEF Begin, Go
<1>4. ASSUME NEW r \in Reset, Pkill(r) PROVE OwnDirs'
  BY <1>4 DEF Pkill, Go, Signalled
<1>5. ASSUME NEW r \in Reset, Sweep(r) PROVE OwnDirs'
  BY <1>5 DEF Sweep, Go
<1>6. ASSUME NEW r \in Reset, Mktemp(r) PROVE OwnDirs'
  BY <1>6 DEF Mktemp, Go, FreeNames
<1>7. ASSUME NEW r \in Reset, LaunchWrapper(r) PROVE OwnDirs'
  BY <1>7 DEF LaunchWrapper, Go
<1>8. ASSUME NEW r \in Reset, ResetFails(r) PROVE OwnDirs'
  BY <1>8 DEF ResetFails, Fault
<1>9. ASSUME NEW l \in Launch, BrowserStarts(l) PROVE OwnDirs'
  BY <1>9 DEF BrowserStarts
<1>10. ASSUME NEW l \in Launch, BrowserEnds(l) \/ StartFails(l) PROVE OwnDirs'
  BY <1>10 DEF BrowserEnds, StartFails, Fault
<1>11. ASSUME NEW l \in Launch, BrowserGone(l) PROVE OwnDirs'
  BY <1>11 DEF BrowserGone
<1>12. ASSUME NEW l \in Launch, HardKill(l) PROVE OwnDirs'
  BY <1>12 DEF HardKill, Fault
<1>13. CASE Restart
  BY <1>13 DEF Restart, Fault
<1>14. CASE WatchdogContinues \/ UNCHANGED vars
  BY <1>14 DEF WatchdogContinues, vars
<1> QED BY <1>1, <1>2, <1>3, <1>4, <1>5, <1>6, <1>7, <1>8, <1>9, <1>10, <1>11, <1>12, <1>13, <1>14 DEF KioskNext, ResetStep

\* A pkill on its own leaves nobody but its own reset; a tangled one says so.
LEMMA AloneStep ==
  ASSUME KioskTypeOK, OwnDirs, Alone, [KioskNext]_vars
  PROVE  Alone'
<1> USE DEF KioskTypeOK, OwnDirs, Alone, Steps, Showing, PastKill
<1>1. ASSUME NEW r \in Reset, NEW l \in Launch, AskReset(r, l) PROVE Alone'
  BY <1>1 DEF AskReset, Schedule
<1>2. ASSUME NEW r \in Reset, WatchdogTick(r) \/ WatchdogBlind(r) PROVE Alone'
  BY <1>2 DEF WatchdogTick, WatchdogBlind, Schedule, Fault
<1>3. ASSUME NEW r \in Reset, Begin(r) PROVE Alone'
  BY <1>3 DEF Begin, Go
<1>4. ASSUME NEW r \in Reset, Pkill(r) PROVE Alone'
  BY <1>4 DEF Pkill, Go, Signalled
<1>5. ASSUME NEW r \in Reset, Sweep(r) PROVE Alone'
  BY <1>5 DEF Sweep, Go
<1>6. ASSUME NEW r \in Reset, Mktemp(r) PROVE Alone'
  BY <1>6 DEF Mktemp, Go, FreeNames
<1>7. ASSUME NEW r \in Reset, LaunchWrapper(r) PROVE Alone'
  BY <1>7 DEF LaunchWrapper, Go
<1>8. ASSUME NEW r \in Reset, ResetFails(r) PROVE Alone'
  BY <1>8 DEF ResetFails, Fault
<1>9. ASSUME NEW l \in Launch, BrowserStarts(l) PROVE Alone'
  BY <1>9 DEF BrowserStarts
<1>10. ASSUME NEW l \in Launch, BrowserEnds(l) \/ StartFails(l) PROVE Alone'
  BY <1>10 DEF BrowserEnds, StartFails, Fault
<1>11. ASSUME NEW l \in Launch, BrowserGone(l) PROVE Alone'
  BY <1>11 DEF BrowserGone
<1>12. ASSUME NEW l \in Launch, HardKill(l) PROVE Alone'
  BY <1>12 DEF HardKill, Fault
<1>13. CASE Restart
  BY <1>13 DEF Restart, Fault
<1>14. CASE WatchdogContinues \/ UNCHANGED vars
  BY <1>14 DEF WatchdogContinues, vars
<1> QED BY <1>1, <1>2, <1>3, <1>4, <1>5, <1>6, <1>7, <1>8, <1>9, <1>10, <1>11, <1>12, <1>13, <1>14 DEF KioskNext, ResetStep

\* Whoever gives a directory up removes it, or was killed.
LEMMA LeaksStep ==
  ASSUME KioskTypeOK, OwnDirs, NothingLeaks, [KioskNext]_vars
  PROVE  NothingLeaks'
<1> USE DEF KioskTypeOK, OwnDirs, NothingLeaks, Steps
<1>1. ASSUME NEW r \in Reset, NEW l \in Launch, AskReset(r, l) PROVE NothingLeaks'
  BY <1>1 DEF AskReset, Schedule
<1>2. ASSUME NEW r \in Reset, WatchdogTick(r) \/ WatchdogBlind(r) PROVE NothingLeaks'
  BY <1>2 DEF WatchdogTick, WatchdogBlind, Schedule, Fault
<1>3. ASSUME NEW r \in Reset, Begin(r) PROVE NothingLeaks'
  BY <1>3 DEF Begin, Go
<1>4. ASSUME NEW r \in Reset, Pkill(r) PROVE NothingLeaks'
  BY <1>4 DEF Pkill, Go, Signalled
<1>5. ASSUME NEW r \in Reset, Sweep(r) PROVE NothingLeaks'
  BY <1>5 DEF Sweep, Go
<1>6. ASSUME NEW r \in Reset, Mktemp(r) PROVE NothingLeaks'
  BY <1>6 DEF Mktemp, Go, FreeNames
<1>7. ASSUME NEW r \in Reset, LaunchWrapper(r) PROVE NothingLeaks'
  BY <1>7 DEF LaunchWrapper, Go
<1>8. ASSUME NEW r \in Reset, ResetFails(r) PROVE NothingLeaks'
  BY <1>8 DEF ResetFails, Fault
<1>9. ASSUME NEW l \in Launch, BrowserStarts(l) PROVE NothingLeaks'
  BY <1>9 DEF BrowserStarts
<1>10. ASSUME NEW l \in Launch, BrowserEnds(l) \/ StartFails(l) PROVE NothingLeaks'
  BY <1>10 DEF BrowserEnds, StartFails, Fault
<1>11. ASSUME NEW l \in Launch, BrowserGone(l) PROVE NothingLeaks'
  BY <1>11 DEF BrowserGone
<1>12. ASSUME NEW l \in Launch, HardKill(l) PROVE NothingLeaks'
  BY <1>12 DEF HardKill, Fault
<1>13. CASE Restart
  BY <1>13 DEF Restart, Fault
<1>14. CASE WatchdogContinues \/ UNCHANGED vars
  BY <1>14 DEF WatchdogContinues, vars
<1> QED BY <1>1, <1>2, <1>3, <1>4, <1>5, <1>6, <1>7, <1>8, <1>9, <1>10, <1>11, <1>12, <1>13, <1>14 DEF KioskNext, ResetStep

\* A reset that was to signal a left browser does so, or fails.
LEMMA LogoutStep ==
  ASSUME KioskTypeOK, OwnDirs, LogoutHeard, [KioskNext]_vars
  PROVE  LogoutHeard'
<1> USE DEF KioskTypeOK, OwnDirs, LogoutHeard, Steps
<1>1. ASSUME NEW r \in Reset, NEW l \in Launch, AskReset(r, l) PROVE LogoutHeard'
  BY <1>1 DEF AskReset, Schedule
<1>2. ASSUME NEW r \in Reset, WatchdogTick(r) \/ WatchdogBlind(r) PROVE LogoutHeard'
  BY <1>2 DEF WatchdogTick, WatchdogBlind, Schedule, Fault
<1>3. ASSUME NEW r \in Reset, Begin(r) PROVE LogoutHeard'
  BY <1>3 DEF Begin, Go
<1>4. ASSUME NEW r \in Reset, Pkill(r) PROVE LogoutHeard'
  BY <1>4 DEF Pkill, Go, Signalled
<1>5. ASSUME NEW r \in Reset, Sweep(r) PROVE LogoutHeard'
  BY <1>5 DEF Sweep, Go
<1>6. ASSUME NEW r \in Reset, Mktemp(r) PROVE LogoutHeard'
  BY <1>6 DEF Mktemp, Go, FreeNames
<1>7. ASSUME NEW r \in Reset, LaunchWrapper(r) PROVE LogoutHeard'
  BY <1>7 DEF LaunchWrapper, Go
<1>8. ASSUME NEW r \in Reset, ResetFails(r) PROVE LogoutHeard'
  BY <1>8 DEF ResetFails, Fault
<1>9. ASSUME NEW l \in Launch, BrowserStarts(l) PROVE LogoutHeard'
  BY <1>9 DEF BrowserStarts
<1>10. ASSUME NEW l \in Launch, BrowserEnds(l) \/ StartFails(l) PROVE LogoutHeard'
  BY <1>10 DEF BrowserEnds, StartFails, Fault
<1>11. ASSUME NEW l \in Launch, BrowserGone(l) PROVE LogoutHeard'
  BY <1>11 DEF BrowserGone
<1>12. ASSUME NEW l \in Launch, HardKill(l) PROVE LogoutHeard'
  BY <1>12 DEF HardKill, Fault
<1>13. CASE Restart
  BY <1>13 DEF Restart, Fault
<1>14. CASE WatchdogContinues \/ UNCHANGED vars
  BY <1>14 DEF WatchdogContinues, vars
<1> QED BY <1>1, <1>2, <1>3, <1>4, <1>5, <1>6, <1>7, <1>8, <1>9, <1>10, <1>11, <1>12, <1>13, <1>14 DEF KioskNext, ResetStep

LEMMA KioskInvHolds == KioskSpec => []KioskInv
<1>1. ASSUME KioskInit PROVE KioskInv
  <2>1. at \in [Reset -> {"delayed", "idle"}]
    BY <1>1 DEF KioskInit
  <2>2. at \in [Reset -> Steps \cup {"idle"}] /\ \A r \in Reset : at[r] \in {"delayed", "idle"}
    BY <2>1 DEF Steps
  <2>3. dir \in [Reset -> {NoLaunch}] /\ browser \in [Launch -> {"none"}] /\ faults \in 0..MaxFaults
    BY <1>1 DEF KioskInit
  <2>4. \A r \in Reset : dir[r] = NoLaunch /\ at[r] # "launch"
    BY <2>2, <2>3
  <2>5. KioskTypeOK
    BY <1>1, <2>2, <2>3, <2>4 DEF KioskInit, KioskTypeOK
  <2>6. OwnDirs
    BY <1>1 DEF KioskInit, OwnDirs
  <2>7. Showing = {} /\ \A r \in Reset : ~PastKill(r)
    BY <2>2, <2>3 DEF Showing, PastKill
  <2>8. Alone
    BY <2>7 DEF Alone
  <2>9. NothingLeaks /\ LogoutHeard
    BY <1>1 DEF KioskInit, NothingLeaks, LogoutHeard
  <2> QED BY <2>5, <2>6, <2>8, <2>9 DEF KioskInv
<1>2. KioskInv /\ [KioskNext]_vars => KioskInv'
  BY TypeStep, OwnDirsStep, AloneStep, LeaksStep, LogoutStep DEF KioskInv
<1> QED BY <1>1, <1>2, PTL DEF KioskSpec

\* Resets, browsers and directories keep their form.
THEOREM KioskTypeCorrect == KioskSpec => []KioskTypeOK
<1>1. KioskInv => KioskTypeOK
  BY DEF KioskInv
<1> QED BY <1>1, KioskInvHolds, PTL

\* A reset that is not overlapped leaves one browser, whatever there was before
\* (kiosk.go:140-153).
THEOREM OneBrowserShown == KioskSpec => []OneBrowser
<1>1. KioskInv => OneBrowser
  BY DEF KioskInv, Alone, OneBrowser
<1> QED BY <1>1, KioskInvHolds, PTL

\* No directory stays behind but those of what was killed
\* (valet-kiosk-reset.sh:24-28).
THEOREM DirectoriesReturned == KioskSpec => []NothingLeaks
<1>1. KioskInv => NothingLeaks
  BY DEF KioskInv
<1> QED BY <1>1, KioskInvHolds, PTL

\* A reset that is not overlapped sweeps only what nobody is going to use
\* (valet-kiosk-reset.sh:12-19).
THEOREM SweepsSpareUsed == KioskSpec => SweepSparesUsed
<1> DEFINE Spares(r) ==
      at[r] = "sweep" /\ at'[r] = "mktemp" =>
        \A l \in dirs \ dirs' : l \notin Showing /\ \A q \in Reset : dir[q] # l
<1>1. KioskInv /\ ~tangled => \A r \in Reset : Spares(r)
  <2> SUFFICES ASSUME KioskInv, ~tangled, NEW r \in Reset, at[r] = "sweep",
                      NEW l \in dirs \ dirs'
               PROVE  l \notin Showing /\ \A q \in Reset : dir[q] # l
    OBVIOUS
  <2>1. PastKill(r) /\ l \in Launch
    BY DEF PastKill, KioskInv, KioskTypeOK
  <2>2. Showing = {}
    BY <2>1 DEF KioskInv, Alone
  <2>3. ASSUME NEW q \in Reset, dir[q] = l PROVE FALSE
    <3>1. at[q] = "launch"
      BY <2>1, <2>3 DEF KioskInv, KioskTypeOK
    <3>2. q = r
      BY <2>1, <3>1 DEF PastKill, KioskInv, Alone
    <3> QED BY <3>1, <3>2
  <2> QED BY <2>2, <2>3
<1>2. KioskInv /\ [KioskNext]_vars => [~tangled => \A r \in Reset : Spares(r)]_vars
  BY <1>1
<1> QED BY <1>2, KioskInvHolds, PTL DEF KioskSpec, SweepSparesUsed

\* A browser whose user is done is signalled, or is going to be
\* (kiosk.go:80-90).
THEOREM LogoutsHeard == KioskSpec => []LogoutHeard
<1>1. KioskInv => LogoutHeard
  BY DEF KioskInv
<1> QED BY <1>1, KioskInvHolds, PTL
===============================================================================
