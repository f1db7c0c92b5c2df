# V.A.L.E.T. in TLA+

V.A.L.E.T. (`src/`, Go) marks people of the Recurse Center (RC) as present in
the RC's Hub when a device they registered is on the local network. This
directory models the program's core, model-checks it with TLC and proves its
main properties with TLAPS.

## 1. The system

| component | state it keeps | operations | interacts with |
|---|---|---|---|
| Hub monitor (`hub_monitor.go`) | `hubVisits` (in memory), the locals of a pass | one pass per tick: scan, read assignments, and for every device: skip, probe, refresh token, find profile, PATCH, record | scanner (calls), store (SQL), RC (HTTP) |
| RC client (`hub_client.go`) | none | profile search, own profile, PATCH of a visit | RC |
| Account store (`store.go`) | SQLite tables `accounts`, `macs`, `tokens` (survive a crash); maps under one mutex (do not) | add and remove a MAC, read assignments, save and read tokens and profile ids | everybody |
| Network scanner (`network.go`) | `deviceCache`, under a mutex | background arp-scan; merge with `ip neigh`; judge and probe one device | kernel, `arp-scan` |
| OAuth credentials (`oauth.go`, parts of `web.go`) | `oauthStates`, `tokens` | start an authorization, callback, refresh | RC, browser, hub monitor |
| Web handlers and sessions (`web.go`, `session.go`) | `sessions` | login, logout, account page, MAC forms, OAuth start and callback | store, kiosk |
| Kiosk (`kiosk.go`, `scripts/valet-kiosk-reset.sh`) | browser processes, profile directories | reset, watchdog, bootstrap cookie | handlers, operating system |
| TLS files (`tls.go`) | certificate and key on disk | load or create | start-up |
| Migration (`scripts/migrate`) | old and new database | copy the tables | files |
| Validation, configuration, start-up, page, deployment | | | |

What runs at one time: the hub monitor's goroutine, the scanner's, one
goroutine per HTTP request, one per kiosk reset, the watchdog. They share the
database (one connection, so SQL statements are atomic but sequences of them
are not), the maps of `accountStore` (one mutex, held per operation) and
`deviceCache` (a mutex that is not held during a scan).

What is hard, and what correctness asks of each component:

- *Hub monitor*: a pass takes minutes, and works from a date, a scan and a map
  of assignments that are all read at its start, while midnight passes, people
  leave and register devices, and tokens change. Any call may fail, RC's answer
  may be lost, the process may die between RC's entry and the note of it. It
  must only mark people whose undisputed device it had grounds to take for
  present in this pass, never remember a visit RC does not hold, not repeat one it
  knows of, let nobody's failure starve the others.
- *Assignments*: the query's rows arrive in any order; a disputed device must
  come out as disputed.
- *Scanner*: cache, kernel table and reality differ in age. Nobody may
  be found present without a fresh kernel entry or an answer; silence must mean
  silence at every address.
- *Credentials*: callbacks and the monitor overwrite each other's tokens, RC may
  rotate a token and its answer get lost. Tokens must stay with their person,
  and no order of events may leave a spent token behind. A state admits one
  callback.
- *Sessions*: requests of one browser overlap, and so do their answers; pages
  outlive sessions, and a kiosk browser has many users. A form must write to the
  account whose page it was on, a logout must last, and whoever is logged in
  must be able to log out.
- *Kiosk*: handlers, the start and the watchdog schedule resets without looking
  at each other, and a reset does not wait for the browser it ends. Each user
  who is done must be gone from the screen, one browser must be left and always
  come back, and profile directories must not pile up.
- *TLS files*: two files are written one after the other, and a start only looks
  whether both exist. A cut-off write must not wedge the server, nor a restart
  replace a pair that browsers have accepted.
- *Migration*: statements without a transaction, beside a server that may still
  write. Nothing that stays put may be lost, and an unfinished file must not be
  taken for a finished one.
- *Periodic jobs*: scans and passes that take longer than their interval. The
  next one must still begin, and what is cached must not age without bound.

`PROJECT.json` lists every such hazard at its line, with the properties that
cover it or the reason none does yet.

## 2. Modules

| module | models | built on |
|---|---|---|
| `Claims` | who claims a device; undisputed claims | |
| `Presence` | abstract: devices and their addresses, and what the scan and the probe may say of them | |
| `VisitLedger` | abstract: what the monitor promises RC | |
| `TokenTable` | abstract: what becomes of the tokens table | |
| `HubMonitor` | the monitor's pass and everything around it | `Claims`, `Presence`; implements `VisitLedger`, `TokenTable` |
| `MacAssignments` | the fold of `macAssignments`, row by row | `Claims` |
| `Network` | scanner, cache, merge, judgement, probe | keeps what `Presence` promises |
| `Credentials` | OAuth states, callbacks, refresh, crash | implements `TokenTable` |
| `Sessions` | sessions, cookies, forms and pages of one browser | |
| `Kiosk` | resets, watchdog, browsers, profile directories | |
| `TLSFiles` | the start's check, writing and loading of certificate and key | |
| `Migrate` | the migration's statements beside the old server | |
| `Periodic` | goroutine, ticker and timeout of the scanner and of the monitor | |
| `MC*` | small instances, where a `.cfg` alone does not say enough | their modules |
| `*Proofs` | theorems; `DatabaseProofs` has those of `MacAssignments` and of `Migrate` | their modules, TLAPS |

How they compose. `HubMonitor` lets a scan show any device weakly and any
`Trustworthy` device strongly, and lets a probe find any `Answering` device. The
latter is one that is on the network or `lent`: another device holds an address
that may be its own, and `verifyDevicePresent` takes any output for the answer.
This is `Presence`, and `Network`, whose devices hold addresses and whose
standing follows from them (`Standing`, `Lent`), shows that `network.go` keeps to
it (`KeepsPresencePromise`), however addresses pass between devices. The devices'
own steps are environment in both modules: `Presence` moves one device at a time,
so where an address in `Network` is open to several devices, one step there is
several here, with nothing of the monitor's between them. `HubMonitor` reads the
assignments in one step as `SoleClaims(macs)`; `MacAssignments` shows that the
loop over the rows returns exactly that (`YieldsSoleClaims`). `HubMonitor`
keeps of a token only whether there is a usable one; `Credentials` follows the
tokens themselves. `TokenTable` is what the two must agree on, and both
implement it: `SharesTokenTable` maps the table of `HubMonitor` to it, with the
account at `pc = "refresh"` as the borrower, `ImplementsTokenTable` that of
`Credentials`, with the account of the monitor's call. `Sessions` and `Kiosk`
meet at a logout and a failed callback, which are `EndSession` and `LoginFails`
in one and `AskReset` in the other, and at the new browser, which is `Replace`
in one and `BrowserStarts` in the other. What a form writes is `Write` in
`Sessions`; to what, is in `HubMonitor` and `Credentials`. `Periodic` gives
`Network` and `HubMonitor`, which are not timed, the justification for their
fairness: the next run always begins.

### HubMonitor

`pc` is the goroutine's place; a step of the pass ends where the code calls
out. Code and model correspond as follows.

| code | action |
|---|---|
| tick, `time.Now()` in `runHubMonitorScan` | `StartPass` |
| `scanNetworkDevicesFunc` | `ScanDevices` |
| `macAssignments` and the `""` test | `ReadAssignments` |
| early returns | `PassFails` |
| one turn of the loop up to its first call | `TakeDevice`, `SkipDevice`, `TokenQueryFails` |
| `verifyDevicePresentFunc` | `ProbeAnswered`, `ProbeUnanswered` |
| `bearerToken` | `ReadToken`, `TokenGone`, `RefreshToken` |
| `rcProfileID`, `findRCProfileID`, `setRCProfileID` | `UseCachedProfileID`, `MissProfileID`, `FindProfileID`, `CacheProfileID` |
| `markHubVisit` reaches RC; its answer arrives | `PatchVisit`; `RecordVisit` |
| any call of the turn returns an error | `CallFails` (at `reply`: RC has the visit, the answer is lost) |
| end of the loop | `FinishPass` |

Go's map order is arbitrary, so `TakeDevice` takes any device left. Around the
monitor: `Midnight`, `DeviceMoves`, `AddMAC`, `RemoveMAC`, `OAuthCallback`,
`Restart`. A date is a number; an RC profile is identified with its person's
address, and `Profile` holds those of people without an account too.
`findRCProfileID` takes the first hit of a search unseen: `SearchHits` is whom RC
may list first for an address, anybody at all, and `TakenFor(e)` are the profiles
that the program may thus take for the person of account `e`.

`faulted`, `shownInPass` and `soleInPass` are history variables: they record what
has been true during the pass, are read only by properties, and no action's guard
depends on them. `shownInPass` has the devices for which a scan or a probe could
speak at some time of the pass: those on the network, those the kernel's fresh
entry still shows although they left shortly before the pass, and those that
another device answers for. `GroundedVisits` is about these, so an absent person
can be marked in this model, by an address that has passed on or in the half
minute after leaving, as in the code.

### Network

The refreshing goroutine (`StartRefresh`, `HearReply`, `FinishRefresh`,
`RefreshFails`) and the reader behind the monitor (`ReadCache`, `ReadNeigh`,
`Judge`, then the probe's `SkipRow`, `ProbeAnswers`, `ProbeSilent`,
`ProbeFails`, `RowsExhausted`). The reader judges one device at a time and the
model follows one, any one, from the scan that lists it to its verdict. Devices
take and give up addresses and the kernel confirms, ages and drops entries at
any moment; nothing is timed, so a cache may have any age.

### Credentials

Refresh tokens are numbers in RC's order of issue. RC's side (`codes`,
`issuedTo`, `valid`) is modelled from how the program uses it: a code is taken
once, a refresh may or may not rotate the token, a rotation ends the old token,
another grant does not. A callback's steps end at its calls: `AcceptState`,
`ExchangeCode`, `VerifyPerson`, `SaveToken`; `CallbackEnds` is every early
return after the state is consumed. `ReadToken`, `Refresh*` and `SaveRefreshed`
are `bearerToken`. The profile id and the session that a callback saves last
are not kept here (the former is in `HubMonitor`).

### Sessions

A request goes through `sent`, `checked` (its session and form have been looked
at, its effect is still to come) and `answered`; it carries the cookie the
browser held when it was sent, and its answer may arrive after those of later
requests.

| code | action |
|---|---|
| `currentSession` finds none, or an expired one, and deletes it | `NoSession` |
| `handleAccount` | `ShowAccount` |
| `validFormSession`, `validateCSRF` | `AcceptForm`, `RefuseForm` |
| `addMAC`, `removeMAC`, `oauthAuthorizationURL` after the check | `Write` |
| `endSession` | `EndSession` |
| `startSession`, from `handleLogin` or `handleOAuthCallback` | `StartSession` |
| their error paths, `renderStateError` among them | `LoginFails` |
| `openStore`, which makes an empty map | `Restart` |
| browser: requests, answers, tabs, the cookie's age, a new browser | `Send`, `Deliver`, `Lose`, `CloseTab`, `DropCookie`, `Replace` |

An id stands for its CSRF token as well, since both are random and made
together. `untidy` is a history variable: a browser has let logins or logouts
overlap, lost the answer to one, or was replaced with a session. `OneSession`
and `RefusedOnlyIfOver` speak of tidy browsers only, because an untidy one does
leave sessions behind: two logins at one time make two sessions, of which the
browser keeps one.

### Kiosk

A reset is a goroutine and then the script; `at` is the command it is about to
run.

| code | action |
|---|---|
| `scheduleKioskResetOnStartup`, `...AfterResponse`, the watchdog | `KioskInit`, `AskReset`, `WatchdogTick` |
| `pgrep` finds something; cannot run | `WatchdogContinues`; `WatchdogBlind` |
| the goroutine's sleep ends | `Begin` |
| `pkill`, `rm -rf`, `mktemp`, `nohup sh -c ... &` | `Pkill`, `Sweep`, `Mktemp`, `LaunchWrapper` |
| the script fails or `ResetTimeout` kills it | `ResetFails` |
| the wrapper runs the browser; its trap runs | `BrowserStarts`; `BrowserGone` |

`pkill` matches `--user-data-dir`, which only a browser that is up has; `pgrep`
matches the browser's name, which a wrapper, a script and, if its own flags name
the browser (`SelfMatches`), valet itself have too. `left`, `tangled` and
`orphaned` are history variables.

### TLSFiles

`FilesExist` and `MakePair` are the two branches of `loadOrCreateTLSConfig`,
`OpenFile` and `WriteFile` the two halves of `writePEM`, for the certificate and
then for the key, `LoadPair` and `LoadFails` the end. `Crash`, `WriteFails`,
`PowerLoss` and `Operator` may come at any time.

### Migrate

One action per statement of `migrate`, each committed by itself as SQLite does
without a transaction; `StatementFails` and `RemoveFile` are its error path,
`Kill` is everything else that can end it. `OldServer` writes one row at a time.
`seen` collects the old tables that have existed during the run, by which
`NothingLost` and `NothingForged` judge the new ones.

### Periodic

Time is counted in units, five minutes for the scanner and half a minute for the
monitor; `job` is which of the two the goroutine is. A run takes any time up to its timeout, a tick is taken at once by a goroutine
that waits and is dropped when the channel is full. `age` is counted from the
beginning of the run that gave the result, so a sighting is never older.

## 3. Runs

| run | instance | checks |
|---|---|---|
| `hub_two_devices` | 1 settled account, 2 devices, 2 days, 1 restart, a search that may list one of 2 strangers first | `VisitsBacked`, `NoRepeatedPatch`, `ImplementsLedger`, `EventuallyMarked` |
| `hub_two_accounts` | 2 accounts with a device each, one account settled, the other's device open to dispute | `TypeOK`, `GroundedVisits`, `NobodyPassedOver`, `SharesTokenTable`, `EventuallyMarked` |
| `mac_assignments` | 2 devices, 3 accounts, every table, every row order | `FoldExact`, `YieldsSoleClaims` |
| `network` | 2 devices: one with 2 IPv4 addresses, one with an IPv6 one, which may take over one of the other's | `AbsentMeansSilent`, `KeepsPresencePromise`, `CacheNeverEmptied` |
| `credentials` | 2 accounts, 2 callbacks at one time, 3 states, 3 tokens | `OwnCredential`, `UsableUnlessLost`, `StateAcceptedOnce`, `KeepsAuthorization`, `ImplementsTokenTable` |
| `sessions` | 2 accounts, 2 sessions, 2 requests at one time, 2 pages, 1 new browser | `WritesToShownAccount`, `LoggedOutForGood`, `OneSession`, `RefusedOnlyIfOver` |
| `kiosk` | 2 resets and 3 launches at one time, 2 faults | `OneBrowser`, `NothingLeaks`, `LogoutHeard`, `SweepSparesUsed`, `KioskReturns` |
| `tls_files` | 5 pairs, 4 faults | `StuckOnlyByCutKey`, `KeepsPair`, `StartsUnlessStuck` |
| `migrate` | 2 accounts, every legacy database of them, 1 change, 2 runs | `QuietRunExact`, `NothingLost`, `NothingForged`, `PartialOnlyIfSpoiled` |
| `periods` | the defaults: interval and timeout 20 and 20 minutes, 1 and 6; 3 misses | `NextRunSoon`, `AgeBounded` |
| `network_reachable` | 1 device, 1 address | violates `ReachableIsTrusted` |
| `network_reuse` | 2 devices, 1 address that passes between them | violates `PresentIfItAnswers` |

The bounds and why they are enough:

- Two days: a pass sees at most one midnight, and a later pass the day after.
  `Midnight` assumes that a pass is over within a day of its start; the scan
  timeout, minutes by default, ends all calls of a pass.
- One restart: it resets memory whatever happened before, so a second one
  starts from states the first has reached already. `hub_two_accounts` has none:
  what follows a restart is what follows `Init`, which has any tables.
- Two devices of one account are what it takes to come up twice in a pass; two
  accounts are what it takes to dispute a device; three claims, to dispute one
  that is disputed already.
- Two IPv4 addresses: a stale one and a current one. An IPv6 one: a row the
  probe skips. Two devices, and one address that passes between them, so that the
  entry or answer of one might be taken for the other's.
- Lent addresses: in the hub's runs only a device that is away lends one. While it
  is there its own answer is as good, and one that is just gone may fade first.
- Two strangers, of whom the search may list one: a visit for the other is what
  `VisitsBacked` and `ImplementsLedger` exclude.
- Two callbacks: a third can only do what one of them has finished doing. Three
  tokens: one stored, one in a callback, one by rotation. Accounts, states and
  callbacks are interchangeable, so the run uses symmetry; it checks no
  liveness.

- Two requests and two sessions are what it takes for a late answer to bring an
  ended session's cookie back, or for two logins to race; two pages, for one of
  each account. Ids are made once in a history, so the bound on them also ends
  it: the theorems have none.
- Two resets: a logout's and the watchdog's; either may be the one that heals
  what both have left, since a reset that is over can begin again. Three
  launches: one going, one coming, one more.
- Four faults on five pairs: a torn certificate, a torn key, one of the
  operator's, and a power loss, in any order.
- Two accounts in the legacy database, because the tables are keyed by account
  and an account with rows is copied beside one without; one change by the old
  server falls between any two statements; two runs, because the second meets
  what the first has left.
- Three misses in `Periodic` show the age growing by each. The run has the
  scanner's interval and timeout and the monitor's, whose runs may outlast six
  ticks, of which one waits and the others are dropped. Both bounds are reached.

The deadlock check is off for `mac_assignments` (the function returns), `migrate`
(runs and changes are spent), `tls_files` (a server that is up stays
up once the faults are spent). All other systems run forever.

*Liveness of the monitor.* `EventuallyMarked` says: if an account's device is there from some
point on, undisputed and listed by the scans, with a token, and none of the
account's calls fails any more, then its visit of the day is entered. It rests
on `WF_vars(Monitor)` alone: the goroutine is scheduled and its ticker keeps
firing. That is justified because every call in a pass has a context with a
timeout and every error ends a turn or the pass, never the loop. Devices,
people, midnights and RC owe nothing; what the property needs of them is its
premise. Accounts to which everything happens at once are too many
states for liveness, so the runs settle the first one (`SettledSpec`: the row of
one device, the token and that device stay, and addresses are lent as said above;
`KnownSpec`: and a callback has left its profile and a refresh token). In `hub_two_devices` its second device comes, goes and is given up, over
a midnight and a restart; in `hub_two_accounts` everything happens to the other
account. `SettledSpec` constrains only the
environment: no step of the monitor removes a row, moves a device or takes a
token away.

*Liveness of the kiosk.* `KioskReturns` rests on `KioskFairness`: the ticker
fires and finds nothing running, goroutines and the commands of a script run, a
wrapper runs its browser, a browser that is signalled or done exits. Go's
scheduler, the operating system and Chromium's handling of SIGTERM justify these;
users, crashes and faults owe nothing, and faults are finitely many. The ticker's
fairness is over all resets together, because it is one goroutine.

*Liveness of the start.* `StartsUnlessStuck` rests on `WF_vars(TLSStep)`: a start
goes on, and systemd starts a process that has failed again
(`Restart=on-failure`, every five seconds, which never reaches systemd's start
limit; `log.Fatal` exits with 1).

*Disagreements of the code with `DOCS.md`* are kept as runs that must fail:

- `network_reachable`: `mergeNetworkDevices` drops an `ip neigh` row whose
  address and MAC the arp-scan cache lists already, and with it a fresh
  `REACHABLE` state that `DOCS.md:17` says is trusted without a probe.
- `network_reuse`: the probe takes any answer at the address for the device's;
  `DOCS.md:18` says the device is marked only if it answers. What holds in its
  place is `KeepsPresencePromise`: the device is there, or another one holds an
  address that may be its own.

Other documents and comments promise more than the code does, and the properties
that hold are stated with the condition that is missing there:

- `valet-kiosk-reset.sh:10-15`: a reset's signal misses a wrapper whose browser
  is still starting, which has no argument that `pkill` matches. `OneBrowser` is
  therefore about resets that no other overlaps (`tangled`).
- `valet-kiosk-reset.sh:17-19`: the sweep also takes directories of browsers that
  are still closing and, where resets overlap, of one about to be launched
  (`SweepSparesUsed` says when not). A browser makes its directory again, and
  `NothingLeaks` holds all the same.
- `kiosk.go:101-103`: with `-kiosk-browser` on valet's command line, `pgrep -f`
  (line 136) finds valet itself and the watchdog never acts. `KioskReturns` is
  therefore checked with `SelfMatches = FALSE`; the kiosk's theorems hold for both.
- `DOCS.md:15`: the cache gets older than the ~20 minutes although no scan fails,
  by a scan that takes a while: what it hears first is that old when it ends, and
  is kept until the next one ends, which begins an interval later. `AgeBounded` has
  the true bound: up to an hour for the first scan's result, and 20 minutes more for
  each scan missed.
- `DOCS.md:7-11` offers `-hub-scan-timeout` to tune the arp-scan, whose timeout is
  its interval (`network.go:121`).

Outside the models, `DOCS.md:81` says access tokens are stored (only refresh
tokens are, and personal access tokens of old).

Every property of a passing run has a mutant in `PROJECT.json`: an operator
next to the definition it mutates, marked "Mutant", with which TLC finds the
property violated.

## 4. Theorems

They hold for every value of the constants: any number of accounts, devices,
addresses, days, restarts, states, callbacks and tokens.

| theorem | states |
|---|---|
| `TypeCorrect` | `TypeOK` |
| `ConsistentAlways` | `Consistent` |
| `MemoryBacked` | `VisitsBacked` |
| `VisitsGrounded` | `GroundedVisits` |
| `PatchNotRepeated` | `NoRepeatedPatch` |
| `NobodyStarved`, `DevicesTakenOnce` | `NobodyPassedOver`, `OneTurnPerDevice` |
| `LedgerImplemented` | `ImplementsLedger` |
| `FoldIsExact`, `AssignmentsAreSoleClaims` | `FoldExact`, `YieldsSoleClaims` |
| `NetTypeCorrect` | `NetTypeOK` |
| `PresencePromiseKept` | `KeepsPresencePromise` |
| `CredTypeCorrect` | `CredTypeOK` |
| `CredentialsOwned` | `OwnCredential` |
| `AuthorizationKept` | `KeepsAuthorization` |
| `StatesAcceptedOnce` | `StateAcceptedOnce` |
| `CredentialsUsable` | `UsableUnlessLost` |
| `TableShared`, `TokenTableImplemented` | `SharesTokenTable`, `ImplementsTokenTable` |
| `SilenceEverywhere`, `CacheKept` | `AbsentMeansSilent`, `CacheNeverEmptied` |
| `SessTypeCorrect`, `FormsKeepTheirAccount`, `LogoutsLast` | `SessTypeOK`, `WritesToShownAccount`, `LoggedOutForGood` |
| `OneSessionAtATime`, `RefusalsExplained` | `OneSession`, `RefusedOnlyIfOver` |
| `KioskTypeCorrect`, `OneBrowserShown` | `KioskTypeOK`, `OneBrowser` |
| `DirectoriesReturned`, `LogoutsHeard`, `SweepsSpareUsed` | `NothingLeaks`, `LogoutHeard`, `SweepSparesUsed` |
| `TLSTypeCorrect`, `OnlyCutKeysStick`, `PairKept` | `TLSTypeOK`, `StuckOnlyByCutKey`, `KeepsPair` |
| `ServedPairKept`, `StuckStays` | `ServedPairStays`, `StuckForGood` |
| `MigrateTypeCorrect` | `MigrateTypeOK` |
| `MigrationLosesNothing`, `MigrationForgesNothing` | `NothingLost`, `NothingForged` |
| `QuietMigrationIsExact`, `MigrationLeavesNoPartialFile` | `QuietRunExact`, `PartialOnlyIfSpoiled` |
| `PeriodicTypeCorrect`, `RunsGoOn`, `ResultsAgeBounded` | `PeriodicTypeOK`, `NextRunSoon`, `AgeBounded` |

None assumes more than the named ASSUMEs of the modules, which fix the types of
the constants and that the null values are not members of the sets. Whom RC's
search for an address lists is RC's affair, and `findRCProfileID` does not look:
the memory, the ledger and the visits are right up to `TakenFor`, so a visit that
goes to a stranger goes to one RC has listed for that account's address, and to
nobody else. Likewise who holds an address is the network's affair: the visits are
right up to `lent`.

The arguments.

- *HubMonitor.* `VisitsBacked` is not inductive: that the date about to be
  recorded is one RC holds must be known when the answer arrives. `Consistent`
  adds it (`ProfilesInv`: at `reply` the visit is in RC, and the profile is one
  taken for the account), that dates lie within a day of today (`DatesInv`: so that no note
  goes back), that what was true during the pass is covered by the history
  variables (`WitnessInv`) and that the account at its turn is undisputed, not
  yet marked and, past the probe, in `shownInPass` (`TurnInv`). The action properties and
  the refinement follow from it step by step. `NobodyPassedOver` rests on
  `PassInv` instead: what is left to do belongs to the loop, so a pass can only
  end with nothing left, and a device has one claim in it (`SoleClaimsOnce`),
  which is why it is taken up once.
- *MacAssignments.* `FoldInv` says what the map holds for the rows delivered so
  far: a sole claimant, or the mark of a dispute, which no later row lifts.
- *Network.* The promise follows from `PromiseInv`: every address in hand is one
  its device may hold, so whoever answers there is the device or holds an address
  that may be the device's (`AnswerHeard`); and a reader that is to trust a row has
  read it from the kernel while the device was there or its entry fresh
  (`VouchedInv`).
- *Credentials.* `Owned`: a token in a callback's or the monitor's hand is issued
  to the person it is held for, and a token not yet issued is in no hand.
  `Usable` adds that a token in a callback's hand is valid and in one hand only;
  a rotation therefore ends no token but the monitor's own, whose account is
  about to get the successor or is in `lost`. `StatesOnce`: a state waits for one
  account and has not been accepted.

- *Sessions.* `SessInv` adds to the properties that ids in use were issued
  (`Issued`), that a page or form with a token shows the account its session was
  started for, as long as that lives (`Owned`), and where the sessions of a tidy
  browser are (`Tidy`): in its cookie, or in an answer on the way, and no other
  login or logout is under way. `WritesToShownAccount` follows from `Owned`
  because a form is accepted only with its own page's token.
- *Kiosk.* `OwnDirs`: a script about to launch holds a directory nobody else
  does. `Alone`: unless `tangled`, at most one reset is past its pkill, and then
  no browser is up or starting until it launches one. Without `Alone`,
  `OneBrowser` is not inductive: a launch must know that the pkill before it has
  left nothing.
- *TLSFiles.* `KeyLast` says, for each place of a start, what the files hold
  unless they were disturbed: a key is only written over a certificate that is
  whole, which is why a torn certificate never has a key beside it that the next
  start would accept.
- *Migrate.* `MigrateInv` adds to the properties what the file is at each
  statement (`FileInv`), and for each statement that what it takes over is already
  there, not only after success, for as long as the old tables seen all have it
  (`AccountsTaken`, `MACsTaken`, `TokensTaken`). `MACsTaken` and `TokensTaken` need
  `AccountsTaken`, because the later statements join with the accounts copied by
  the first: whoever had a row throughout was among them.
- *Periodic.* `Timely`: from the second run on, while no tick is in the channel, the
  next one is due within an interval of the last begin, so a run that ends later
  finds one waiting. `Aging`: a result is at most the first wait older than the run
  under way and the runs missed; between two runs, a run missed has used that wait up.
- *TokenTable.* The monitor's borrower is an account exactly while its call is
  under way (`TypeInv` in `HubMonitor`, `HandsFree` in `Credentials`), and what it
  saves is a refresh token, not an empty one.

The type invariants of `Network`, `Credentials`, `Sessions`, `Kiosk`, `TLSFiles`,
`Migrate` and `Periodic` are proved and need no run; they are part of the inductive
invariants. `Consistent`, `OneTurnPerDevice`, `ServedPairStays` and `StuckForGood`
are theorems without a run as well.

Not proved, only checked: `EventuallyMarked`, `KioskReturns` and
`StartsUnlessStuck`, because liveness and ENABLED are out of the prover's reach.
`NobodyPassedOver` is the safety behind `EventuallyMarked` (nothing but the account's
own failures keeps it from its turn), `StuckForGood` the reverse of
`StartsUnlessStuck`.

## 5. Not modelled

Parsing of the tools' output, JSON, URLs, HTML and logging are abstracted to
what they yield. Validation is string work, configuration and start-up are flags
and wiring, the page is layout. Outside `Periodic` time is order only: no
property there depends on a duration except through the premise that a pass ends
within a day. RC, the kernel, browsers and the network are environment, as free
as the program's use of them allows.

Left out of the modelled components:

- *Sessions*: one browser at a time. Sessions of different browsers share nothing
  but the map, whose keys do not meet. A callback without a state to render shows
  no account, and is the plain failure of `LoginFails`.
- *Kiosk*: the cookie that tells a kiosk browser from others, which is a random
  value that lives as long as the process; the addresses of the pages.
- *TLSFiles*: whether a certificate is still valid or covers the addresses of
  today: nothing in the code looks at either.
- *Migrate*: two runs at one time, and a credential that the old server spends
  after it was copied. The legacy test of `openStore` would take an unfinished
  file for a new database, which is why `PartialOnlyIfSpoiled` matters.

## 6. Plan

Done, each with its proofs: `Claims`, `Presence`, `VisitLedger`, `TokenTable`,
`HubMonitor`, `MacAssignments`, `Network`, `Credentials`, `Sessions`, `Kiosk`,
`TLSFiles`, `Migrate`, `Periodic`. To come:

1. `Sessions` over `Kiosk`: the reset that follows a logout as one system, to
   state that no user of a kiosk meets the session of the one before.
2. `Network`: a probe that keeps failing at one address of several
   (`network.go:239`), and what it costs in the long run.
