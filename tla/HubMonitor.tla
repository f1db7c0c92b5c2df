------------------------------ MODULE HubMonitor ------------------------------
(***************************************************************************)
(* The hub monitor (hub_monitor.go): one goroutine that, on every tick,    *)
(* makes a pass over the registered devices and marks in the Hub the       *)
(* owners of the devices it finds on the network.                          *)
(*                                                                         *)
(* A step of the pass ends where the goroutine calls out: to `ip neigh`,   *)
(* to arp-scan, to SQLite, to the Recurse Center (RC).  Between two steps  *)
(* the web handlers change the database, devices come and go, midnight     *)
(* passes, and the process may die and be started again by systemd.        *)
(*                                                                         *)
(* A date is a number 1..MaxDay in hubLocation; 0 is Go's "" (no visit).   *)
(* An RC profile is identified with the email of the person it is of, who  *)
(* need not have an account.                                               *)
(***************************************************************************)
EXTENDS Naturals, Claims, Presence

CONSTANTS
  Email,        \* accounts; each has logged in, so its accounts row exists
  Profile,      \* RC's profiles
  SearchHits,   \* the profiles RC's search may list first for an email
  NoID,         \* rc_profile_id '', and the loop's email between two turns
  NoMac,        \* the loop's mac between two turns
  Registrable,  \* bound on the macs table: the rows accounts may add
  MaxDay,       \* bound on the calendar
  MaxRestarts   \* bound on process restarts

ASSUME HubMonitorAssumption ==
  /\ MaxDay \in Nat /\ MaxRestarts \in Nat
  /\ Email \subseteq Profile /\ SearchHits \in [Email -> SUBSET Profile]
  /\ Registrable \in SUBSET (Mac \X Email)
  /\ NoID \notin Profile /\ NoMac \notin Mac

VARIABLES
  day,          \* the current date
  macs,         \* macs table: pairs <<mac, email>>
  tokens,       \* tokens table: the usable credential of each account
  profileIDs,   \* accounts.rc_profile_id
  hubVisits,    \* in memory: the date each account was last marked
  visits,       \* RC: the hub visits it holds, pairs <<profile, date>>
  pc,           \* where the monitor goroutine is
  today,        \* the date the pass was started on
  seenDevices,  \* what the scan showed of each device
  todo,         \* undisputed assignments the loop has not come to yet
  mac, email,   \* the assignment the loop is at
  rcProfileID,  \* markEmailInHub's profile id
  faulted,      \* history: accounts for which a call failed in the last pass
  shownInPass,  \* history: devices for which a scan or a probe could speak in this pass
  soleInPass,   \* history: claims that were undisputed at some time in this pass
  restarts      \* number of restarts so far

memory == <<hubVisits, restarts>>
db     == <<macs, tokens, profileIDs>>
world  == <<day, dev, lent>>
locals == <<today, seenDevices, todo, mac, email, rcProfileID>>
past   == <<shownInPass, soleInPass>>
vars   == <<world, db, memory, visits, pc, locals, faulted, past>>

Credential == {"none", "pat", "oauth"}
Sighting   == {"unseen", "weak", "strong"}

\* Calls made for one account; the error of any of them ends that account's turn.
AccountCall == {"probe", "bearer", "refresh", "lookup", "cache", "patch", "reply"}
Turn        == AccountCall \cup {"profile"}
Control     == {"idle", "scan", "assign", "loop"} \cup Turn

TypeOK ==
  /\ DevTypeOK
  /\ day \in Nat
  /\ macs \in SUBSET (Mac \X Email)
  /\ tokens \in [Email -> Credential]
  /\ profileIDs \in [Email -> Profile \cup {NoID}]
  /\ hubVisits \in [Email -> Nat]
  /\ visits \in SUBSET (Profile \X Nat)
  /\ pc \in Control
  /\ today \in Nat
  /\ seenDevices \in [Mac -> Sighting]
  /\ todo \in SUBSET (Mac \X Email)
  /\ mac \in Mac \cup {NoMac}
  /\ email \in Email \cup {NoID}
  /\ rcProfileID \in Profile \cup {NoID}
  /\ faulted \in SUBSET Email
  /\ shownInPass \in SUBSET Mac
  /\ soleInPass \in SUBSET (Mac \X Email)
  /\ restarts \in Nat

NoLocals ==
  /\ today = 0 /\ todo = {} /\ mac = NoMac /\ email = NoID /\ rcProfileID = NoID
  /\ seenDevices = [m \in Mac |-> "unseen"]
  /\ shownInPass = {} /\ soleInPass = {}

\* Whom the program may take for the person of account e: the one RC has
\* authenticated, or whoever a search for the address may list first.
TakenFor(e) == {e} \cup SearchHits[e]

\* The process starts on whatever an earlier version or a migration has left in
\* the database (only a migration leaves personal access tokens).
Init ==
  /\ DevInit /\ day = 1
  /\ macs \in SUBSET Registrable
  /\ tokens \in [Email -> Credential]
  /\ profileIDs \in [Email -> Profile \cup {NoID}]
  /\ \A e \in Email : profileIDs[e] \in TakenFor(e) \cup {NoID}
  /\ hubVisits = [e \in Email |-> 0] /\ visits = {}
  /\ pc = "idle" /\ NoLocals /\ faulted = {} /\ restarts = 0

-------------------------------------------------------------------------------
(* The pass.                                                               *)

\* startHubMonitor's tick and runHubMonitorScan: the date of the whole pass is
\* taken here, before the scan.
StartPass ==
  /\ pc = "idle"
  /\ pc' = "scan" /\ today' = day /\ faulted' = {}
  /\ shownInPass' = Trustworthy \cup Answering /\ soleInPass' = SoleClaims(macs)
  /\ UNCHANGED <<world, db, memory, visits, seenDevices, todo, mac, email, rcProfileID>>

\* scanNetworkDevicesFunc: anything may be listed, but only a device that is or
\* just was on the network shows a REACHABLE neighbour entry.
ScanDevices ==
  /\ pc = "scan"
  /\ \E strong \in SUBSET Trustworthy, weak \in SUBSET Mac :
        seenDevices' = [m \in Mac |-> IF m \in strong THEN "strong"
                                      ELSE IF m \in weak THEN "weak" ELSE "unseen"]
  /\ pc' = "assign"
  /\ UNCHANGED <<world, db, memory, visits, today, todo, mac, email, rcProfileID, faulted, past>>

\* Mutant: the loop does not test for the "" of a disputed device.
ReadAssignmentsUnchecked ==
  /\ pc = "assign"
  /\ todo' = SoleClaims(macs) \cup {<<r[1], NoID>> : r \in macs \ SoleClaims(macs)}
  /\ pc' = "loop"
  /\ UNCHANGED <<world, db, memory, visits, today, seenDevices, mac, email, rcProfileID, faulted, past>>

\* Mutant: the claim that comes last wins.
ReadAssignmentsLastWins ==
  /\ pc = "assign"
  /\ \E rows \in SUBSET macs :
        /\ \A m \in Mac : OwnersOf(macs, m) # {} => \E e \in Email : OwnersOf(rows, m) = {e}
        /\ todo' = rows
  /\ pc' = "loop"
  /\ UNCHANGED <<world, db, memory, visits, today, seenDevices, mac, email, rcProfileID, faulted, past>>

\* macAssignments.  A device that several accounts claim maps to "" and is
\* skipped by the loop, so only the undisputed claims are left to do.
ReadAssignments ==
  /\ pc = "assign"
  /\ todo' = SoleClaims(macs) /\ pc' = "loop"
  /\ UNCHANGED <<world, db, memory, visits, today, seenDevices, mac, email, rcProfileID, faulted, past>>

\* The function returns: its locals are gone.
ReturnFromPass ==
  /\ pc' = "idle" /\ seenDevices' = [m \in Mac |-> "unseen"]
  /\ today' = 0 /\ todo' = {} /\ mac' = NoMac /\ email' = NoID /\ rcProfileID' = NoID
  /\ shownInPass' = {} /\ soleInPass' = {}

\* The scan or the query fails: the pass is over for everybody.
PassFails ==
  /\ pc \in {"scan", "assign"}
  /\ ReturnFromPass /\ faulted' = Email
  /\ UNCHANGED <<world, db, memory, visits>>

\* Mutant: no account is marked twice, whatever the date.
EligibleOnce(c) ==
  seenDevices[c[1]] # "unseen" /\ hubVisits[c[2]] = 0 /\ tokens[c[2]] # "none"

\* Mutant: the last visit is not looked at.
EligibleAgain(c) == seenDevices[c[1]] # "unseen" /\ tokens[c[2]] # "none"

\* The loop's tests up to hasToken.
Eligible(c) ==
  /\ seenDevices[c[1]] # "unseen"
  /\ hubVisits[c[2]] # today
  /\ tokens[c[2]] # "none"

\* Mutant: whatever the scan lists is taken to be present.
TakeDeviceUnprobed(c) ==
  /\ pc = "loop" /\ c \in todo /\ Eligible(c)
  /\ todo' = todo \ {c} /\ mac' = c[1] /\ email' = c[2] /\ pc' = "bearer"
  /\ UNCHANGED <<world, db, memory, visits, today, seenDevices, rcProfileID, faulted, past>>

TakeDevice(c) ==
  /\ pc = "loop" /\ c \in todo /\ Eligible(c)
  /\ todo' = todo \ {c} /\ mac' = c[1] /\ email' = c[2]
  /\ pc' = IF seenDevices[c[1]] = "strong" THEN "bearer" ELSE "probe"
  /\ UNCHANGED <<world, db, memory, visits, today, seenDevices, rcProfileID, faulted, past>>

SkipDevice(c) ==
  /\ pc = "loop" /\ c \in todo /\ ~Eligible(c)
  /\ todo' = todo \ {c}
  /\ UNCHANGED <<world, db, memory, visits, pc, today, seenDevices, mac, email, rcProfileID, faulted, past>>

\* hasToken logs a failed query and reports that there is no token.
TokenQueryFails(c) ==
  /\ pc = "loop" /\ c \in todo /\ Eligible(c)
  /\ todo' = todo \ {c} /\ faulted' = faulted \cup {c[2]}
  /\ UNCHANGED <<world, db, memory, visits, pc, today, seenDevices, mac, email, rcProfileID, past>>

FinishPass ==
  /\ pc = "loop" /\ todo = {}
  /\ ReturnFromPass
  /\ UNCHANGED <<world, db, memory, visits, faulted>>

\* `continue`: on to the next assignment.
NextDevice == pc' = "loop" /\ mac' = NoMac /\ email' = NoID /\ rcProfileID' = NoID

\* Mutant: the visit is recorded even when the PATCH fails.
CallFailsRecorded ==
  /\ pc \in AccountCall
  /\ hubVisits' = IF pc \in {"patch", "reply"} THEN [hubVisits EXCEPT ![email] = today] ELSE hubVisits
  /\ faulted' = faulted \cup {email}
  /\ NextDevice
  /\ UNCHANGED <<world, db, restarts, visits, today, seenDevices, todo, past>>

\* Mutant: the first error ends the pass.
CallFailsReturning ==
  /\ pc \in AccountCall
  /\ faulted' = faulted \cup {email}
  /\ ReturnFromPass
  /\ UNCHANGED <<world, db, memory, visits>>

\* A command, a query or a request made for this account returns an error or
\* times out; the error is joined to errs and the loop goes on.  At "reply" the
\* request did reach RC, and only the answer is lost.
CallFails ==
  /\ pc \in AccountCall
  /\ faulted' = faulted \cup {email}
  /\ NextDevice
  /\ UNCHANGED <<world, db, memory, visits, today, seenDevices, todo, past>>

\* verifyDevicePresentFunc: somebody answers, the device or whoever has an address
\* of its by now.
ProbeAnswered ==
  /\ pc = "probe" /\ mac \in Answering
  /\ pc' = "bearer"
  /\ UNCHANGED <<world, db, memory, visits, locals, faulted, past>>

\* Nobody answers; that a device on the network does not answer, or not at the
\* addresses it is listed with, counts as a failed call.
ProbeUnanswered ==
  /\ pc = "probe"
  /\ faulted' = IF dev[mac] = "here" THEN faulted \cup {email} ELSE faulted
  /\ NextDevice
  /\ UNCHANGED <<world, db, memory, visits, today, seenDevices, todo, past>>

\* Mutant: personal access tokens are refreshed as well.
ReadTokenUntyped ==
  /\ pc = "bearer" /\ tokens[email] # "none" /\ pc' = "refresh"
  /\ UNCHANGED <<world, db, memory, visits, locals, faulted, past>>

\* bearerToken, up to its first request.
ReadToken ==
  /\ pc = "bearer" /\ tokens[email] # "none"
  /\ pc' = IF tokens[email] = "pat" THEN "profile" ELSE "refresh"
  /\ UNCHANGED <<world, db, memory, visits, locals, faulted, past>>

\* "account has not authorized Hub access": the token went since hasToken.
TokenGone ==
  /\ pc = "bearer" /\ tokens[email] = "none"
  /\ NextDevice
  /\ UNCHANGED <<world, db, memory, visits, today, seenDevices, todo, faulted, past>>

\* RC grants an access token; the refresh token is saved over whatever the
\* tokens table holds by now.
RefreshToken ==
  /\ pc = "refresh"
  /\ tokens' = [tokens EXCEPT ![email] = "oauth"]
  /\ pc' = "profile"
  /\ UNCHANGED <<world, macs, profileIDs, memory, visits, locals, faulted, past>>

UseCachedProfileID ==
  /\ pc = "profile" /\ profileIDs[email] # NoID
  /\ rcProfileID' = profileIDs[email] /\ pc' = "patch"
  /\ UNCHANGED <<world, db, memory, visits, today, seenDevices, todo, mac, email, faulted, past>>

\* No id is cached, or the query failed, which rcProfileID reports alike.
MissProfileID ==
  /\ pc = "profile"
  /\ pc' = "lookup"
  /\ UNCHANGED <<world, db, memory, visits, locals, faulted, past>>

\* Mutant: the search is made without the query.
FindAnyProfileID ==
  /\ pc = "lookup"
  /\ \E id \in Profile : rcProfileID' = id
  /\ pc' = "cache"
  /\ UNCHANGED <<world, db, memory, visits, today, seenDevices, todo, mac, email, faulted, past>>

\* findRCProfileID takes the first profile of the search result.
FindProfileID ==
  /\ pc = "lookup"
  /\ \E id \in SearchHits[email] : rcProfileID' = id
  /\ pc' = "cache"
  /\ UNCHANGED <<world, db, memory, visits, today, seenDevices, todo, mac, email, faulted, past>>

\* setRCProfileID.
CacheProfileID ==
  /\ pc = "cache"
  /\ profileIDs' = [profileIDs EXCEPT ![email] = rcProfileID]
  /\ pc' = "patch"
  /\ UNCHANGED <<world, macs, tokens, memory, visits, locals, faulted, past>>

\* markHubVisit reaches RC, where the PATCH is idempotent.
PatchVisit ==
  /\ pc = "patch"
  /\ visits' = visits \cup {<<rcProfileID, today>>}
  /\ pc' = "reply"
  /\ UNCHANGED <<world, db, memory, locals, faulted, past>>

\* Mutant: the visit is recorded under the date it is by then.
RecordVisitToday ==
  /\ pc = "reply"
  /\ hubVisits' = [hubVisits EXCEPT ![email] = day]
  /\ NextDevice
  /\ UNCHANGED <<world, db, restarts, visits, today, seenDevices, todo, faulted, past>>

\* The 2xx answer arrives: recordHubVisit.
RecordVisit ==
  /\ pc = "reply"
  /\ hubVisits' = [hubVisits EXCEPT ![email] = today]
  /\ NextDevice
  /\ UNCHANGED <<world, db, restarts, visits, today, seenDevices, todo, faulted, past>>

Monitor ==
  \/ StartPass \/ ScanDevices \/ ReadAssignments \/ PassFails \/ FinishPass
  \/ \E c \in todo : TakeDevice(c) \/ SkipDevice(c) \/ TokenQueryFails(c)
  \/ ProbeAnswered \/ ProbeUnanswered \/ ReadToken \/ TokenGone \/ RefreshToken
  \/ UseCachedProfileID \/ MissProfileID \/ FindProfileID \/ CacheProfileID
  \/ PatchVisit \/ RecordVisit \/ CallFails

-------------------------------------------------------------------------------
(* Everything that happens around the monitor.                             *)

\* The scan timeout (minutes) lets at most one midnight fall in a pass.
Midnight ==
  /\ day < MaxDay /\ (pc # "idle" => today = day)
  /\ day' = day + 1
  /\ UNCHANGED <<dev, lent, db, memory, visits, pc, locals, faulted, past>>

DeviceMoves(m) ==
  /\ Arrive(m) \/ Leave(m) \/ Fade(m) \/ Lend(m)
  /\ shownInPass' = IF pc = "idle" THEN {} ELSE shownInPass \cup Answering'
  /\ UNCHANGED <<day, db, memory, visits, pc, locals, faulted, soleInPass>>

\* handleAddMAC and handleDeleteMAC.
SetMACs(rows) ==
  /\ macs' = rows
  /\ soleInPass' = IF pc = "idle" THEN {} ELSE soleInPass \cup SoleClaims(rows)
  /\ UNCHANGED <<world, tokens, profileIDs, memory, visits, pc, locals, faulted, shownInPass>>

AddMAC(e, m)    == <<m, e>> \in Registrable \ macs /\ SetMACs(macs \cup {<<m, e>>})
RemoveMAC(e, m) == <<m, e>> \in macs /\ SetMACs(macs \ {<<m, e>>})

\* handleOAuthCallback for the account RC authenticated.  RC may return no
\* refresh token, and then an unusable token replaces the stored one; it may
\* return no profile id, and the second statement may fail.
OAuthCallback(e) ==
  /\ \E t \in {"oauth", "none"} : tokens' = [tokens EXCEPT ![e] = t]
  /\ \E id \in {e, profileIDs[e]} : profileIDs' = [profileIDs EXCEPT ![e] = id]
  /\ UNCHANGED <<world, macs, memory, visits, pc, locals, faulted, past>>

\* The process dies at any point; systemd starts it again on the same database.
Restart ==
  /\ restarts < MaxRestarts
  /\ restarts' = restarts + 1
  /\ hubVisits' = [e \in Email |-> 0]
  /\ ReturnFromPass /\ faulted' = {}
  /\ UNCHANGED <<world, db, visits>>

Environment ==
  \/ Midnight \/ Restart
  \/ \E m \in Mac : DeviceMoves(m)
  \/ \E e \in Email, m \in Mac : AddMAC(e, m) \/ RemoveMAC(e, m)
  \/ \E e \in Email : OAuthCallback(e)

Next == Monitor \/ Environment

\* The monitor's goroutine is scheduled and its ticker keeps firing; nobody
\* else owes anything.
Spec == Init /\ [][Next]_vars /\ WF_vars(Monitor)

-------------------------------------------------------------------------------
(* Properties.                                                             *)

\* The monitor promises what VisitLedger says, with hubVisits as its note.
Ledger == INSTANCE VisitLedger WITH
  Account <- Email, Taken <- [e \in Email |-> TakenFor(e)], ledger <- visits, known <- hubVisits

\* Every visit RC holds, every note the monitor takes of one and every date they
\* carry come about as VisitLedger allows: no note before the visit, none that
\* goes back in time, no visit for a date other than today or, when midnight
\* overtakes the pass, yesterday (runHubMonitorOnce, markEmailInHub).
ImplementsLedger == Ledger!LedgerSpec

\* What the monitor and the callbacks do to the tokens table is what Credentials
\* does to it: a refresh only replaces a refresh token, and of the account it was
\* begun for, whatever is in the table by then (bearerToken, handleOAuthCallback).
Table == INSTANCE TokenTable WITH
  Account <- Email, NoAccount <- NoID,
  kept <- tokens, borrower <- IF pc = "refresh" THEN email ELSE NoID
SharesTokenTable == Table!TableSpec

\* The memory that suppresses further PATCHes never claims a visit RC does not
\* hold: recordHubVisit runs only for the profile and the date RC has accepted,
\* so no failure or crash between the two loses somebody's visit.
VisitsBacked ==
  \A e \in Email : hubVisits[e] # 0 => \E p \in TakenFor(e) : <<p, hubVisits[e]>> \in visits

\* A visit is entered only for an account whose device was undisputed at some time
\* of this very pass and, in it too, on the network, or gone so shortly that the
\* kernel still vouched for it, or answered for by another device with one of its
\* addresses (network.go:242): although the tables, the registrations and the
\* assignments the loop works from may all be out of date by then.  And it is
\* entered for a profile that RC has given for this account's address.
Grounded(v) ==
  v[2] = today /\ \E c \in soleInPass : c[1] \in shownInPass /\ v[1] \in TakenFor(c[2])
GroundedVisits == [][\A v \in visits' \ visits : Grounded(v)]_vars

\* RC is never asked to enter a visit the monitor knows it has entered: the
\* second device of an account is skipped in the same pass as in later ones.
NoRepeatedPatch == [][pc = "patch" /\ pc' = "reply" => hubVisits[email] # today]_vars

\* Nobody's failure costs another's turn: a claim leaves the pass only when its turn
\* comes, when there is nothing to do for it, by a failure of its own account's
\* query, or with the process (hub_monitor.go:93-127).
NobodyPassedOver ==
  [][\A c \in todo \ todo' :
        \/ mac' = c[1] /\ email' = c[2]
        \/ ~Eligible(c)
        \/ c[2] \in faulted'
        \/ restarts' # restarts]_vars

\* A device is taken up once in a pass and so marks one account at most, whoever
\* registers or gives it up meanwhile.
OneTurnPerDevice ==
  /\ \A c, d \in todo : c[1] = d[1] => c = d
  /\ pc \in Turn => \A c \in todo : c[1] # mac

\* Account e has registered device m alone, holds a credential, none of its
\* calls fail, and m is on the network and listed by the scans.
Ready(e, m) ==
  /\ dev[m] = "here" /\ OwnersOf(macs, m) = {e}
  /\ tokens[e] # "none" /\ e \notin faulted
  /\ pc \notin {"idle", "scan"} => seenDevices[m] # "unseen"

\* An account for which everything keeps working gets its visit, whatever
\* happens to the others: their errors, vanished tokens and disputed devices
\* end their turns and never the pass.
EventuallyMarked ==
  \A e \in Email, m \in Mac : <>[]Ready(e, m) => <>[](\E p \in TakenFor(e) : <<p, day>> \in visits)

-------------------------------------------------------------------------------
(* The inductive invariant behind the safety properties.                   *)

\* A pass is at most one midnight old, and no note is ahead of its date.
DatesInv ==
  /\ day >= 1 /\ \A e \in Email : hubVisits[e] <= day
  /\ pc # "idle" =>
       /\ today >= 1 /\ today <= day /\ day <= today + 1
       /\ \A e \in Email : hubVisits[e] <= today

\* Profile ids, cached or in flight, are such as RC has given for the account.
ProfilesInv ==
  /\ \A e \in Email : profileIDs[e] \in {NoID} \cup TakenFor(e)
  /\ pc \in {"cache", "patch", "reply"} => rcProfileID \in TakenFor(email)
  /\ pc = "reply" => <<rcProfileID, today>> \in visits

\* What the history variables have witnessed covers what is true now.
WitnessInv ==
  /\ pc = "idle" => NoLocals
  /\ pc # "idle" => Trustworthy \cup Answering \subseteq shownInPass /\ SoleClaims(macs) \subseteq soleInPass
  /\ \A m \in Mac : seenDevices[m] = "strong" => m \in shownInPass
  /\ todo \subseteq soleInPass

\* The account whose turn it is has earned it.
TurnInv ==
  pc \in Turn =>
    /\ mac \in Mac /\ email \in Email /\ <<mac, email>> \in soleInPass
    /\ hubVisits[email] # today
    /\ pc # "probe" => mac \in shownInPass

\* Together they are preserved by every step of the monitor and of its
\* environment (proved in HubMonitorProofs).
Consistent == DatesInv /\ VisitsBacked /\ ProfilesInv /\ WitnessInv /\ TurnInv
===============================================================================
