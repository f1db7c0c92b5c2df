--------------------------- MODULE HubMonitorProofs ---------------------------
(***************************************************************************)
(* Theorems about HubMonitor, for every set of accounts and devices, every *)
(* bound on the calendar and on restarts.                                  *)
(***************************************************************************)
EXTENDS HubMonitor, TLAPS

\* The type invariant is inductive once it says whose turn it is and when the
\* profile id is known.
TypeInv ==
  /\ TypeOK
  /\ pc \in Turn => mac \in Mac /\ email \in Email
  /\ pc \in {"cache", "patch", "reply"} => rcProfileID \in Profile

\* Every step of the pass keeps the types.
LEMMA MonitorTypeStep == TypeInv /\ Monitor => TypeInv'
<1> SUFFICES ASSUME TypeInv, Monitor PROVE TypeInv'
  OBVIOUS
<1> USE HubMonitorAssumption DEF TypeInv, TypeOK, DevTypeOK, Turn, AccountCall, Control, Credential,
          Sighting, world, db, memory, locals, past
<1>1. CASE StartPass
  BY <1>1 DEF StartPass, Trustworthy, Answering, SoleClaims
<1>2. CASE ScanDevices
  BY <1>2 DEF ScanDevices
<1>3. CASE ReadAssignments
  BY <1>3 DEF ReadAssignments, SoleClaims
<1>4. CASE PassFails
  BY <1>4 DEF PassFails, ReturnFromPass
<1>5. CASE FinishPass
  BY <1>5 DEF FinishPass, ReturnFromPass
<1>6. ASSUME NEW c \in todo, TakeDevice(c) \/ SkipDevice(c) \/ TokenQueryFails(c) PROVE TypeInv'
  <2>1. c \in Mac \X Email /\ c[1] \in Mac /\ c[2] \in Email
    OBVIOUS
  <2>2. CASE TakeDevice(c)
    BY <2>1, <2>2 DEF TakeDevice
  <2>3. CASE SkipDevice(c)
    BY <2>1, <2>3 DEF SkipDevice
  <2>4. CASE TokenQueryFails(c)
    BY <2>1, <2>4 DEF TokenQueryFails
  <2> QED BY <1>6, <2>2, <2>3, <2>4
<1>7. CASE ProbeAnswered
  BY <1>7 DEF ProbeAnswered
<1>8. CASE ProbeUnanswered
  BY <1>8 DEF ProbeUnanswered, NextDevice
<1>9. CASE ReadToken
  BY <1>9 DEF ReadToken
<1>10. CASE TokenGone
  BY <1>10 DEF TokenGone, NextDevice
<1>11. CASE RefreshToken
  BY <1>11 DEF RefreshToken
<1>12. CASE UseCachedProfileID
  BY <1>12 DEF UseCachedProfileID
<1>13. CASE MissProfileID
  BY <1>13 DEF MissProfileID
<1>14. CASE FindProfileID
  BY <1>14 DEF FindProfileID
<1>15. CASE CacheProfileID
  BY <1>15 DEF CacheProfileID
<1>16. CASE PatchVisit
  BY <1>16 DEF PatchVisit
<1>17. CASE RecordVisit
  BY <1>17 DEF RecordVisit, NextDevice
<1>18. CASE CallFails
  BY <1>18 DEF CallFails, NextDevice
<1> QED
  BY <1>1, <1>2, <1>3, <1>4, <1>5, <1>6, <1>7, <1>8, <1>9, <1>10, <1>11, <1>12, <1>13, <1>14,
     <1>15, <1>16, <1>17, <1>18 DEF Monitor

\* Nor does anything that happens around the monitor change a type.
LEMMA EnvironmentTypeStep == TypeInv /\ Environment => TypeInv'
<1> SUFFICES ASSUME TypeInv, Environment PROVE TypeInv'
  OBVIOUS
<1> USE HubMonitorAssumption DEF TypeInv, TypeOK, DevTypeOK, Turn, AccountCall, Control, Credential,
          Sighting, Standing, world, db, memory, locals, past
<1>1. CASE Midnight
  BY <1>1 DEF Midnight
<1>2. CASE Restart
  BY <1>2 DEF Restart, ReturnFromPass
<1>3. ASSUME NEW m \in Mac, DeviceMoves(m) PROVE TypeInv'
  <2>1. dev' \in [Mac -> Standing] /\ lent' \in SUBSET Mac
    BY <1>3 DEF DeviceMoves, Arrive, Leave, Fade, Lend
  <2>2. Answering' \in SUBSET Mac
    BY <2>1 DEF Answering
  <2> QED BY <1>3, <2>1, <2>2 DEF DeviceMoves
<1>4. ASSUME NEW rows \in SUBSET (Mac \X Email), SetMACs(rows) PROVE TypeInv'
  <2>1. SoleClaims(rows) \in SUBSET (Mac \X Email)
    BY DEF SoleClaims
  <2> QED BY <1>4, <2>1 DEF SetMACs
<1>5. ASSUME NEW e \in Email, NEW m \in Mac, AddMAC(e, m) \/ RemoveMAC(e, m) PROVE TypeInv'
  <2>1. macs \cup {<<m, e>>} \in SUBSET (Mac \X Email) /\ macs \ {<<m, e>>} \in SUBSET (Mac \X Email)
    OBVIOUS
  <2> QED BY <1>4, <1>5, <2>1 DEF AddMAC, RemoveMAC
<1>6. ASSUME NEW e \in Email, OAuthCallback(e) PROVE TypeInv'
  BY <1>6 DEF OAuthCallback
<1> QED BY <1>1, <1>2, <1>3, <1>5, <1>6 DEF Environment

LEMMA TypeStep == TypeInv /\ [Next]_vars => TypeInv'
<1>1. TypeInv /\ UNCHANGED vars => TypeInv'
  BY DEF TypeInv, TypeOK, DevTypeOK, vars, world, db, memory, locals, past
<1> QED BY <1>1, MonitorTypeStep, EnvironmentTypeStep DEF Next

LEMMA TypeInvAlways == Spec => []TypeInv
<1>1. Init => TypeInv
  BY HubMonitorAssumption
  DEF Init, DevInit, NoLocals, TypeInv, TypeOK, DevTypeOK, Standing, Turn, AccountCall, Control,
      Credential, Sighting
<1> QED BY <1>1, TypeStep, PTL DEF Spec

\* Type correctness: every table, every local of the pass and every history
\* variable keeps its type for any number of accounts, devices, days and restarts.
THEOREM TypeCorrect == Spec => []TypeOK
<1>1. TypeInv => TypeOK
  BY DEF TypeInv
<1> QED BY <1>1, TypeInvAlways, PTL

-------------------------------------------------------------------------------
\* Every step of the pass keeps the inductive invariant.
LEMMA MonitorStep == TypeInv /\ TypeInv' /\ Consistent /\ Monitor => Consistent'
<1> SUFFICES ASSUME TypeInv, TypeInv', Consistent, Monitor PROVE Consistent'
  OBVIOUS
<1> USE HubMonitorAssumption DEF TypeInv, TypeOK, DevTypeOK, Turn, AccountCall, Control, Consistent,
          DatesInv, VisitsBacked, ProfilesInv, TakenFor, WitnessInv, TurnInv,
          Trustworthy, Answering, SoleClaims, world, db, memory, locals, past
<1>1. CASE StartPass
  <2>1. VisitsBacked' /\ ProfilesInv'
    BY <1>1 DEF StartPass
  <2>2. DatesInv' /\ WitnessInv' /\ TurnInv'
    BY <1>1 DEF StartPass, NoLocals
  <2> QED BY <2>1, <2>2
<1>2. CASE ScanDevices
  BY <1>2 DEF ScanDevices
<1>3. CASE ReadAssignments
  BY <1>3 DEF ReadAssignments
<1>4. CASE PassFails
  BY <1>4 DEF PassFails, ReturnFromPass, NoLocals
<1>5. CASE FinishPass
  BY <1>5 DEF FinishPass, ReturnFromPass, NoLocals
<1>6. CASE ProbeAnswered
  BY <1>6 DEF ProbeAnswered
<1>7. CASE ProbeUnanswered
  BY <1>7 DEF ProbeUnanswered, NextDevice
<1>8. CASE ReadToken
  BY <1>8 DEF ReadToken
<1>9. CASE TokenGone
  BY <1>9 DEF TokenGone, NextDevice
<1>10. CASE RefreshToken
  BY <1>10 DEF RefreshToken
<1>11. CASE UseCachedProfileID
  BY <1>11 DEF UseCachedProfileID
<1>12. CASE MissProfileID
  BY <1>12 DEF MissProfileID
<1>13. CASE FindProfileID
  BY <1>13 DEF FindProfileID
<1>14. CASE CacheProfileID
  BY <1>14 DEF CacheProfileID
<1>15. CASE PatchVisit
  BY <1>15 DEF PatchVisit
<1>16. CASE RecordVisit
  <2>1. VisitsBacked'
    <3>1. <<rcProfileID, today>> \in visits /\ rcProfileID \in TakenFor(email)
      BY <1>16 DEF RecordVisit
    <3>2. \A e \in Email : hubVisits'[e] = IF e = email THEN today ELSE hubVisits[e]
      BY <1>16 DEF RecordVisit
    <3> QED BY <1>16, <3>1, <3>2 DEF RecordVisit
  <2>2. DatesInv' /\ ProfilesInv' /\ WitnessInv' /\ TurnInv'
    BY <1>16 DEF RecordVisit, NextDevice
  <2> QED BY <2>1, <2>2
<1>17. CASE CallFails
  BY <1>17 DEF CallFails, NextDevice
<1>18. ASSUME NEW c \in todo, TakeDevice(c) \/ SkipDevice(c) \/ TokenQueryFails(c) PROVE Consistent'
  <2>1. c = <<c[1], c[2]>> /\ c[1] \in Mac /\ c[2] \in Email
    OBVIOUS
  <2>2. CASE TakeDevice(c)
    BY <2>1, <2>2 DEF TakeDevice, Eligible, Sighting
  <2>3. CASE SkipDevice(c)
    BY <2>1, <2>3 DEF SkipDevice
  <2>4. CASE TokenQueryFails(c)
    BY <2>1, <2>4 DEF TokenQueryFails
  <2> QED BY <1>18, <2>2, <2>3, <2>4
<1> QED
  BY <1>1, <1>2, <1>3, <1>4, <1>5, <1>6, <1>7, <1>8, <1>9, <1>10, <1>11, <1>12, <1>13, <1>14, <1>15, <1>16, <1>17, <1>18 DEF Monitor

\* So does everything that happens around the monitor.
LEMMA EnvironmentStep == TypeInv /\ TypeInv' /\ Consistent /\ Environment => Consistent'
<1> SUFFICES ASSUME TypeInv, TypeInv', Consistent, Environment PROVE Consistent'
  OBVIOUS
<1> USE HubMonitorAssumption DEF TypeInv, TypeOK, DevTypeOK, Turn, AccountCall, Control, Consistent,
          DatesInv, VisitsBacked, ProfilesInv, WitnessInv, TurnInv, NoLocals,
          world, db, memory, locals, past
<1>1. CASE Midnight
  <2>1. VisitsBacked' /\ ProfilesInv'
    BY <1>1 DEF Midnight
  <2>2. DatesInv' /\ WitnessInv' /\ TurnInv'
    BY <1>1 DEF Midnight, Trustworthy, Answering
  <2> QED BY <2>1, <2>2
<1>2. CASE Restart
  BY <1>2 DEF Restart, ReturnFromPass
<1>3. ASSUME NEW m \in Mac, DeviceMoves(m) PROVE Consistent'
  <2>1. Trustworthy' \subseteq Trustworthy \cup Answering'
    BY <1>3 DEF DeviceMoves, Arrive, Leave, Fade, Lend, Standing, Trustworthy, Answering
  <2>2. shownInPass \subseteq shownInPass'
    BY <1>3 DEF DeviceMoves
  <2>3. WitnessInv'
    BY <1>3, <2>1, <2>2 DEF DeviceMoves
  <2>4. TurnInv'
    BY <1>3, <2>2 DEF DeviceMoves
  <2> QED BY <1>3, <2>3, <2>4 DEF DeviceMoves
<1>4. ASSUME NEW rows \in SUBSET (Mac \X Email), SetMACs(rows) PROVE Consistent'
  BY <1>4 DEF SetMACs, Trustworthy, Answering
<1>5. ASSUME NEW e \in Email, NEW m \in Mac, AddMAC(e, m) \/ RemoveMAC(e, m) PROVE Consistent'
  <2>1. macs \cup {<<m, e>>} \in SUBSET (Mac \X Email) /\ macs \ {<<m, e>>} \in SUBSET (Mac \X Email)
    OBVIOUS
  <2> QED BY <1>4, <1>5, <2>1 DEF AddMAC, RemoveMAC
<1>6. ASSUME NEW e \in Email, OAuthCallback(e) PROVE Consistent'
  <2>1. ProfilesInv'
    BY <1>6 DEF OAuthCallback, TakenFor
  <2>2. VisitsBacked'
    BY <1>6 DEF OAuthCallback
  <2>3. DatesInv' /\ WitnessInv' /\ TurnInv'
    BY <1>6 DEF OAuthCallback, Trustworthy, Answering
  <2> QED BY <2>1, <2>2, <2>3
<1> QED BY <1>1, <1>2, <1>3, <1>5, <1>6 DEF Environment

LEMMA ConsistentStep == TypeInv /\ Consistent /\ [Next]_vars => Consistent'
<1>1. Consistent /\ UNCHANGED vars => Consistent'
  BY DEF vars, world, db, memory, locals, past, Consistent, DatesInv, VisitsBacked, ProfilesInv,
         WitnessInv, TurnInv, NoLocals, Trustworthy, Answering
<1> QED BY <1>1, TypeStep, MonitorStep, EnvironmentStep DEF Next

\* The invariant that ties the monitor's memory, its locals and the history of
\* the pass together holds in every state, whomever RC's search lists first.
THEOREM ConsistentAlways == Spec => []Consistent
<1>1. Init => Consistent
  BY DEF Init, NoLocals, Consistent, DatesInv, VisitsBacked, ProfilesInv, WitnessInv,
         TurnInv, Turn, AccountCall
<1> QED BY <1>1, TypeInvAlways, ConsistentStep, PTL DEF Spec

\* The monitor's memory of a visit is never ahead of what RC holds: a lost
\* answer, a failed call or a crash costs a repeated PATCH and never a visit.
THEOREM MemoryBacked == Spec => []VisitsBacked
<1>1. Consistent => VisitsBacked
  BY DEF Consistent
<1> QED BY <1>1, ConsistentAlways, PTL

-------------------------------------------------------------------------------
\* The only step that enters a visit is the PATCH, and the only one that notes
\* a visit is the return from it.
LEMMA VisitsChange == TypeInv /\ [Next]_vars => visits' = visits \/ PatchVisit
<1> USE DEF world, db, memory, locals, past, ReturnFromPass, NextDevice
<1>1. Monitor => visits' = visits \/ PatchVisit
  BY DEF Monitor, StartPass, ScanDevices, ReadAssignments, PassFails, FinishPass, TakeDevice,
         SkipDevice, TokenQueryFails, ProbeAnswered, ProbeUnanswered, ReadToken, TokenGone,
         RefreshToken, UseCachedProfileID, MissProfileID, FindProfileID, CacheProfileID,
         RecordVisit, CallFails
<1>2. Environment => visits' = visits
  BY DEF Environment, Midnight, Restart, DeviceMoves, AddMAC, RemoveMAC, SetMACs, OAuthCallback
<1> QED BY <1>1, <1>2 DEF Next, vars

\* No visit without a device of that account, undisputed at some time of this pass,
\* for which a scan or a probe could speak in this pass: the device itself, the
\* kernel's fresh memory of it, or another device with one of its addresses.  And
\* none for a profile that RC has given for another account only.
THEOREM VisitsGrounded == Spec => GroundedVisits
<1>1. TypeInv /\ Consistent /\ [Next]_vars => \A v \in visits' \ visits : Grounded(v)
  <2> SUFFICES ASSUME TypeInv, Consistent, PatchVisit, NEW v \in visits' \ visits PROVE Grounded(v)
    BY VisitsChange
  <2>1. v = <<rcProfileID, today>> /\ rcProfileID \in TakenFor(email)
    BY DEF PatchVisit, Consistent, ProfilesInv
  <2>2. <<mac, email>> \in soleInPass /\ mac \in shownInPass
    BY DEF PatchVisit, Consistent, TurnInv, Turn, AccountCall
  <2> QED BY <2>1, <2>2 DEF Grounded
<1> QED BY <1>1, TypeInvAlways, ConsistentAlways, PTL DEF Spec, GroundedVisits

\* The monitor never sends a PATCH it knows to be answered.
THEOREM PatchNotRepeated == Spec => NoRepeatedPatch
<1>1. Consistent /\ [Next]_vars => (pc = "patch" /\ pc' = "reply" => hubVisits[email] # today)
  BY DEF Consistent, TurnInv, Turn, AccountCall
<1> QED BY <1>1, ConsistentAlways, PTL DEF Spec, NoRepeatedPatch

-------------------------------------------------------------------------------
\* Every step of the system is a step of the ledger, or none.
LEMMA LedgerStep ==
  TypeInv /\ Consistent /\ [Next]_vars => [Ledger!LedgerNext]_(Ledger!ledgerVars)
<1> SUFFICES ASSUME TypeInv, Consistent, [Next]_vars
             PROVE  Ledger!LedgerNext \/ UNCHANGED <<day, visits, hubVisits>>
  BY DEF Ledger!ledgerVars
<1> USE DEF world, db, memory, locals, past, ReturnFromPass, NextDevice
<1>1. pc # "idle" => today # 0 /\ today \in {day, day - 1} \ {0}
  BY DEF TypeInv, TypeOK, Consistent, DatesInv
<1>2. CASE PatchVisit
  <2>1. email \in Email /\ rcProfileID \in TakenFor(email)
    BY <1>2 DEF PatchVisit, TypeInv, Turn, AccountCall, Consistent, ProfilesInv
  <2>2. Ledger!Enter(email)
    BY <1>1, <1>2, <2>1 DEF PatchVisit, Ledger!Enter
  <2> QED BY <2>1, <2>2 DEF Ledger!LedgerNext
<1>3. CASE RecordVisit
  <2>1. /\ email \in Email /\ rcProfileID \in TakenFor(email)
        /\ <<rcProfileID, today>> \in visits /\ hubVisits[email] <= today
    BY <1>3 DEF RecordVisit, TypeInv, Turn, AccountCall, Consistent, ProfilesInv, DatesInv
  <2>2. Ledger!Note(email)
    BY <1>1, <1>3, <2>1 DEF RecordVisit, Ledger!Note
  <2> QED BY <2>1, <2>2 DEF Ledger!LedgerNext
<1>4. CASE Monitor /\ ~PatchVisit /\ ~RecordVisit
  BY <1>4
  DEF Monitor, StartPass, ScanDevices, ReadAssignments, PassFails, FinishPass, TakeDevice,
      SkipDevice, TokenQueryFails, ProbeAnswered, ProbeUnanswered, ReadToken, TokenGone,
      RefreshToken, UseCachedProfileID, MissProfileID, FindProfileID, CacheProfileID, CallFails
<1>5. CASE Midnight
  BY <1>5 DEF Midnight, Ledger!NewDay, Ledger!LedgerNext
<1>6. CASE Restart
  BY <1>6 DEF Restart, Ledger!Forget, Ledger!LedgerNext
<1>7. CASE Environment /\ ~Midnight /\ ~Restart
  BY <1>7 DEF Environment, DeviceMoves, AddMAC, RemoveMAC, SetMACs, OAuthCallback
<1>8. CASE UNCHANGED vars
  BY <1>8 DEF vars
<1> QED BY <1>2, <1>3, <1>4, <1>5, <1>6, <1>7, <1>8 DEF Next

\* The monitor implements the ledger: what RC and the monitor's memory show of
\* it is a behaviour of VisitLedger.
THEOREM LedgerImplemented == Spec => ImplementsLedger
<1>1. Init => Ledger!LedgerInit
  BY DEF Init, Ledger!LedgerInit
<1> QED BY <1>1, LedgerStep, TypeInvAlways, ConsistentAlways, PTL
        DEF Spec, ImplementsLedger, Ledger!LedgerSpec

-------------------------------------------------------------------------------
\* What the monitor holds of the tokens table, and what it does to it.
Borrower == IF pc = "refresh" THEN email ELSE NoID

LEMMA TableStep ==
  ASSUME TypeInv, [Next]_vars
  PROVE  Table!TableNext \/ UNCHANGED <<tokens, Borrower>>
<1> USE HubMonitorAssumption
    DEF Borrower, world, db, memory, locals, past, ReturnFromPass, NextDevice
<1>1. pc = "refresh" => email \in Email
  BY DEF TypeInv, Turn, AccountCall
<1>2. CASE ReadToken
  <2>1. email \in Email /\ tokens[email] \in Credential
    BY <1>2 DEF ReadToken, TypeInv, TypeOK, Turn, AccountCall
  <2>2. CASE tokens[email] = "pat"
    BY <1>2, <2>2 DEF ReadToken
  <2>3. CASE tokens[email] = "oauth"
    <3>1. Table!Borrow(email)
      BY <1>2, <2>3 DEF ReadToken, Table!Borrow
    <3> QED BY <2>1, <3>1 DEF Table!TableNext
  <2> QED BY <1>2, <2>1, <2>2, <2>3 DEF ReadToken, Credential
<1>3. CASE RefreshToken
  <2>1. Table!GiveBack
    BY <1>1, <1>3 DEF RefreshToken, Table!GiveBack
  <2> QED BY <2>1 DEF Table!TableNext
<1>4. CASE CallFails
  BY <1>1, <1>4 DEF CallFails, AccountCall, Table!GiveUp, Table!TableNext
<1>5. CASE Monitor /\ ~ReadToken /\ ~RefreshToken /\ ~CallFails
  BY <1>5
  DEF Monitor, StartPass, ScanDevices, ReadAssignments, PassFails, FinishPass, TakeDevice,
      SkipDevice, TokenQueryFails, ProbeAnswered, ProbeUnanswered, TokenGone,
      UseCachedProfileID, MissProfileID, FindProfileID, CacheProfileID, PatchVisit, RecordVisit
<1>6. ASSUME NEW e \in Email, OAuthCallback(e) PROVE Table!Authorize(e)
  BY <1>6 DEF OAuthCallback, Table!Authorize
<1>7. CASE Restart
  BY <1>1, <1>7 DEF Restart, Table!GiveUp, Table!TableNext
<1>8. CASE Environment /\ ~Restart /\ ~\E e \in Email : OAuthCallback(e)
  BY <1>8 DEF Environment, Midnight, DeviceMoves, AddMAC, RemoveMAC, SetMACs
<1>9. CASE UNCHANGED vars
  BY <1>9 DEF vars
<1> QED BY <1>2, <1>3, <1>4, <1>5, <1>6, <1>7, <1>8, <1>9 DEF Next, Environment, Table!TableNext

\* The monitor and the callbacks it knows of keep to TokenTable, to which
\* Credentials keeps as well.
THEOREM TableShared == Spec => SharesTokenTable
<1>1. Init => Table!TableInit
  BY DEF Init, Table!TableInit, Table!Use, Credential
<1>2. TypeInv /\ [Next]_vars => [Table!TableNext]_(Table!tableVars)
  BY TableStep DEF Table!tableVars, Borrower
<1> QED BY <1>1, <1>2, TypeInvAlways, PTL DEF Spec, SharesTokenTable, Table!TableSpec

-------------------------------------------------------------------------------
\* The loop's work is only there while the loop is.
WorkInv == pc \in {"idle", "scan", "assign"} => todo = {}

PassInv == WorkInv /\ OneTurnPerDevice

\* A device has one undisputed claim at most.
LEMMA SoleClaimsOnce ==
  ASSUME NEW rows \in SUBSET (Mac \X Email), NEW c \in SoleClaims(rows), NEW d \in SoleClaims(rows),
         c[1] = d[1]
  PROVE  c = d
<1>1. c = <<c[1], c[2]>> /\ d = <<d[1], d[2]>>
  BY DEF SoleClaims
<1>2. c[2] = d[2]
  BY DEF SoleClaims
<1> QED BY <1>1, <1>2

LEMMA PassStep == TypeInv /\ PassInv /\ [Next]_vars => PassInv'
<1> SUFFICES ASSUME TypeInv, PassInv, [Next]_vars PROVE PassInv'
  OBVIOUS
<1> USE DEF PassInv, WorkInv, OneTurnPerDevice, Turn, AccountCall,
            world, db, memory, locals, past, ReturnFromPass, NextDevice
<1>1. CASE ReadAssignments
  <2>1. macs \in SUBSET (Mac \X Email) /\ todo' = SoleClaims(macs) /\ pc' = "loop"
    BY <1>1 DEF ReadAssignments, TypeInv, TypeOK
  <2>2. \A c, d \in todo' : c[1] = d[1] => c = d
    BY <2>1, SoleClaimsOnce
  <2> QED BY <2>1, <2>2
<1>2. ASSUME NEW c \in todo, TakeDevice(c) PROVE PassInv'
  BY <1>2 DEF TakeDevice
<1>3. ASSUME NEW c \in todo, SkipDevice(c) \/ TokenQueryFails(c) PROVE PassInv'
  BY <1>3 DEF SkipDevice, TokenQueryFails
<1>4. CASE StartPass \/ ScanDevices \/ PassFails \/ FinishPass
  BY <1>4 DEF StartPass, ScanDevices, PassFails, FinishPass
<1>5. CASE \/ ProbeAnswered \/ ProbeUnanswered \/ ReadToken \/ TokenGone \/ RefreshToken
           \/ UseCachedProfileID \/ MissProfileID \/ FindProfileID \/ CacheProfileID
           \/ PatchVisit \/ RecordVisit \/ CallFails
  BY <1>5 DEF ProbeAnswered, ProbeUnanswered, ReadToken, TokenGone, RefreshToken,
              UseCachedProfileID, MissProfileID, FindProfileID, CacheProfileID, PatchVisit,
              RecordVisit, CallFails
<1>6. CASE Environment
  BY <1>6 DEF Environment, Midnight, Restart, DeviceMoves, AddMAC, RemoveMAC, SetMACs, OAuthCallback
<1>7. CASE UNCHANGED vars
  BY <1>7 DEF vars
<1> QED BY <1>1, <1>2, <1>3, <1>4, <1>5, <1>6, <1>7 DEF Next, Monitor

LEMMA PassInvAlways == Spec => []PassInv
<1>1. Init => PassInv
  BY DEF Init, NoLocals, PassInv, WorkInv, OneTurnPerDevice, Turn, AccountCall
<1> QED BY <1>1, PassStep, TypeInvAlways, PTL DEF Spec

\* No device gets two turns in a pass, and no two accounts one each by it.
THEOREM DevicesTakenOnce == Spec => []OneTurnPerDevice
<1>1. PassInv => OneTurnPerDevice
  BY DEF PassInv
<1> QED BY <1>1, PassInvAlways, PTL

\* Whatever fails for one account, the pass comes to all others.
THEOREM NobodyStarved == Spec => NobodyPassedOver
<1> DEFINE Accounted(c) ==
      \/ mac' = c[1] /\ email' = c[2]
      \/ ~Eligible(c)
      \/ c[2] \in faulted'
      \/ restarts' # restarts
<1>1. TypeInv /\ PassInv /\ [Next]_vars => \A c \in todo \ todo' : Accounted(c)
  <2> SUFFICES ASSUME TypeInv, PassInv, [Next]_vars, NEW c \in todo, c \notin todo'
               PROVE  Accounted(c)
    OBVIOUS
  <2> USE DEF world, db, memory, locals, past, NextDevice
  <2>0. todo # {} => pc \notin {"idle", "scan", "assign"}
    BY DEF PassInv, WorkInv
  <2>1. ASSUME NEW d \in todo, TakeDevice(d) \/ SkipDevice(d) \/ TokenQueryFails(d)
        PROVE  Accounted(c)
    <3>1. c = d
      BY <2>1 DEF TakeDevice, SkipDevice, TokenQueryFails
    <3> QED BY <2>1, <3>1 DEF TakeDevice, SkipDevice, TokenQueryFails
  <2>2. CASE StartPass \/ ScanDevices \/ ReadAssignments \/ PassFails \/ FinishPass
    BY <2>0, <2>2 DEF StartPass, ScanDevices, ReadAssignments, PassFails, FinishPass
  <2>3. CASE \/ ProbeAnswered \/ ProbeUnanswered \/ ReadToken \/ TokenGone \/ RefreshToken
             \/ UseCachedProfileID \/ MissProfileID \/ FindProfileID \/ CacheProfileID
             \/ PatchVisit \/ RecordVisit \/ CallFails
    BY <2>3 DEF ProbeAnswered, ProbeUnanswered, ReadToken, TokenGone, RefreshToken,
                UseCachedProfileID, MissProfileID, FindProfileID, CacheProfileID, PatchVisit,
                RecordVisit, CallFails
  <2>4. CASE Restart
    BY <2>4 DEF Restart, TypeInv, TypeOK
  <2>5. CASE Environment /\ ~Restart
    BY <2>5 DEF Environment, Midnight, DeviceMoves, AddMAC, RemoveMAC, SetMACs, OAuthCallback
  <2>6. CASE UNCHANGED vars
    BY <2>6 DEF vars
  <2> QED BY <2>1, <2>2, <2>3, <2>4, <2>5, <2>6 DEF Next, Monitor
<1> QED BY <1>1, PassInvAlways, TypeInvAlways, PTL DEF Spec, NobodyPassedOver
===============================================================================
