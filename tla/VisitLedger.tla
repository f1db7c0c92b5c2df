------------------------------ MODULE VisitLedger ------------------------------
(***************************************************************************)
(* What the hub monitor promises the Recurse Center (RC), abstractly: RC   *)
(* keeps a ledger of hub visits that only grows, each entered on its own   *)
(* date or, for a pass that midnight overtook, on the next one, and for a  *)
(* profile that may be taken for some account's; the monitor keeps a note  *)
(* of the last visit of each account, which it only takes from the ledger, *)
(* only moves forward, and loses in a restart.  HubMonitor implements this *)
(* with its table hubVisits as the note.                                   *)
(***************************************************************************)
EXTENDS Naturals

CONSTANTS
  Account,
  Taken     \* Taken[a]: the profiles that may be taken for account a's

VARIABLES
  day,      \* the current date, 1 and up
  ledger,   \* RC's hub visits, pairs <<profile, date>>
  known     \* the monitor's note, 0 when it has none

ledgerVars == <<day, ledger, known>>

LedgerInit == day = 1 /\ ledger = {} /\ known = [a \in Account |-> 0]

NewDay == day' = day + 1 /\ UNCHANGED <<ledger, known>>

Enter(a) ==
  /\ \E d \in {day, day - 1} \ {0}, p \in Taken[a] : ledger' = ledger \cup {<<p, d>>}
  /\ UNCHANGED <<day, known>>

Note(a) ==
  /\ \E d \in {day, day - 1} \ {0}, p \in Taken[a] :
        /\ <<p, d>> \in ledger /\ known[a] <= d
        /\ known' = [known EXCEPT ![a] = d]
  /\ UNCHANGED <<day, ledger>>

Forget == known' = [a \in Account |-> 0] /\ UNCHANGED <<day, ledger>>

LedgerNext == NewDay \/ Forget \/ \E a \in Account : Enter(a) \/ Note(a)

LedgerSpec == LedgerInit /\ [][LedgerNext]_ledgerVars
===============================================================================
