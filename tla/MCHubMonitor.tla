----------------------------- MODULE MCHubMonitor -----------------------------
(***************************************************************************)
(* Small instances of HubMonitor.                                          *)
(***************************************************************************)
EXTENDS HubMonitor

CONSTANTS e1, e2, m1, m2, p1, p2

\* RC's search finds the person the query is the address of.
ExactSearch == [e \in Email |-> {e}]

\* A stranger may come first, but not any stranger.
LooseSearch == [e \in Email |-> {e, p1}]

\* Every account may register every device.
AnyRegistration == Mac \X Email

\* Each account has a device of its own, and the first one may dispute the other's.
OneDisputable == {<<m1, e1>>, <<m2, e2>>, <<m2, e1>>}

\* The first account is settled: it has registered its device and authorised
\* the monitor, the device stays, and all that still happens to it are failing
\* calls.  Everything may happen to the second account.
\*
\* An address is only lent by a device that is away: while the device is there its
\* own answer is as good, and one that is just gone may fade first.
Settled ==
  /\ <<m1, e1>> \in macs /\ dev[m1] = "here"
  /\ \A m \in lent : dev[m] = "away"

SettledInit == Init /\ Settled /\ tokens[e1] # "none"

StaysSettled ==
  /\ Settled'
  /\ tokens'[e1] = "none" => tokens[e1] = "none"

SettledSpec == SettledInit /\ [][Next /\ StaysSettled]_vars /\ WF_vars(Monitor)

\* And it has done so by a callback, which has left its profile and a refresh token.
KnownSpec == SettledSpec /\ profileIDs[e1] = e1 /\ tokens[e1] = "oauth"
===============================================================================
