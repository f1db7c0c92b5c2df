------------------------------- MODULE Presence -------------------------------
(***************************************************************************)
(* What network.go may say of a device, as HubMonitor takes it.  Network   *)
(* shows that the program keeps to it (KeepsPresencePromise).              *)
(*                                                                         *)
(*   "here"    the device is on the network;                               *)
(*   "lately"  it has left, but the kernel may still show the REACHABLE    *)
(*             neighbour entry it confirmed moments before;                *)
(*   "away"    it has left, and whatever still lists it (a STALE entry, a  *)
(*             row of the arp-scan cache) is known to prove nothing.       *)
(*                                                                         *)
(* Wherever it is, another device may have taken over an address that it   *)
(* is listed with.                                                         *)
(***************************************************************************)

CONSTANT Mac

VARIABLES
  dev,   \* the standing of each device
  lent   \* the devices with an address that another one holds

Standing == {"away", "lately", "here"}

DevTypeOK == dev \in [Mac -> Standing] /\ lent \in SUBSET Mac

DevInit == dev \in [Mac -> {"away", "here"}] /\ lent \in SUBSET Mac

Arrive(m) ==
  /\ dev[m] # "here"
  /\ dev' = [dev EXCEPT ![m] = "here"] /\ UNCHANGED lent

Leave(m) ==
  /\ dev[m] = "here"
  /\ \E s \in {"lately", "away"} : dev' = [dev EXCEPT ![m] = s]
  /\ UNCHANGED lent

Fade(m) ==
  /\ dev[m] = "lately"
  /\ dev' = [dev EXCEPT ![m] = "away"] /\ UNCHANGED lent

\* Another device takes over an address of m's, or gives up the last of them.
Lend(m) ==
  /\ \E s \in {lent \cup {m}, lent \ {m}} : lent' = s
  /\ UNCHANGED dev

\* The devices a scan may show as strongly present, that is, with a REACHABLE
\* neighbour entry (hasStrongPresence).
Trustworthy == {m \in Mac : dev[m] # "away"}

\* The devices an active probe may report present: any answer at an address the
\* device is listed with is taken for its own (verifyDevicePresent).
Answering == {m \in Mac : dev[m] = "here"} \cup lent
===============================================================================
