-------------------------------- MODULE Network --------------------------------
(***************************************************************************)
(* What the program knows of the local network (network.go): a background  *)
(* goroutine that refreshes a cache by arp-scan, and the reader behind the *)
(* hub monitor, which merges that cache with the kernel's neighbour table  *)
(* and, for a device nothing recent vouches for, probes its addresses.     *)
(*                                                                         *)
(* The reader serves one device at a time; the model follows one of them,  *)
(* the target, from the scan that lists it to the verdict on it.  Devices  *)
(* take and leave addresses, and the kernel learns, ages and drops its     *)
(* entries, between any two steps.                                         *)
(***************************************************************************)
EXTENDS Naturals, FiniteSets

CONSTANTS
  Mac, IPv4, IPv6,   \* devices and addresses
  Pool,              \* the addresses a device may ever take
  NoMac, NoIP        \* nobody; no address

Addr == IPv4 \cup IPv6

ASSUME NetworkAssumption ==
  /\ Pool \in [Mac -> SUBSET Addr]
  /\ IPv4 \cap IPv6 = {}
  /\ NoMac \notin Mac /\ NoIP \notin Addr

VARIABLES
  holder,         \* who holds each address now, that is, answers for it
  neigh,          \* the kernel's usable entries, triples <<address, mac, state>>
  scan,           \* the refreshing goroutine: "idle" or "scanning"
  devMap,         \* its arp-scan's replies so far: the last address of each mac
  cachedDevices,  \* the cache, of the same form
  at,             \* the reader's place; the verdicts are places too
  cached,         \* the reader's copy of the cache
  target,         \* the device the reader is to judge
  candidates,     \* its rows not probed yet, triples <<source, address, state>>
  probed,         \* verifyDevicePresent has sent a probe
  listed,         \* history: all its rows
  vouched,        \* history: it was no stranger to the network when they were read
  silent          \* history: addresses whose probe was not answered

network   == <<holder, neigh>>
refresher == <<scan, devMap, cachedDevices>>
reader    == <<at, cached, target, candidates, probed, listed, vouched, silent>>
netVars   == <<network, refresher, reader>>

State    == {"REACHABLE", "STALE"}   \* STALE stands for every other usable state
Verdict  == {"unseen", "strong", "present", "absent", "error"}
Row      == {"arp-scan", "ip-neigh"} \X Addr \X (State \cup {"none"})
Sightings == [Mac -> Addr \cup {NoIP}]
Nothing  == [m \in Mac |-> NoIP]

NetTypeOK ==
  /\ holder \in [Addr -> Mac \cup {NoMac}]
  /\ neigh \in SUBSET (Addr \X Mac \X State)
  /\ scan \in {"idle", "scanning"}
  /\ devMap \in Sightings /\ cachedDevices \in Sightings /\ cached \in Sightings
  /\ at \in {"idle", "neigh", "judge", "probe"} \cup Verdict
  /\ target \in Mac \cup {NoMac} /\ listed \in SUBSET Row /\ candidates \in SUBSET listed
  /\ probed \in BOOLEAN /\ vouched \in BOOLEAN /\ silent \in SUBSET Addr

ReaderIdle ==
  /\ at = "idle" /\ cached = Nothing /\ target = NoMac /\ candidates = {} /\ probed = FALSE
  /\ listed = {} /\ vouched = FALSE /\ silent = {}

NetInit ==
  /\ holder \in [Addr -> Mac \cup {NoMac}]
  /\ \A a \in Addr, m \in Mac : holder[a] = m => a \in Pool[m]
  /\ neigh = {}
  /\ scan = "idle" /\ devMap = Nothing /\ cachedDevices = Nothing
  /\ ReaderIdle

-------------------------------------------------------------------------------
\* The devices as Presence sees them.
Standing(m) ==
  IF \E a \in Addr : holder[a] = m THEN "here"
  ELSE IF \E a \in Addr : <<a, m, "REACHABLE">> \in neigh THEN "lately" ELSE "away"

Lent == {m \in Mac : \E a \in Pool[m] : holder[a] \notin {m, NoMac}}

Devices == INSTANCE Presence WITH dev <- [m \in Mac |-> Standing(m)], lent <- Lent

-------------------------------------------------------------------------------
(* The network and the kernel.                                             *)

Take(m, a) ==
  /\ a \in Pool[m] /\ holder[a] = NoMac
  /\ holder' = [holder EXCEPT ![a] = m]
  /\ UNCHANGED <<neigh, refresher, reader>>

GiveUp(a) ==
  /\ holder[a] # NoMac
  /\ holder' = [holder EXCEPT ![a] = NoMac]
  /\ UNCHANGED <<neigh, refresher, reader>>

\* Traffic with a holder confirms its entry.
KernelConfirms(a) ==
  /\ holder[a] # NoMac
  /\ neigh' = {n \in neigh : n[1] # a} \cup {<<a, holder[a], "REACHABLE">>}
  /\ UNCHANGED <<holder, refresher, reader>>

\* Half a minute without traffic.
KernelAges(a) ==
  /\ \E m \in Mac :
       /\ <<a, m, "REACHABLE">> \in neigh
       /\ neigh' = (neigh \ {<<a, m, "REACHABLE">>}) \cup {<<a, m, "STALE">>}
  /\ UNCHANGED <<holder, refresher, reader>>

\* The entry is collected, or becomes FAILED, which isUsableNeighbor drops.
KernelDrops(a) ==
  /\ \E n \in neigh : n[1] = a
  /\ neigh' = {n \in neigh : n[1] # a}
  /\ UNCHANGED <<holder, refresher, reader>>

-------------------------------------------------------------------------------
(* The refreshing goroutine.                                               *)

StartRefresh ==
  /\ scan = "idle"
  /\ scan' = "scanning" /\ devMap' = Nothing
  /\ UNCHANGED <<network, cachedDevices, reader>>

\* arp-scan comes to an address and its holder answers; arpScanToDevices keeps
\* one address for each device.  Replies get lost, so none is owed.
HearReply(a) ==
  /\ scan = "scanning" /\ a \in IPv4 /\ holder[a] # NoMac
  /\ devMap' = [devMap EXCEPT ![holder[a]] = a]
  /\ UNCHANGED <<network, scan, cachedDevices, reader>>

\* Mutant: an empty scan empties the cache.
FinishRefreshEmptying ==
  /\ scan = "scanning"
  /\ cachedDevices' = devMap
  /\ scan' = "idle" /\ devMap' = Nothing
  /\ UNCHANGED <<network, reader>>

FinishRefresh ==
  /\ scan = "scanning"
  /\ cachedDevices' = IF devMap # Nothing THEN devMap ELSE cachedDevices
  /\ scan' = "idle" /\ devMap' = Nothing
  /\ UNCHANGED <<network, reader>>

\* arp-scan fails or runs into the timeout: what it printed is discarded.
RefreshFails ==
  /\ scan = "scanning"
  /\ scan' = "idle" /\ devMap' = Nothing
  /\ UNCHANGED <<network, cachedDevices, reader>>

-------------------------------------------------------------------------------
(* The reader: cachedNetworkDevices, then what the monitor's loop does with *)
(* one device of the result.                                               *)

ReadCache ==
  /\ at = "idle"
  /\ cached' = cachedDevices /\ at' = "neigh"
  /\ UNCHANGED <<network, refresher, target, candidates, probed, silent, listed, vouched>>

NeighRows(m) == {<<"ip-neigh", n[1], n[3]>> : n \in {x \in neigh : x[2] = m}}

\* mergeNetworkDevices: of two rows with one IP and MAC the cache's stays.
Merged(m) ==
  LET arpRows == IF cached[m] = NoIP THEN {} ELSE {<<"arp-scan", cached[m], "none">>}
  IN  arpRows \cup {r \in NeighRows(m) : r[2] # cached[m]}

\* scanIPNeigh and the merge; from here on the reader is after one device.
ReadNeigh(m) ==
  /\ at = "neigh"
  /\ target' = m /\ candidates' = Merged(m) /\ listed' = Merged(m) /\ cached' = Nothing
  /\ vouched' = (m \in Devices!Trustworthy)
  /\ at' = IF Merged(m) = {} THEN "unseen" ELSE "judge"
  /\ UNCHANGED <<network, refresher, probed, silent>>

NeighFails ==
  /\ at = "neigh"
  /\ at' = "error" /\ cached' = Nothing
  /\ UNCHANGED <<network, refresher, target, candidates, probed, silent, listed, vouched>>

\* Mutant: any entry of the kernel is taken for a fresh one.
HasAnyNeigh(rows) == \E r \in rows : r[1] = "ip-neigh"

HasStrongPresence(rows) == \E r \in rows : r[1] = "ip-neigh" /\ r[3] = "REACHABLE"

Judge ==
  /\ at = "judge"
  /\ at' = IF HasStrongPresence(candidates) THEN "strong" ELSE "probe"
  /\ UNCHANGED <<network, refresher, cached, target, candidates, probed, silent, listed, vouched>>

\* The row verifyDevicePresent comes to: the cache's first.
IsNext(r) == r \in candidates /\ (r[1] = "ip-neigh" => \A x \in candidates : x[1] = "ip-neigh")

\* arp-scan is IPv4 only.
SkipRow(r) ==
  /\ at = "probe" /\ IsNext(r) /\ r[2] \notin IPv4
  /\ candidates' = candidates \ {r}
  /\ UNCHANGED <<network, refresher, at, cached, target, probed, silent, listed, vouched>>

\* Whoever holds the address answers: the output only has to be non-empty.
ProbeAnswers(r) ==
  /\ at = "probe" /\ IsNext(r) /\ r[2] \in IPv4 /\ holder[r[2]] # NoMac
  /\ probed' = TRUE /\ at' = "present"
  /\ UNCHANGED <<network, refresher, cached, target, candidates, silent, listed, vouched>>

\* Mutant: silence at one address ends the search.
ProbeSilentReturns(r) ==
  /\ at = "probe" /\ IsNext(r) /\ r[2] \in IPv4
  /\ probed' = TRUE /\ at' = "absent" /\ silent' = silent \cup {r[2]}
  /\ UNCHANGED <<network, refresher, cached, target, candidates, listed, vouched>>

\* Mutant: the output of the probe is not looked at.
ProbeSilentPresent(r) ==
  /\ at = "probe" /\ IsNext(r) /\ r[2] \in IPv4
  /\ probed' = TRUE /\ at' = "present" /\ silent' = silent \cup {r[2]}
  /\ UNCHANGED <<network, refresher, cached, target, candidates, listed, vouched>>

\* Nobody answers, or the packet is lost.
ProbeSilent(r) ==
  /\ at = "probe" /\ IsNext(r) /\ r[2] \in IPv4
  /\ probed' = TRUE /\ silent' = silent \cup {r[2]} /\ candidates' = candidates \ {r}
  /\ UNCHANGED <<network, refresher, at, cached, target, listed, vouched>>

\* arp-scan cannot run or times out: no verdict, whatever rows are left.
ProbeFails ==
  /\ at = "probe" /\ \E r \in candidates : r[2] \in IPv4
  /\ probed' = TRUE /\ at' = "error"
  /\ UNCHANGED <<network, refresher, cached, target, candidates, silent, listed, vouched>>

\* No row is left; without any probe that is an error.
RowsExhausted ==
  /\ at = "probe" /\ candidates = {}
  /\ at' = IF probed THEN "absent" ELSE "error"
  /\ UNCHANGED <<network, refresher, cached, target, candidates, probed, silent, listed, vouched>>

\* On to the next device or the next pass.
Deliver ==
  /\ at \in Verdict
  /\ at' = "idle" /\ target' = NoMac /\ candidates' = {}
  /\ probed' = FALSE /\ listed' = {} /\ vouched' = FALSE /\ silent' = {}
  /\ UNCHANGED <<network, refresher, cached>>

\* The process dies and is started again: the cache is gone.
NetRestart ==
  /\ scan' = "idle" /\ devMap' = Nothing /\ cachedDevices' = Nothing
  /\ at' = "idle" /\ cached' = Nothing /\ target' = NoMac /\ candidates' = {}
  /\ probed' = FALSE /\ listed' = {} /\ vouched' = FALSE /\ silent' = {}
  /\ UNCHANGED network

World ==
  \/ \E m \in Mac, a \in Addr : Take(m, a)
  \/ \E a \in Addr : GiveUp(a) \/ KernelConfirms(a) \/ KernelAges(a) \/ KernelDrops(a)

Refresher ==
  StartRefresh \/ FinishRefresh \/ RefreshFails \/ \E a \in IPv4 : HearReply(a)

Reader ==
  \/ ReadCache \/ NeighFails \/ Judge \/ ProbeFails \/ RowsExhausted \/ Deliver
  \/ \E m \in Mac : ReadNeigh(m)
  \/ \E r \in candidates : SkipRow(r) \/ ProbeAnswers(r) \/ ProbeSilent(r)

NetNext == World \/ Refresher \/ Reader \/ NetRestart

NetSpec == NetInit /\ [][NetNext]_netVars

-------------------------------------------------------------------------------
(* Properties.                                                             *)

\* The rows of one device that verifyDevicePresent can probe.
Probeable(rows) == {r[2] : r \in {x \in rows : x[2] \in IPv4}}

\* What HubMonitor relies on: when the scan makes a device strongly present, it
\* is on the network or the kernel has just confirmed it, and when the probe
\* finds it, it is there or another device holds an address that may be its own,
\* although the rows the probe works from may be as old as the cache
\* (network.go:206-249).
KeepsPresencePromise ==
  [][/\ at' = "strong" => vouched'
     /\ at = "probe" /\ at' = "present" => target \in Devices!Answering]_netVars

\* A device is only given up when it was silent at every address it was listed
\* with, and never without a probe: the stale address of a device that has
\* moved does not hide the one it moved to.
AbsentMeansSilent ==
  at = "absent" => Probeable(listed) # {} /\ Probeable(listed) \subseteq silent

\* Once it holds devices, the cache never goes back to holding none, whatever
\* comes of the scans, except by a restart.
CacheNeverEmptied == [][cachedDevices # Nothing /\ cachedDevices' = Nothing => NetRestart]_netVars

\* DOCS.md, "Presence verification": "If there is a fresh `REACHABLE` `ip neigh`
\* entry, that is trusted directly".  It is not when the cache knows the same
\* address: mergeNetworkDevices then drops the kernel's row for the cache's.
ReachableIsTrusted ==
  [][at = "neigh" /\ at' = "judge" /\ (\E a \in Addr : <<a, target', "REACHABLE">> \in neigh)
       => HasStrongPresence(candidates')]_netVars

\* DOCS.md, same place: the monitor "only marks the device present if it
\* answers".  The probe is satisfied with any answer: when the address has
\* passed to another device, that one's.
PresentIfItAnswers == [][at = "probe" /\ at' = "present" => Standing(target) = "here"]_netVars
===============================================================================
