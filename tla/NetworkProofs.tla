---------------------------- MODULE NetworkProofs ----------------------------
(***************************************************************************)
(* Theorems about Network, for every set of devices, addresses and pools.  *)
(***************************************************************************)
EXTENDS Network, TLAPS

\* The steps of the two goroutines keep the types.
LEMMA ProgramTypeStep == NetTypeOK /\ (Refresher \/ Reader \/ NetRestart) => NetTypeOK'
<1> SUFFICES ASSUME NetTypeOK, Refresher \/ Reader \/ NetRestart PROVE NetTypeOK'
  OBVIOUS
<1> USE NetworkAssumption DEF NetTypeOK, Sightings, Nothing, Verdict, network, refresher, reader
<1>1. CASE Refresher
  <2>1. ASSUME NEW a \in IPv4, HearReply(a) PROVE NetTypeOK'
    <3>1. a \in Addr /\ holder[a] \in Mac
      BY <2>1 DEF HearReply, Addr
    <3> QED BY <2>1, <3>1 DEF HearReply
  <2> QED BY <1>1, <2>1 DEF Refresher, StartRefresh, FinishRefresh, RefreshFails
<1>2. CASE Reader
  <2>1. ASSUME NEW m \in Mac, ReadNeigh(m) PROVE NetTypeOK'
    <3>1. Merged(m) \in SUBSET Row
      BY DEF Merged, NeighRows, Row, State
    <3> QED BY <2>1, <3>1 DEF ReadNeigh
  <2>2. ASSUME NEW r \in candidates, SkipRow(r) \/ ProbeAnswers(r) \/ ProbeSilent(r) PROVE NetTypeOK'
    BY <2>2 DEF SkipRow, ProbeAnswers, ProbeSilent, Addr
  <2> QED BY <1>2, <2>1, <2>2 DEF Reader, ReadCache, NeighFails, Judge, ProbeFails, RowsExhausted, Deliver
<1>3. CASE NetRestart
  BY <1>3 DEF NetRestart
<1> QED BY <1>1, <1>2, <1>3

LEMMA WorldTypeStep == NetTypeOK /\ World => NetTypeOK'
<1> SUFFICES ASSUME NetTypeOK, World PROVE NetTypeOK'
  OBVIOUS
<1> USE DEF NetTypeOK, refresher, reader
<1>1. ASSUME NEW m \in Mac, NEW a \in Addr, Take(m, a) PROVE NetTypeOK'
  BY <1>1 DEF Take
<1>2. ASSUME NEW a \in Addr, GiveUp(a) PROVE NetTypeOK'
  BY <1>2 DEF GiveUp
<1>3. ASSUME NEW a \in Addr, KernelConfirms(a) PROVE NetTypeOK'
  BY <1>3 DEF KernelConfirms, State
<1>4. ASSUME NEW a \in Addr, KernelAges(a) PROVE NetTypeOK'
  BY <1>4 DEF KernelAges, State
<1>5. ASSUME NEW a \in Addr, KernelDrops(a) PROVE NetTypeOK'
  BY <1>5 DEF KernelDrops
<1> QED BY <1>1, <1>2, <1>3, <1>4, <1>5 DEF World

LEMMA NetTypeStep == NetTypeOK /\ [NetNext]_netVars => NetTypeOK'
<1>1. NetTypeOK /\ UNCHANGED netVars => NetTypeOK'
  BY DEF NetTypeOK, netVars, network, refresher, reader
<1> QED BY <1>1, ProgramTypeStep, WorldTypeStep DEF NetNext

LEMMA NetTypeCorrectInit == NetInit => NetTypeOK
BY DEF NetInit, ReaderIdle, NetTypeOK, Sightings, Nothing, Verdict

\* Type correctness: the cache, the copy of it and the rows judged keep their
\* form through every scan, failure and restart.
THEOREM NetTypeCorrect == NetSpec => []NetTypeOK
BY NetTypeCorrectInit, NetTypeStep, PTL DEF NetSpec

-------------------------------------------------------------------------------
\* Every address the program has in hand is one its device may hold, and the
\* kernel has one entry for an address.
PoolInv ==
  /\ \A n, o \in neigh : n[1] = o[1] => n = o
  /\ \A a \in Addr : holder[a] # NoMac => a \in Pool[holder[a]]
  /\ \A n \in neigh : n[1] \in Pool[n[2]]
  /\ \A s \in {devMap, cachedDevices, cached} : \A m \in Mac : s[m] # NoIP => s[m] \in Pool[m]
  /\ \A r \in candidates : target \in Mac /\ r[2] \in Pool[target]

\* A reader that is to trust a row has seen its device vouched for.
VouchedInv ==
  /\ at \in {"judge", "probe"} => target \in Mac
  /\ at = "judge" /\ HasStrongPresence(candidates) => vouched
  /\ at = "strong" => vouched

PromiseInv == NetTypeOK /\ PoolInv /\ VouchedInv

\* The rows of a device hold addresses of its pool, and one that is strong shows
\* that the kernel vouches for it.
LEMMA MergedRows ==
  ASSUME NetTypeOK, PoolInv, NEW m \in Mac
  PROVE  /\ \A r \in Merged(m) : r[2] \in Pool[m]
         /\ HasStrongPresence(Merged(m)) => m \in Devices!Trustworthy
<1>1. \A r \in Merged(m) : r[2] \in Pool[m]
  BY DEF Merged, NeighRows, PoolInv
<1>2. ASSUME HasStrongPresence(Merged(m)) PROVE m \in Devices!Trustworthy
  <2>1. PICK n \in neigh : n[2] = m /\ n[3] = "REACHABLE"
    BY <1>2 DEF HasStrongPresence, Merged, NeighRows
  <2>2. n[1] \in Addr /\ n = <<n[1], m, "REACHABLE">>
    BY <2>1 DEF NetTypeOK
  <2>3. Standing(m) # "away"
    BY <2>1, <2>2 DEF Standing
  <2> QED BY <2>3 DEF Devices!Trustworthy
<1> QED BY <1>1, <1>2

LEMMA PromiseProgramStep ==
  PromiseInv /\ NetTypeOK' /\ (Refresher \/ Reader \/ NetRestart) => PromiseInv'
<1> SUFFICES ASSUME PromiseInv, NetTypeOK', Refresher \/ Reader \/ NetRestart
             PROVE  PoolInv' /\ VouchedInv'
  BY DEF PromiseInv
<1> USE NetworkAssumption DEF PromiseInv, PoolInv, VouchedInv, NetTypeOK, Sightings, Nothing, Verdict,
          network, refresher, reader
<1>1. CASE Refresher
  <2>1. ASSUME NEW a \in IPv4, HearReply(a) PROVE PoolInv' /\ VouchedInv'
    <3>1. a \in Addr /\ holder[a] \in Mac /\ a \in Pool[holder[a]]
      BY <2>1 DEF HearReply, Addr
    <3>2. \A m \in Mac : devMap'[m] # NoIP => devMap'[m] \in Pool[m]
      BY <2>1, <3>1 DEF HearReply
    <3> QED BY <2>1, <3>2 DEF HearReply
  <2>2. CASE StartRefresh
    BY <2>2 DEF StartRefresh
  <2>3. CASE FinishRefresh
    BY <2>3 DEF FinishRefresh
  <2>4. CASE RefreshFails
    BY <2>4 DEF RefreshFails
  <2> QED BY <1>1, <2>1, <2>2, <2>3, <2>4 DEF Refresher
<1>2. CASE Reader
  <2>1. ASSUME NEW m \in Mac, ReadNeigh(m) PROVE PoolInv' /\ VouchedInv'
    <3>1. /\ \A r \in Merged(m) : r[2] \in Pool[m]
          /\ HasStrongPresence(Merged(m)) => m \in Devices!Trustworthy
      BY MergedRows
    <3>2. candidates' = Merged(m) /\ target' = m /\ vouched' = (m \in Devices!Trustworthy)
      BY <2>1 DEF ReadNeigh
    <3>3. PoolInv'
      BY <2>1, <3>1, <3>2 DEF ReadNeigh
    <3>4. HasStrongPresence(candidates)' => vouched'
      BY <3>1, <3>2 DEF HasStrongPresence
    <3>5. VouchedInv'
      BY <2>1, <3>2, <3>4 DEF ReadNeigh
    <3> QED BY <3>3, <3>5
  <2>2. ASSUME NEW r \in candidates, SkipRow(r) \/ ProbeAnswers(r) \/ ProbeSilent(r)
        PROVE  PoolInv' /\ VouchedInv'
    BY <2>2 DEF SkipRow, ProbeAnswers, ProbeSilent
  <2>3. CASE ReadCache
    BY <2>3 DEF ReadCache
  <2>4. CASE NeighFails
    BY <2>4 DEF NeighFails
  <2>5. CASE Judge
    BY <2>5 DEF Judge
  <2>6. CASE ProbeFails \/ RowsExhausted \/ Deliver
    BY <2>6 DEF ProbeFails, RowsExhausted, Deliver
  <2> QED BY <1>2, <2>1, <2>2, <2>3, <2>4, <2>5, <2>6 DEF Reader
<1>3. CASE NetRestart
  BY <1>3 DEF NetRestart
<1> QED BY <1>1, <1>2, <1>3

LEMMA PromiseWorldStep == PromiseInv /\ NetTypeOK' /\ World => PromiseInv'
<1> SUFFICES ASSUME PromiseInv, NetTypeOK', World PROVE PoolInv' /\ VouchedInv'
  BY DEF PromiseInv
<1> USE NetworkAssumption DEF PromiseInv, PoolInv, VouchedInv, NetTypeOK, refresher, reader
<1>1. ASSUME NEW m \in Mac, NEW a \in Addr, Take(m, a) PROVE PoolInv' /\ VouchedInv'
  BY <1>1 DEF Take
<1>2. ASSUME NEW a \in Addr, GiveUp(a) PROVE PoolInv' /\ VouchedInv'
  BY <1>2 DEF GiveUp
<1>3. ASSUME NEW a \in Addr, KernelConfirms(a) PROVE PoolInv' /\ VouchedInv'
  BY <1>3 DEF KernelConfirms
<1>4. ASSUME NEW a \in Addr, KernelAges(a) PROVE PoolInv' /\ VouchedInv'
  BY <1>4 DEF KernelAges
<1>5. ASSUME NEW a \in Addr, KernelDrops(a) PROVE PoolInv' /\ VouchedInv'
  BY <1>5 DEF KernelDrops
<1> QED BY <1>1, <1>2, <1>3, <1>4, <1>5 DEF World

LEMMA PromiseInvAlways == NetSpec => []PromiseInv
<1>1. NetInit => PromiseInv
  BY NetTypeCorrectInit, NetworkAssumption DEF NetInit, ReaderIdle, PromiseInv, PoolInv, VouchedInv, Nothing
<1>2. PromiseInv /\ [NetNext]_netVars => PromiseInv'
  <2>1. PromiseInv /\ UNCHANGED netVars => PromiseInv'
    BY DEF PromiseInv, PoolInv, VouchedInv, NetTypeOK, netVars, network, refresher, reader
  <2> QED BY <2>1, NetTypeStep, PromiseProgramStep, PromiseWorldStep DEF NetNext, PromiseInv
<1> QED BY <1>1, <1>2, PTL DEF NetSpec

\* The probe finds its target by an answer, from an address that may be the target's,
\* of a device that is there and holds it.
LEMMA AnswerHeard ==
  ASSUME PromiseInv, [NetNext]_netVars, at = "probe", at' = "present"
  PROVE  target \in Mac /\ \E a \in Addr : a \in Pool[target] /\ holder[a] \in Mac
<1>1. PICK r \in candidates : ProbeAnswers(r)
  BY DEF NetNext, netVars, reader, World, Take, GiveUp, KernelConfirms, KernelAges, KernelDrops,
         Refresher, StartRefresh, FinishRefresh, RefreshFails, HearReply, NetRestart, Reader,
         ReadCache, NeighFails, Judge, ProbeFails, RowsExhausted, Deliver, ReadNeigh, SkipRow,
         ProbeSilent
<1>2. target \in Mac /\ r[2] \in Pool[target]
  BY DEF PromiseInv, PoolInv
<1>3. r[2] \in Addr /\ holder[r[2]] \in Mac
  BY <1>1 DEF ProbeAnswers, Addr, PromiseInv, NetTypeOK
<1> QED BY <1>2, <1>3

\* The promise HubMonitor is built on, however the addresses pass between devices: a
\* strong device was vouched for when its rows were read, and one found by the probe
\* is there, or another device holds an address that may be its own.
THEOREM PresencePromiseKept == NetSpec => KeepsPresencePromise
<1>1. ASSUME PromiseInv, PromiseInv', [NetNext]_netVars
      PROVE  /\ at' = "strong" => vouched'
             /\ at = "probe" /\ at' = "present" => target \in Devices!Answering
  <2>1. at' = "strong" => vouched'
    BY <1>1 DEF PromiseInv, VouchedInv
  <2>2. ASSUME at = "probe", at' = "present" PROVE target \in Devices!Answering
    <3>1. target \in Mac
      BY <1>1, <2>2, AnswerHeard
    <3>2. PICK a \in Addr : a \in Pool[target] /\ holder[a] \in Mac
      BY <1>1, <2>2, AnswerHeard
    <3>3. CASE holder[a] = target
      <4>1. Standing(target) = "here"
        BY <3>2, <3>3 DEF Standing
      <4> QED BY <3>1, <4>1 DEF Devices!Answering
    <3>4. CASE holder[a] # target
      <4>1. target \in Lent
        BY <3>1, <3>2, <3>4, NetworkAssumption DEF Lent
      <4> QED BY <4>1 DEF Devices!Answering
    <3> QED BY <3>3, <3>4
  <2> QED BY <2>1, <2>2
<1> QED BY <1>1, PromiseInvAlways, PTL DEF NetSpec, KeepsPresencePromise

-------------------------------------------------------------------------------
\* Every row listed is still to come, of IPv6, or was silent.
SilentInv ==
  /\ at \in {"idle", "neigh"} => ~probed
  /\ at = "judge" => ~probed /\ candidates = listed
  /\ at = "probe" =>
       /\ \A r \in listed : r \in candidates \/ r[2] \notin IPv4 \/ r[2] \in silent
       /\ probed => Probeable(listed) # {}
  /\ AbsentMeansSilent

LEMMA SilentStep ==
  ASSUME NetTypeOK, SilentInv, [NetNext]_netVars
  PROVE  SilentInv'
<1> USE DEF SilentInv, AbsentMeansSilent, Probeable
<1>1. CASE World \/ Refresher \/ UNCHANGED netVars
  <2>1. UNCHANGED <<at, candidates, probed, listed, silent>>
    BY <1>1 DEF World, Take, GiveUp, KernelConfirms, KernelAges, KernelDrops, Refresher, StartRefresh,
                FinishRefresh, RefreshFails, HearReply, netVars, reader
  <2> QED BY <2>1
<1>2. CASE NetRestart
  BY <1>2 DEF NetRestart
<1>3. CASE ReadCache \/ NeighFails \/ Judge \/ ProbeFails \/ Deliver
  BY <1>3 DEF ReadCache, NeighFails, Judge, ProbeFails, Deliver, Verdict
<1>4. CASE RowsExhausted
  BY <1>4 DEF RowsExhausted
<1>5. ASSUME NEW m \in Mac, ReadNeigh(m) PROVE SilentInv'
  BY <1>5 DEF ReadNeigh
<1>6. ASSUME NEW r \in candidates, SkipRow(r) \/ ProbeAnswers(r) PROVE SilentInv'
  BY <1>6 DEF SkipRow, ProbeAnswers
<1>7. ASSUME NEW r \in candidates, ProbeSilent(r) PROVE SilentInv'
  <2>1. r \in listed /\ r[2] \in IPv4
    BY <1>7 DEF ProbeSilent, NetTypeOK
  <2> QED BY <1>7, <2>1 DEF ProbeSilent
<1> QED BY <1>1, <1>2, <1>3, <1>4, <1>5, <1>6, <1>7 DEF NetNext, Reader

\* A device is given up only after silence at every address it was listed with
\* (network.go:225-249).
THEOREM SilenceEverywhere == NetSpec => []AbsentMeansSilent
<1>1. NetInit => SilentInv
  BY DEF NetInit, ReaderIdle, SilentInv, AbsentMeansSilent
<1>2. SilentInv => AbsentMeansSilent
  BY DEF SilentInv
<1> QED BY <1>1, <1>2, SilentStep, NetTypeCorrect, PTL DEF NetSpec

\* Only a restart empties the cache (network.go:139).
THEOREM CacheKept == NetSpec => CacheNeverEmptied
<1>1. ASSUME [NetNext]_netVars, cachedDevices # Nothing, cachedDevices' = Nothing PROVE NetRestart
  <2>1. CASE World \/ Reader \/ UNCHANGED netVars
    BY <1>1, <2>1 DEF World, Take, GiveUp, KernelConfirms, KernelAges, KernelDrops, Reader, ReadCache,
                      NeighFails, Judge, ProbeFails, RowsExhausted, Deliver, ReadNeigh, SkipRow,
                      ProbeAnswers, ProbeSilent, netVars, refresher
  <2>2. CASE Refresher
    BY <1>1, <2>2 DEF Refresher, StartRefresh, FinishRefresh, RefreshFails, HearReply
  <2> QED BY <1>1, <2>1, <2>2 DEF NetNext
<1> QED BY <1>1, PTL DEF NetSpec, CacheNeverEmptied
===============================================================================
