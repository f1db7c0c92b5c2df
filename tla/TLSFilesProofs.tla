---------------------------- MODULE TLSFilesProofs ----------------------------
(***************************************************************************)
(* Proofs about TLSFiles, for any number of key pairs and faults.          *)
(***************************************************************************)
EXTENDS TLSFiles, TLAPS

\* The key is written last: it is not there before its certificate is complete.
KeyLast ==
  ~disturbed =>
    /\ file["key"] # Absent => file["cert"] \in KeyPair /\ file["key"] \in {Torn, file["cert"]}
    /\ at \in {"open", "write"} =>
         /\ written = 0 => file["key"] = Absent
         /\ written = 1 => /\ file["cert"] = made
                           /\ file["key"] = IF at = "open" THEN Absent ELSE Torn

TLSInv == TLSTypeOK /\ KeyLast /\ KeepsPair

USE TLSFilesAssumption

LEMMA TLSInvInit == TLSInit => TLSInv
<1> SUFFICES ASSUME TLSInit PROVE TLSInv
  OBVIOUS
<1>1. 0 \in 0..MaxFaults /\ 0 \in 0..1
  OBVIOUS
<1> QED BY <1>1 DEF TLSInit, TLSInv, TLSTypeOK, KeyLast, KeepsPair, Contents, File

\* A step of the process; it leaves the file it is not writing as it was.
LEMMA TLSStepInv ==
  ASSUME TLSInv, TLSStep
  PROVE  TLSInv'
<1> USE DEF TLSInv
<1>1. CASE Start \/ FilesExist \/ LoadFails
  BY <1>1 DEF Start, FilesExist, LoadFails, TLSTypeOK, KeyLast, KeepsPair, Matched
<1>2. CASE MakePair
  <2>1. ~disturbed => file["key"] = Absent /\ last = NoPair
    BY <1>2 DEF MakePair, BothExist, File, KeyLast, KeepsPair, Matched
  <2>2. PICK k \in KeyPair \ used : made' = k /\ used' = used \cup {k}
    BY <1>2 DEF MakePair
  <2>3. TLSTypeOK'
    BY <1>2, <2>2 DEF MakePair, TLSTypeOK
  <2>4. KeyLast' /\ KeepsPair'
    BY <1>2, <2>1 DEF MakePair, KeyLast, KeepsPair, Matched
  <2> QED BY <2>3, <2>4
<1>3. CASE OpenFile
  <2>1. Current \in File /\ Torn \in Contents
    BY DEF Current, File, Contents
  <2>2. /\ file' \in [File -> Contents] /\ file'[Current] = Torn
        /\ \A f \in File : f # Current => file'[f] = file[f]
    BY <1>3, <2>1 DEF OpenFile, TLSTypeOK
  <2>3. TLSTypeOK'
    BY <1>3, <2>1, <2>2 DEF OpenFile, TLSTypeOK
  <2>4. ~disturbed => last = NoPair
    BY <1>3 DEF OpenFile, KeyLast, KeepsPair, Matched, TLSTypeOK
  <2>5. KeyLast' /\ KeepsPair'
    BY <1>3, <2>2, <2>4 DEF OpenFile, KeyLast, KeepsPair, Current, File, TLSTypeOK
  <2> QED BY <2>3, <2>5
<1>4. CASE WriteFile
  <2>1. Current \in File /\ made \in KeyPair /\ made \in Contents
    BY <1>4 DEF Current, File, Contents, WriteFile, TLSTypeOK
  <2>2. /\ file' \in [File -> Contents] /\ file'[Current] = made
        /\ \A f \in File : f # Current => file'[f] = file[f]
    BY <1>4, <2>1 DEF WriteFile, TLSTypeOK
  <2>3. TLSTypeOK'
    BY <1>4, <2>1, <2>2 DEF WriteFile, TLSTypeOK
  <2>4. ~disturbed => last = NoPair
    BY <1>4 DEF WriteFile, KeyLast, KeepsPair, Matched, TLSTypeOK
  <2>5. KeyLast' /\ KeepsPair'
    BY <1>4, <2>1, <2>2, <2>4 DEF WriteFile, KeyLast, KeepsPair, Current, File, TLSTypeOK
  <2> QED BY <2>3, <2>5
<1>5. CASE LoadPair
  BY <1>5 DEF LoadPair, TLSTypeOK, KeyLast, KeepsPair, Matched
<1> QED BY <1>1, <1>2, <1>3, <1>4, <1>5 DEF TLSStep

\* Everything else either changes no file or disturbs them.
LEMMA OutsideInv ==
  ASSUME TLSInv,
         \/ WriteFails \/ Crash \/ PowerLoss \/ Sync
         \/ \E f \in File, c \in Contents : Operator(f, c)
  PROVE  TLSInv'
<1> USE DEF TLSInv
<1>1. faults' \in 0..MaxFaults /\ unsynced' \in SUBSET File
  BY DEF WriteFails, Crash, PowerLoss, Sync, Operator, Fault, TLSTypeOK
<1>2. CASE WriteFails \/ Crash \/ Sync
  BY <1>1, <1>2 DEF WriteFails, Crash, Sync, TLSTypeOK, KeyLast, KeepsPair, Matched
<1>3. CASE PowerLoss
  <2>1. TLSTypeOK'
    BY <1>1, <1>3 DEF PowerLoss, TLSTypeOK
  <2>2. ~disturbed' => ~disturbed /\ file' = file
    BY <1>3 DEF PowerLoss
  <2> QED BY <1>3, <2>1, <2>2 DEF PowerLoss, KeyLast, KeepsPair, Matched
<1>4. ASSUME NEW f \in File, NEW c \in Contents, Operator(f, c) PROVE TLSInv'
  <2>1. TLSTypeOK'
    BY <1>1, <1>4 DEF Operator, TLSTypeOK
  <2>2. disturbed' = TRUE
    BY <1>4 DEF Operator
  <2> QED BY <2>1, <2>2 DEF KeyLast, KeepsPair
<1> QED BY <1>2, <1>3, <1>4

LEMMA TLSInvHolds == TLSSpec => []TLSInv
<1>1. TLSInv /\ [TLSNext]_vars => TLSInv'
  <2>1. CASE UNCHANGED vars
    BY <2>1 DEF vars, TLSInv, TLSTypeOK, KeyLast, KeepsPair, Matched
  <2> QED BY <2>1, TLSStepInv, OutsideInv DEF TLSNext
<1> QED BY <1>1, TLSInvInit, PTL DEF TLSSpec

\* Files, process and histories keep their form.
THEOREM TLSTypeCorrect == TLSSpec => []TLSTypeOK
<1>1. TLSInv => TLSTypeOK
  BY DEF TLSInv
<1> QED BY <1>1, TLSInvHolds, PTL

\* Only a key that was cut off leaves files that every start fails on (tls.go:106-109).
THEOREM OnlyCutKeysStick == TLSSpec => []StuckOnlyByCutKey
<1>1. TLSInv => StuckOnlyByCutKey
  BY DEF TLSInv, TLSTypeOK, KeyLast, StuckOnlyByCutKey, Stuck, BothExist, Matched, File
<1> QED BY <1>1, TLSInvHolds, PTL

\* A pair that was served once is served for good (tls.go:31-37).
THEOREM PairKept == TLSSpec => []KeepsPair
<1>1. TLSInv => KeepsPair
  BY DEF TLSInv
<1> QED BY <1>1, TLSInvHolds, PTL

\* What is served does not change over restarts, whatever they run into.
THEOREM ServedPairKept == TLSSpec => ServedPairStays
<1>1. TLSInv /\ [TLSNext]_vars => (last # NoPair /\ last' # last => disturbed)
  <2> SUFFICES ASSUME TLSInv, [TLSNext]_vars, last # NoPair, last' # last, ~disturbed PROVE FALSE
    BY DEF TLSInv, TLSTypeOK
  <2>1. file["cert"] = last
    BY DEF TLSInv, KeepsPair
  <2>2. LoadPair
    BY DEF TLSNext, TLSStep, vars, Start, FilesExist, MakePair, OpenFile, WriteFile, LoadFails,
           WriteFails, Crash, PowerLoss, Sync, Operator
  <2> QED BY <2>1, <2>2 DEF LoadPair
<1> QED BY <1>1, TLSInvHolds, PTL DEF TLSSpec, ServedPairStays

\* A server with files that do not match waits for the operator.
THEOREM StuckStays == TLSSpec => StuckForGood
<1>1. [TLSNext]_vars
        => (Wedged /\ ~Wedged' => PowerLoss \/ \E f \in File, c \in Contents : Operator(f, c))
  <2> SUFFICES ASSUME Wedged, TLSStep \/ WriteFails \/ Crash \/ Sync \/ UNCHANGED vars PROVE Wedged'
    BY DEF TLSNext
  <2>1. file' = file
    BY DEF Wedged, TLSStep, Start, FilesExist, MakePair, OpenFile, WriteFile, LoadPair, LoadFails,
           WriteFails, Crash, Sync, vars
  <2>2. at' \in {"down", "check", "load"}
    BY DEF Wedged, TLSStep, Start, FilesExist, MakePair, OpenFile, WriteFile, LoadPair, LoadFails,
           WriteFails, Crash, Sync, vars
  <2> QED BY <2>1, <2>2 DEF Wedged, BothExist, Matched
<1> QED BY <1>1, PTL DEF TLSSpec, StuckForGood
===============================================================================
