------------------------------- MODULE TLSFiles -------------------------------
(***************************************************************************)
(* The certificate and the key (tls.go): two files, which a start loads,   *)
(* or first makes and writes one after the other, while processes crash,   *)
(* writes fail, the power goes and an operator puts files of his own.      *)
(*                                                                         *)
(* A file holds its half of a key pair, or is torn: truncated, or written  *)
(* in part.  systemd starts the process again after every failure.         *)
(***************************************************************************)
EXTENDS Naturals

CONSTANTS
  KeyPair,   \* bound: the key pairs of one history
  MaxFaults, \* bound: crashes, failed writes, power losses, the operator's doings
  Absent, Torn, NoPair

ASSUME TLSFilesAssumption ==
  /\ MaxFaults \in Nat /\ Absent # Torn
  /\ Absent \notin KeyPair /\ Torn \notin KeyPair /\ NoPair \notin KeyPair

VARIABLES
  file,      \* each file as the kernel shows it
  unsynced,  \* those that a power loss may still take
  at,        \* where the process is
  written,   \* how many files it has written
  made,      \* the pair it has made to write
  used,      \* all pairs ever made or put
  faults,    \* how many faults there have been
  last,      \* history: the pair that was loaded last
  disturbed  \* history: have the files, since, been changed from outside?

vars == <<file, unsynced, at, written, made, used, faults, last, disturbed>>

File     == {"cert", "key"}
Contents == KeyPair \cup {Absent, Torn}

TLSTypeOK ==
  /\ file \in [File -> Contents] /\ unsynced \in SUBSET File
  /\ at \in {"down", "check", "open", "write", "load", "up"} /\ written \in 0..1
  /\ made \in KeyPair \cup {NoPair} /\ (at \in {"open", "write"} => made # NoPair)
  /\ used \in SUBSET KeyPair /\ faults \in 0..MaxFaults
  /\ last \in KeyPair \cup {NoPair} /\ disturbed \in BOOLEAN

TLSInit ==
  /\ file = [f \in File |-> Absent] /\ unsynced = {} /\ at = "down" /\ written = 0
  /\ made = NoPair /\ used = {} /\ faults = 0 /\ last = NoPair /\ disturbed = FALSE

BothExist == \A f \in File : file[f] # Absent
Matched   == file["cert"] = file["key"] /\ file["cert"] \in KeyPair

Fault == faults < MaxFaults /\ faults' = faults + 1

-------------------------------------------------------------------------------
(* A start.                                                                *)

Start ==
  /\ at = "down" /\ at' = "check"
  /\ UNCHANGED <<file, unsynced, written, made, used, faults, last, disturbed>>

\* Mutant: the certificate is looked for, and the key is not.
CertExists ==
  /\ at = "check" /\ file["cert"] # Absent /\ at' = "load"
  /\ UNCHANGED <<file, unsynced, written, made, used, faults, last, disturbed>>

\* fileExists of both.
FilesExist ==
  /\ at = "check" /\ BothExist /\ at' = "load"
  /\ UNCHANGED <<file, unsynced, written, made, used, faults, last, disturbed>>

\* Mutant: every start makes a pair.
MakePairAlways ==
  /\ at = "check" /\ at' = "open" /\ written' = 0
  /\ \E k \in KeyPair \ used : made' = k /\ used' = used \cup {k}
  /\ UNCHANGED <<file, unsynced, faults, last, disturbed>>

\* One is missing: generateSelfSignedCert.
MakePair ==
  /\ at = "check" /\ ~BothExist /\ at' = "open" /\ written' = 0
  /\ \E k \in KeyPair \ used : made' = k /\ used' = used \cup {k}
  /\ UNCHANGED <<file, unsynced, faults, last, disturbed>>

\* Mutant: the key is written first.
KeyFirst == IF written = 0 THEN "key" ELSE "cert"
Current  == IF written = 0 THEN "cert" ELSE "key"

\* writePEM truncates the file and then writes it.
OpenFile ==
  /\ at = "open" /\ at' = "write"
  /\ file' = [file EXCEPT ![Current] = Torn] /\ unsynced' = unsynced \cup {Current}
  /\ UNCHANGED <<written, made, used, faults, last, disturbed>>

WriteFile ==
  /\ at = "write" /\ file' = [file EXCEPT ![Current] = made]
  /\ \/ written = 0 /\ written' = 1 /\ at' = "open"
     \/ written = 1 /\ written' = 0 /\ at' = "load"
  /\ UNCHANGED <<unsynced, made, used, faults, last, disturbed>>

\* The disk is full, or the directory not writable: a file not opened stays as it is.
WriteFails ==
  /\ at \in {"open", "write"} /\ at' = "down" /\ Fault
  /\ UNCHANGED <<file, unsynced, written, made, used, last, disturbed>>

\* LoadX509KeyPair; from then on the pair is served from memory.
LoadPair ==
  /\ at = "load" /\ Matched /\ at' = "up" /\ last' = file["cert"] /\ disturbed' = FALSE
  /\ UNCHANGED <<file, unsynced, written, made, used, faults>>

LoadFails ==
  /\ at = "load" /\ ~Matched /\ at' = "down"
  /\ UNCHANGED <<file, unsynced, written, made, used, faults, last, disturbed>>

-------------------------------------------------------------------------------
(* Everything else.                                                        *)

Crash ==
  /\ at # "down" /\ at' = "down" /\ Fault
  /\ UNCHANGED <<file, unsynced, written, made, used, last, disturbed>>

\* What the kernel had not written yet is gone, or there in part.
PowerLoss ==
  /\ at' = "down" /\ Fault
  /\ file' \in [File -> Contents]
  /\ \A f \in File : file'[f] = file[f] \/ (f \in unsynced /\ file'[f] \in {Torn, Absent})
  /\ disturbed' = (disturbed \/ file' # file)
  /\ unsynced' = {} /\ UNCHANGED <<written, made, used, last>>

Sync ==
  /\ unsynced # {} /\ unsynced' = {}
  /\ UNCHANGED <<file, at, written, made, used, faults, last, disturbed>>

\* The operator removes a file, or copies or moves his own to its place.
Operator(f, c) ==
  /\ file' = [file EXCEPT ![f] = c] /\ Fault
  /\ disturbed' = TRUE /\ used' = used \cup ({c} \cap KeyPair)
  /\ UNCHANGED <<unsynced, at, written, made, last>>

TLSStep ==
  \/ Start \/ FilesExist \/ MakePair
  \/ OpenFile \/ WriteFile
  \/ LoadPair \/ LoadFails

TLSNext ==
  \/ TLSStep \/ WriteFails \/ Crash \/ PowerLoss \/ Sync
  \/ \E f \in File, c \in Contents : Operator(f, c)

TLSSpec     == TLSInit /\ [][TLSNext]_vars
FairTLSSpec == TLSSpec /\ WF_vars(TLSStep)

-------------------------------------------------------------------------------
(* Properties.                                                             *)

\* Both files are there, and no start can use them or will replace them.
Stuck == at = "down" /\ BothExist /\ ~Matched

\* Where nobody else has touched the files, only a write of the key that was cut
\* off leaves a pair that every later start fails on; one of the certificate is
\* repaired by the next start (tls.go:31, 106-109).
StuckOnlyByCutKey == ~disturbed /\ Stuck => file["key"] = Torn /\ file["cert"] \in KeyPair

\* Once it has been served, a pair that nobody touches is served for good, over
\* crashes of any start: the exceptions that browsers made for it hold
\* (tls.go:31-37; DOCS.md:52).
KeepsPair == last # NoPair /\ ~disturbed => Matched /\ file["cert"] = last

\* A pair that browsers have accepted is only ever exchanged for another one after
\* somebody else has touched the files (tls.go:31-37).
ServedPairStays == [][last # NoPair /\ last' # last => disturbed]_vars

\* No start, and nothing that may befall one, gets the server out of it: where both
\* files are there and do not match, the next start neither loads nor replaces
\* them (tls.go:31-37).
Wedged == at \in {"down", "check", "load"} /\ BothExist /\ ~Matched
StuckForGood == [][Wedged /\ ~Wedged' => PowerLoss \/ \E f \in File, c \in Contents : Operator(f, c)]_vars

\* Unless it is stuck, the process gets up (tls.go:31).
StartsUnlessStuck == <>[]~Stuck => <>[](at = "up")
===============================================================================
