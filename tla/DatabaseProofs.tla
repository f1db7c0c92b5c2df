---------------------------- MODULE DatabaseProofs ----------------------------
(***************************************************************************)
(* Theorems about the database: the query over the registered devices, for *)
(* every table and every order of its rows (MacAssignments), and the       *)
(* conversion of a legacy file, for every legacy table and whatever its    *)
(* server writes meanwhile (Migrate).                                      *)
(***************************************************************************)
EXTENDS MacAssignments, Migrate, TLAPS

-------------------------------------------------------------------------------
(* MacAssignments.                                                         *)

FoldInv == MATypeOK /\ FoldExact /\ (status = "ok" => unread = {})

LEMMA FoldStep == FoldInv /\ [MANext]_maVars => FoldInv'
<1> SUFFICES ASSUME FoldInv, [MANext]_maVars PROVE FoldInv'
  OBVIOUS
<1>1. ASSUME NEW r \in unread, ScanRow(r) PROVE FoldInv'
  <2> DEFINE read == table \ unread
  <2>1. r \in table /\ r \in Mac \X Email /\ r[1] \in Mac /\ r[2] \in Email /\ r = <<r[1], r[2]>>
    BY DEF FoldInv, MATypeOK
  <2>2. read \in SUBSET (Mac \X Email) /\ read' = read \cup {r}
    BY <1>1, <2>1 DEF ScanRow, FoldInv, MATypeOK
  <2> HIDE DEF read
  <2>3. ASSUME NEW m \in Mac
        PROVE  OwnersOf(read', m) = IF r[1] = m THEN OwnersOf(read, m) \cup {r[2]} ELSE OwnersOf(read, m)
    BY <2>2 DEF OwnersOf
  <2>4. DOMAIN assignments = {x[1] : x \in read}
    BY DEF FoldInv, FoldExact, read
  <2>5. DOMAIN assignments' = DOMAIN assignments \cup {r[1]}
    BY <1>1 DEF ScanRow, Assigned
  <2>6. MATypeOK'
    BY <1>1, <2>1, <2>5, NoEmailAssumption DEF ScanRow, Assigned, FoldInv, MATypeOK
  <2>7. DOMAIN assignments' = {x[1] : x \in read'}
    BY <2>2, <2>4, <2>5
  <2>8. ASSUME NEW m \in DOMAIN assignments'
        PROVE  IF \E e \in Email : OwnersOf(read', m) = {e}
               THEN OwnersOf(read', m) = {assignments'[m]}
               ELSE assignments'[m] = NoEmail
    <3>1. m \in Mac
      BY <2>6 DEF MATypeOK
    <3>2. OwnersOf(read, m) \subseteq Email
      BY <2>2 DEF OwnersOf
    <3>3. CASE r[1] # m
      <4>1. m \in DOMAIN assignments /\ assignments'[m] = assignments[m]
        BY <1>1, <2>5, <3>3 DEF ScanRow, Assigned
      <4>2. OwnersOf(read', m) = OwnersOf(read, m)
        BY <2>1, <2>2, <3>1, <3>3, <2>3
      <4> QED BY <4>1, <4>2 DEF FoldInv, FoldExact, read
    <3>4. CASE r[1] = m /\ m \notin DOMAIN assignments
      <4>1. OwnersOf(read, m) = {}
        BY <2>4, <3>4 DEF OwnersOf
      <4>2. OwnersOf(read', m) = {r[2]}
        BY <2>1, <2>2, <3>1, <3>4, <4>1, <2>3
      <4>3. assignments'[m] = r[2]
        BY <1>1, <3>4 DEF ScanRow, Assigned
      <4> QED BY <2>1, <4>2, <4>3
    <3>5. CASE r[1] = m /\ m \in DOMAIN assignments
      <4>1. OwnersOf(read', m) = OwnersOf(read, m) \cup {r[2]}
        BY <2>1, <2>2, <3>1, <3>5, <2>3
      <4>2. OwnersOf(read, m) # {}
        BY <2>4, <3>5 DEF OwnersOf
      <4>3. assignments'[m] = IF assignments[m] # r[2] THEN NoEmail ELSE r[2]
        BY <1>1, <3>5 DEF ScanRow, Assigned
      <4>4. IF \E e \in Email : OwnersOf(read, m) = {e}
            THEN OwnersOf(read, m) = {assignments[m]}
            ELSE assignments[m] = NoEmail
        BY <3>5 DEF FoldInv, FoldExact, read
      <4>5. CASE OwnersOf(read, m) = {r[2]}
        BY <2>1, <4>1, <4>3, <4>4, <4>5
      <4>6. CASE OwnersOf(read, m) # {r[2]}
        <5>1. ~\E e \in Email : OwnersOf(read', m) = {e}
          BY <3>2, <4>1, <4>2, <4>6
        <5>2. assignments[m] # r[2]
          BY <2>1, <4>4, <4>6, NoEmailAssumption
        <5> QED BY <4>3, <5>1, <5>2
      <4> QED BY <4>5, <4>6
    <3> QED BY <3>3, <3>4, <3>5
  <2>9. FoldExact'
    BY <2>7, <2>8 DEF FoldExact, read
  <2> QED BY <1>1, <2>6, <2>9 DEF ScanRow, FoldInv
<1>2. CASE ScanError
  BY <1>2 DEF ScanError, FoldInv, MATypeOK, FoldExact
<1>3. CASE Return
  BY <1>3 DEF Return, FoldInv, MATypeOK, FoldExact
<1>4. CASE UNCHANGED maVars
  BY <1>4 DEF maVars, FoldInv, MATypeOK, FoldExact
<1> QED BY <1>1, <1>2, <1>3, <1>4 DEF MANext

LEMMA FoldInvAlways == MASpec => []FoldInv
<1>1. MAInit => FoldInv
  BY DEF MAInit, FoldInv, MATypeOK, FoldExact
<1> QED BY <1>1, FoldStep, PTL DEF MASpec

\* The map is that of the rows read, in whatever order they came.
THEOREM FoldIsExact == MASpec => []FoldExact
<1>1. FoldInv => FoldExact
  BY DEF FoldInv
<1> QED BY <1>1, FoldInvAlways, PTL

\* What macAssignments returns is, "" aside, the set of undisputed claims that
\* HubMonitor's ReadAssignments takes from the table.
THEOREM AssignmentsAreSoleClaims == MASpec => []YieldsSoleClaims
<1>1. FoldInv => YieldsSoleClaims
  <2> SUFFICES ASSUME FoldInv, status = "ok" PROVE YieldsSoleClaims
    BY DEF YieldsSoleClaims
  <2> DEFINE claims == {<<m, assignments[m]>> : m \in {x \in DOMAIN assignments : assignments[x] # NoEmail}}
  <2>1. table \ unread = table /\ table \in SUBSET (Mac \X Email)
    BY DEF FoldInv, MATypeOK
  <2>2. DOMAIN assignments = {r[1] : r \in table}
    BY <2>1 DEF FoldInv, FoldExact
  <2>3. \A m \in DOMAIN assignments :
          IF \E e \in Email : OwnersOf(table, m) = {e}
          THEN OwnersOf(table, m) = {assignments[m]}
          ELSE assignments[m] = NoEmail
    BY <2>1 DEF FoldInv, FoldExact
  <2>4. ASSUME NEW m \in DOMAIN assignments, assignments[m] # NoEmail
        PROVE  <<m, assignments[m]>> \in SoleClaims(table)
    <3>1. OwnersOf(table, m) = {assignments[m]}
      BY <2>3, <2>4
    <3>2. PICK r \in table : r[1] = m /\ r[2] = assignments[m]
      BY <3>1 DEF OwnersOf
    <3>3. r = <<m, assignments[m]>>
      BY <2>1, <3>2
    <3> QED BY <3>1, <3>2, <3>3 DEF SoleClaims
  <2>5. ASSUME NEW r \in SoleClaims(table) PROVE r \in claims
    <3>1. r \in table /\ OwnersOf(table, r[1]) = {r[2]} /\ r[2] \in Email /\ r = <<r[1], r[2]>>
      BY <2>1 DEF SoleClaims
    <3>2. r[1] \in DOMAIN assignments
      BY <2>2, <3>1
    <3>3. assignments[r[1]] = r[2]
      BY <2>3, <3>1, <3>2
    <3> QED BY <3>1, <3>2, <3>3, NoEmailAssumption
  <2> QED BY <2>4, <2>5 DEF YieldsSoleClaims
<1> QED BY <1>1, FoldInvAlways, PTL

-------------------------------------------------------------------------------
(* Migrate.                                                                *)

\* Where the command is, and what that says of the file.
FileInv ==
  /\ ~exists => new = NoRows /\ ~success
  /\ at = "schema" => ~exists
  /\ at \in {"accounts", "macs", "tokens", "report"} => exists
  /\ at # "exit" => old \in seen /\ ~success
  /\ at = "accounts" => new = NoRows
  /\ PartialOnlyIfSpoiled

\* What the statements committed so far have taken over.
Done(statements) == at \in statements \/ success

AccountsTaken ==
  Done({"macs", "tokens", "report"}) => \A e \in Account :
    /\ (\A o \in seen : e \in Emails(o)) => e \in new.accounts
    /\ \A p \in ProfileID : (\A o \in seen : o.profiles[e] = p) => new.profiles[e] = p

MACsTaken ==
  Done({"tokens", "report"}) => \A e \in Account, m \in MAC :
    (\A o \in seen : <<e, m>> \in o.macs) => <<e, m>> \in new.macs

TokensTaken ==
  Done({"report"}) => \A e \in Account :
    (\A o \in seen : Usable(o.tokens[e])) => new.tokens[e] # None

MigrateInv ==
  /\ MigrateTypeOK /\ FileInv
  /\ AccountsTaken /\ MACsTaken /\ TokensTaken /\ NothingForged

LEMMA NoRowsType == NoRows \in NewTables
  BY DEF NoRows, NewTables

\* What the old server may write is a legacy table again.
LEMMA OldServerType ==
  ASSUME MigrateTypeOK, NEW e \in Account, OldServer(e)
  PROVE  old' \in OldTables
<1> USE DEF OldTables
<1>1. old \in OldTables
  BY DEF MigrateTypeOK
<1>2. CASE old' = [old EXCEPT !.accounts = @ \cup {e}]
  BY <1>1, <1>2
<1>3. ASSUME NEW m \in MAC,
             \/ old' = [old EXCEPT !.macs = @ \cup {<<e, m>>}]
             \/ old' = [old EXCEPT !.macs = @ \ {<<e, m>>}]
      PROVE  old' \in OldTables
  BY <1>1, <1>3
<1>4. ASSUME NEW t \in OldToken, old' = [old EXCEPT !.tokens[e] = t] PROVE old' \in OldTables
  BY <1>1, <1>4
<1>5. ASSUME NEW p \in ProfileID, old' = [old EXCEPT !.profiles[e] = p] PROVE old' \in OldTables
  BY <1>1, <1>5
<1> QED BY <1>2, <1>3, <1>4, <1>5 DEF OldServer

\* Rows that hold a usable credential are converted to rows of the new table.
LEMMA ConvertedType ==
  ASSUME NEW t \in OldToken \cup {None}, Usable(t)
  PROVE  Converted(t) \in NewToken
  BY DEF Usable, Converted, OldToken, NewToken

LEMMA FileStep == MigrateInv /\ [MigrateNext]_vars => FileInv'
<1> SUFFICES ASSUME MigrateInv, [MigrateNext]_vars PROVE FileInv'
  OBVIOUS
<1> USE DEF MigrateInv, FileInv, PartialOnlyIfSpoiled, Executes, Statements
<1>1. CASE Begin
  BY <1>1 DEF Begin
<1>2. CASE CreateSchema
  BY <1>2 DEF CreateSchema
<1>3. CASE MigrateAccounts
  BY <1>3 DEF MigrateAccounts
<1>4. CASE MigrateMACs
  BY <1>4 DEF MigrateMACs
<1>5. CASE MigrateTokens
  BY <1>5 DEF MigrateTokens
<1>6. CASE Report
  BY <1>6 DEF Report
<1>7. CASE StatementFails
  BY <1>7 DEF StatementFails
<1>8. CASE RemoveFile
  BY <1>8 DEF RemoveFile
<1>9. CASE Kill
  BY <1>9 DEF Kill
<1>10. CASE OperatorRemoves
  BY <1>10 DEF OperatorRemoves
<1>11. ASSUME NEW e \in Account, OldServer(e) PROVE FileInv'
  BY <1>11 DEF OldServer
<1>12. CASE UNCHANGED vars
  BY <1>12 DEF vars
<1> QED BY <1>1, <1>2, <1>3, <1>4, <1>5, <1>6, <1>7, <1>8, <1>9, <1>10, <1>11, <1>12 DEF MigrateNext

LEMMA MigrateTypeStep == MigrateInv /\ [MigrateNext]_vars => MigrateTypeOK'
<1> SUFFICES ASSUME MigrateInv, [MigrateNext]_vars PROVE MigrateTypeOK'
  OBVIOUS
<1> USE MigrateAssumption DEF MigrateInv, MigrateTypeOK, Statements
<1>1. CASE Begin
  <2>1. seen' \in SUBSET OldTables /\ runs' \in 0..MaxRuns
    BY <1>1 DEF Begin
  <2> QED BY <1>1, <2>1 DEF Begin
<1>2. CASE CreateSchema
  BY <1>2 DEF CreateSchema, Executes
<1>3. CASE MigrateAccounts
  <2>1. Emails(old) \in SUBSET Account
    BY DEF Emails
  <2>2. new' \in NewTables
    BY <1>3, <2>1 DEF MigrateAccounts, Executes, NewTables, OldTables
  <2> QED BY <1>3, <2>2 DEF MigrateAccounts, Executes
<1>4. CASE MigrateMACs
  <2>1. new' \in NewTables
    BY <1>4 DEF MigrateMACs, Executes, NewTables, OldTables
  <2> QED BY <1>4, <2>1 DEF MigrateMACs, Executes
<1>5. CASE MigrateTokens
  <2>1. /\ new'.accounts = new.accounts /\ new'.macs = new.macs /\ new'.profiles = new.profiles
        /\ new'.tokens = [e \in Account |->
             IF e \in new.accounts /\ Usable(old.tokens[e]) THEN Converted(old.tokens[e]) ELSE None]
    BY <1>5 DEF MigrateTokens, Executes, NewTables
  <2>2. new'.tokens \in [Account -> NewToken \cup {None}]
    BY <2>1, ConvertedType DEF OldTables
  <2>3. new' \in NewTables
    BY <1>5, <2>1, <2>2 DEF MigrateTokens, Executes, NewTables
  <2> QED BY <1>5, <2>3 DEF MigrateTokens, Executes
<1>6. CASE Report
  BY <1>6 DEF Report, Executes
<1>7. CASE StatementFails
  BY <1>7 DEF StatementFails
<1>8. CASE RemoveFile
  BY <1>8, NoRowsType DEF RemoveFile
<1>9. CASE Kill
  BY <1>9 DEF Kill
<1>10. CASE OperatorRemoves
  BY <1>10, NoRowsType DEF OperatorRemoves
<1>11. ASSUME NEW e \in Account, OldServer(e) PROVE MigrateTypeOK'
  BY <1>11, OldServerType DEF OldServer
<1>12. CASE UNCHANGED vars
  BY <1>12 DEF vars
<1> QED BY <1>1, <1>2, <1>3, <1>4, <1>5, <1>6, <1>7, <1>8, <1>9, <1>10, <1>11, <1>12 DEF MigrateNext

LEMMA AccountsStep == MigrateInv /\ [MigrateNext]_vars => AccountsTaken'
<1> SUFFICES ASSUME MigrateInv, [MigrateNext]_vars PROVE AccountsTaken'
  OBVIOUS
<1> USE DEF MigrateInv, FileInv, Done, AccountsTaken
<1>1. CASE Begin
  BY <1>1 DEF Begin
<1>2. CASE CreateSchema
  BY <1>2 DEF CreateSchema, Executes
<1>3. CASE MigrateAccounts
  <2>1. /\ old \in seen /\ seen' = seen /\ old \in OldTables
        /\ new'.accounts = Emails(old)
        /\ new'.profiles = [e \in Account |-> IF e \in Emails(old) THEN old.profiles[e] ELSE None]
    BY <1>3 DEF MigrateAccounts, Executes, MigrateTypeOK, NewTables
  <2>2. ASSUME NEW e \in Account, NEW p \in ProfileID, \A o \in seen : o.profiles[e] = p
        PROVE  new'.profiles[e] = p
    BY <2>1, <2>2, MigrateAssumption DEF Emails
  <2> QED BY <2>1, <2>2
<1>4. CASE MigrateMACs
  <2>1. new'.accounts = new.accounts /\ new'.profiles = new.profiles
    BY <1>4 DEF MigrateMACs, Executes, MigrateTypeOK, NewTables
  <2> QED BY <1>4, <2>1 DEF MigrateMACs, Executes
<1>5. CASE MigrateTokens
  <2>1. new'.accounts = new.accounts /\ new'.profiles = new.profiles
    BY <1>5 DEF MigrateTokens, Executes, MigrateTypeOK, NewTables
  <2> QED BY <1>5, <2>1 DEF MigrateTokens, Executes
<1>6. CASE Report
  BY <1>6 DEF Report, Executes
<1>7. CASE StatementFails
  BY <1>7 DEF StatementFails, Statements
<1>8. CASE RemoveFile
  BY <1>8 DEF RemoveFile
<1>9. CASE Kill
  BY <1>9 DEF Kill
<1>10. CASE OperatorRemoves
  BY <1>10 DEF OperatorRemoves
<1>11. ASSUME NEW e \in Account, OldServer(e) PROVE AccountsTaken'
  <2>1. seen \subseteq seen' /\ UNCHANGED <<new, at, success>>
    BY <1>11 DEF OldServer
  <2> QED BY <2>1
<1>12. CASE UNCHANGED vars
  BY <1>12 DEF vars
<1> QED BY <1>1, <1>2, <1>3, <1>4, <1>5, <1>6, <1>7, <1>8, <1>9, <1>10, <1>11, <1>12 DEF MigrateNext

\* The join loses no device: its account has been taken over before it.
LEMMA MACsStep == MigrateInv /\ [MigrateNext]_vars => MACsTaken'
<1> SUFFICES ASSUME MigrateInv, [MigrateNext]_vars PROVE MACsTaken'
  OBVIOUS
<1> USE DEF MigrateInv, FileInv, Done, MACsTaken
<1>1. CASE Begin
  BY <1>1 DEF Begin
<1>2. CASE CreateSchema
  BY <1>2 DEF CreateSchema, Executes
<1>3. CASE MigrateAccounts
  BY <1>3 DEF MigrateAccounts, Executes
<1>4. CASE MigrateMACs
  <2>1. /\ old \in seen /\ seen' = seen /\ seen \in SUBSET OldTables
        /\ new'.macs = {r \in old.macs : r[1] \in new.accounts}
    BY <1>4 DEF MigrateMACs, Executes, MigrateTypeOK, NewTables
  <2>2. ASSUME NEW e \in Account, NEW m \in MAC, \A o \in seen : <<e, m>> \in o.macs
        PROVE  <<e, m>> \in new'.macs
    <3>1. \A o \in seen : e \in Emails(o)
      BY <2>2 DEF Emails
    <3>2. e \in new.accounts
      BY <1>4, <3>1 DEF MigrateMACs, Executes, AccountsTaken
    <3> QED BY <2>1, <2>2, <3>2
  <2> QED BY <2>1, <2>2
<1>5. CASE MigrateTokens
  <2>1. new'.macs = new.macs
    BY <1>5 DEF MigrateTokens, Executes, MigrateTypeOK, NewTables
  <2> QED BY <1>5, <2>1 DEF MigrateTokens, Executes
<1>6. CASE Report
  BY <1>6 DEF Report, Executes
<1>7. CASE StatementFails
  BY <1>7 DEF StatementFails, Statements
<1>8. CASE RemoveFile
  BY <1>8 DEF RemoveFile
<1>9. CASE Kill
  BY <1>9 DEF Kill
<1>10. CASE OperatorRemoves
  BY <1>10 DEF OperatorRemoves
<1>11. ASSUME NEW e \in Account, OldServer(e) PROVE MACsTaken'
  <2>1. seen \subseteq seen' /\ UNCHANGED <<new, at, success>>
    BY <1>11 DEF OldServer
  <2> QED BY <2>1
<1>12. CASE UNCHANGED vars
  BY <1>12 DEF vars
<1> QED BY <1>1, <1>2, <1>3, <1>4, <1>5, <1>6, <1>7, <1>8, <1>9, <1>10, <1>11, <1>12 DEF MigrateNext

LEMMA TokensStep == MigrateInv /\ [MigrateNext]_vars => TokensTaken'
<1> SUFFICES ASSUME MigrateInv, [MigrateNext]_vars PROVE TokensTaken'
  OBVIOUS
<1> USE DEF MigrateInv, FileInv, Done, TokensTaken
<1>1. CASE Begin
  BY <1>1 DEF Begin
<1>2. CASE CreateSchema
  BY <1>2 DEF CreateSchema, Executes
<1>3. CASE MigrateAccounts
  BY <1>3 DEF MigrateAccounts, Executes
<1>4. CASE MigrateMACs
  BY <1>4 DEF MigrateMACs, Executes
<1>5. CASE MigrateTokens
  <2>1. /\ old \in seen /\ seen' = seen /\ seen \in SUBSET OldTables
        /\ new'.tokens = [e \in Account |->
             IF e \in new.accounts /\ Usable(old.tokens[e]) THEN Converted(old.tokens[e]) ELSE None]
    BY <1>5 DEF MigrateTokens, Executes, MigrateTypeOK, NewTables
  <2>2. ASSUME NEW e \in Account, \A o \in seen : Usable(o.tokens[e])
        PROVE  new'.tokens[e] # None
    <3>1. \A o \in seen : e \in Emails(o)
      BY <2>2 DEF Emails, Usable
    <3>2. e \in new.accounts
      BY <1>5, <3>1 DEF MigrateTokens, Executes, AccountsTaken
    <3>3. old.tokens[e] \in OldToken \cup {None}
      BY <2>1 DEF OldTables
    <3>4. Converted(old.tokens[e]) # None
      BY <2>1, <2>2, <3>3, ConvertedType, NoRow
    <3> QED BY <2>1, <2>2, <3>2, <3>4
  <2> QED BY <2>1, <2>2
<1>6. CASE Report
  BY <1>6 DEF Report, Executes
<1>7. CASE StatementFails
  BY <1>7 DEF StatementFails, Statements
<1>8. CASE RemoveFile
  BY <1>8 DEF RemoveFile
<1>9. CASE Kill
  BY <1>9 DEF Kill
<1>10. CASE OperatorRemoves
  BY <1>10 DEF OperatorRemoves
<1>11. ASSUME NEW e \in Account, OldServer(e) PROVE TokensTaken'
  <2>1. seen \subseteq seen' /\ UNCHANGED <<new, at, success>>
    BY <1>11 DEF OldServer
  <2> QED BY <2>1
<1>12. CASE UNCHANGED vars
  BY <1>12 DEF vars
<1> QED BY <1>1, <1>2, <1>3, <1>4, <1>5, <1>6, <1>7, <1>8, <1>9, <1>10, <1>11, <1>12 DEF MigrateNext

\* A converted row holds the credential that its type says, of the row it is made from.
LEMMA ConvertedFrom ==
  ASSUME NEW t \in OldToken \cup {None}, Usable(t)
  PROVE  /\ t # None
         /\ \/ Converted(t).type = "pat" /\ t.type = "pat" /\ t.access = Converted(t).refresh
            \/ Converted(t).type = "oauth" /\ t.type # "pat" /\ t.refresh = Converted(t).refresh
  BY DEF Usable, Converted, OldToken

LEMMA ForgedStep == MigrateInv /\ [MigrateNext]_vars => NothingForged'
<1> SUFFICES ASSUME MigrateInv, [MigrateNext]_vars PROVE NothingForged'
  OBVIOUS
<1>0. NothingForged /\ FileInv
  BY DEF MigrateInv
<1>a. ASSUME new' = NoRows PROVE NothingForged'
  BY <1>a DEF NoRows, NothingForged
<1>b. ASSUME new' = new, seen \subseteq seen' PROVE NothingForged'
  BY <1>0, <1>b DEF NothingForged
<1>1. CASE Begin
  BY <1>0, <1>1, <1>a DEF Begin, FileInv
<1>2. CASE CreateSchema
  BY <1>2, <1>b DEF CreateSchema, Executes
<1>3. CASE MigrateAccounts
  <2>1. /\ old \in seen /\ seen' = seen
        /\ new'.accounts = Emails(old) /\ new'.macs = {}
        /\ new'.tokens = [e \in Account |-> None]
        /\ new'.profiles = [e \in Account |-> IF e \in Emails(old) THEN old.profiles[e] ELSE None]
    BY <1>0, <1>3 DEF MigrateAccounts, Executes, FileInv, NoRows
  <2> QED BY <2>1 DEF NothingForged
<1>4. CASE MigrateMACs
  <2>1. /\ old \in seen /\ seen' = seen
        /\ new'.accounts = new.accounts /\ new'.tokens = new.tokens /\ new'.profiles = new.profiles
        /\ new'.macs \subseteq old.macs
    BY <1>0, <1>4 DEF MigrateMACs, Executes, FileInv, MigrateInv, MigrateTypeOK, NewTables
  <2> QED BY <1>0, <2>1 DEF NothingForged
<1>5. CASE MigrateTokens
  <2>1. /\ old \in seen /\ seen' = seen /\ old \in OldTables
        /\ new'.accounts = new.accounts /\ new'.macs = new.macs /\ new'.profiles = new.profiles
        /\ new'.tokens = [e \in Account |->
             IF e \in new.accounts /\ Usable(old.tokens[e]) THEN Converted(old.tokens[e]) ELSE None]
    BY <1>0, <1>5 DEF MigrateTokens, Executes, FileInv, MigrateInv, MigrateTypeOK, NewTables
  <2>2. ASSUME NEW e \in Account, new'.tokens[e] # None
        PROVE  \E o \in seen' :
                 /\ o.tokens[e] # None
                 /\ \/ /\ new'.tokens[e].type = "pat" /\ o.tokens[e].type = "pat"
                       /\ o.tokens[e].access = new'.tokens[e].refresh
                    \/ /\ new'.tokens[e].type = "oauth" /\ o.tokens[e].type # "pat"
                       /\ o.tokens[e].refresh = new'.tokens[e].refresh
    <3>1. Usable(old.tokens[e]) /\ new'.tokens[e] = Converted(old.tokens[e])
      BY <2>1, <2>2
    <3>2. old.tokens[e] \in OldToken \cup {None}
      BY <2>1 DEF OldTables
    <3> QED BY <2>1, <3>1, <3>2, ConvertedFrom
  <2>3. ASSUME NEW e \in Account
        PROVE  /\ e \in new'.accounts => \E o \in seen' : e \in Emails(o)
               /\ \A m \in MAC : <<e, m>> \in new'.macs => \E o \in seen' : <<e, m>> \in o.macs
               /\ new'.profiles[e] # None => \E o \in seen' : o.profiles[e] = new'.profiles[e]
    BY <1>0, <2>1 DEF NothingForged
  <2> QED BY <2>2, <2>3 DEF NothingForged
<1>6. CASE Report
  BY <1>6, <1>b DEF Report, Executes
<1>7. CASE StatementFails
  BY <1>7, <1>b DEF StatementFails
<1>8. CASE RemoveFile
  BY <1>8, <1>a, <1>b DEF RemoveFile
<1>9. CASE Kill
  BY <1>9, <1>b DEF Kill
<1>10. CASE OperatorRemoves
  BY <1>10, <1>a DEF OperatorRemoves
<1>11. ASSUME NEW e \in Account, OldServer(e) PROVE NothingForged'
  BY <1>11, <1>b DEF OldServer
<1>12. CASE UNCHANGED vars
  BY <1>12, <1>b DEF vars
<1> QED BY <1>1, <1>2, <1>3, <1>4, <1>5, <1>6, <1>7, <1>8, <1>9, <1>10, <1>11, <1>12 DEF MigrateNext

LEMMA MigrateInvAlways == MigrateSpec => []MigrateInv
<1>1. MigrateInit => MigrateInv
  <2> SUFFICES ASSUME MigrateInit PROVE MigrateInv
    OBVIOUS
  <2> USE DEF MigrateInit
  <2>1. MigrateTypeOK
    <3>1. old \in OldTables /\ new \in NewTables /\ seen \in SUBSET OldTables
      BY NoRowsType
    <3>2. runs \in 0..MaxRuns /\ changes \in 0..MaxChanges
      BY MigrateAssumption
    <3> QED BY <3>1, <3>2 DEF MigrateTypeOK
  <2>2. NothingForged
    BY DEF NothingForged, NoRows
  <2> QED BY <2>1, <2>2 DEF MigrateInv, FileInv, PartialOnlyIfSpoiled, Done,
                           AccountsTaken, MACsTaken, TokensTaken
<1>2. MigrateInv /\ [MigrateNext]_vars => MigrateInv'
  BY FileStep, MigrateTypeStep, AccountsStep, MACsStep, TokensStep, ForgedStep DEF MigrateInv
<1> QED BY <1>1, <1>2, PTL DEF MigrateSpec

\* The file, the tables and the histories keep their types.
THEOREM MigrateTypeCorrect == MigrateSpec => []MigrateTypeOK
<1>1. MigrateInv => MigrateTypeOK
  BY DEF MigrateInv
<1> QED BY <1>1, MigrateInvAlways, PTL

\* A run that succeeds has lost nothing that was in the old tables all the time.
THEOREM MigrationLosesNothing == MigrateSpec => []NothingLost
<1>1. MigrateInv => NothingLost
  BY DEF MigrateInv, AccountsTaken, MACsTaken, TokensTaken, Done, NothingLost
<1> QED BY <1>1, MigrateInvAlways, PTL

\* Nothing is in the new tables that was not in the old ones during the run.
THEOREM MigrationForgesNothing == MigrateSpec => []NothingForged
<1>1. MigrateInv => NothingForged
  BY DEF MigrateInv
<1> QED BY <1>1, MigrateInvAlways, PTL

\* No unfinished file is left behind for the server unless the command was killed
\* or could not remove it.
THEOREM MigrationLeavesNoPartialFile == MigrateSpec => []PartialOnlyIfSpoiled
<1>1. MigrateInv => PartialOnlyIfSpoiled
  BY DEF MigrateInv, FileInv
<1> QED BY <1>1, MigrateInvAlways, PTL

\* If nobody writes the old tables during a run that succeeds, the new ones are
\* their conversion, row by row: that nothing is lost and nothing forged leaves
\* no other.
THEOREM QuietMigrationIsExact == MigrateSpec => []QuietRunExact
<1>1. MigrateInv => QuietRunExact
  <2> SUFFICES ASSUME MigrateInv, success, NEW o \in seen, seen = {o} PROVE new = Conversion(o)
    BY DEF QuietRunExact
  <2>1. /\ o \in OldTables /\ new \in NewTables
        /\ o.macs \subseteq Account \X MAC /\ new.macs \subseteq Account \X MAC
        /\ new.accounts \subseteq Account /\ Emails(o) \subseteq Account
        /\ \A e \in Account :
             /\ o.tokens[e] \in OldToken \cup {None} /\ new.tokens[e] \in NewToken \cup {None}
             /\ o.profiles[e] \in ProfileID \cup {None} /\ new.profiles[e] \in ProfileID \cup {None}
    BY DEF MigrateInv, MigrateTypeOK, OldTables, NewTables, Emails
  <2>2. /\ \A e \in Account : e \in Emails(o) => e \in new.accounts
        /\ \A e \in Account, p \in ProfileID : o.profiles[e] = p => new.profiles[e] = p
        /\ \A e \in Account, m \in MAC : <<e, m>> \in o.macs => <<e, m>> \in new.macs
        /\ \A e \in Account : Usable(o.tokens[e]) => new.tokens[e] # None
    BY DEF MigrateInv, AccountsTaken, MACsTaken, TokensTaken, Done
  <2>3. /\ \A e \in Account : e \in new.accounts => e \in Emails(o)
        /\ \A e \in Account, m \in MAC : <<e, m>> \in new.macs => <<e, m>> \in o.macs
        /\ \A e \in Account : new.profiles[e] # None => o.profiles[e] = new.profiles[e]
    BY DEF MigrateInv, NothingForged
  <2>4. ASSUME NEW e \in Account, new.tokens[e] # None
        PROVE  /\ o.tokens[e] # None
               /\ \/ /\ new.tokens[e].type = "pat" /\ o.tokens[e].type = "pat"
                     /\ o.tokens[e].access = new.tokens[e].refresh
                  \/ /\ new.tokens[e].type = "oauth" /\ o.tokens[e].type # "pat"
                     /\ o.tokens[e].refresh = new.tokens[e].refresh
    BY <2>4 DEF MigrateInv, NothingForged
  <2>5. ASSUME NEW e \in Account, new.tokens[e] # None
        PROVE  Usable(o.tokens[e]) /\ new.tokens[e] = Converted(o.tokens[e])
    <3>1. new.tokens[e] \in NewToken
      BY <2>1, <2>5
    <3>2. new.tokens[e].refresh # None
      BY <3>1, MigrateAssumption DEF NewToken
    <3> QED BY <2>4, <2>5, <3>1, <3>2 DEF Usable, Converted, NewToken
  <2>6. new.accounts = Emails(o) /\ new.macs = o.macs
    <3>1. new.accounts = Emails(o)
      BY <2>1, <2>2, <2>3
    <3>2. ASSUME NEW r \in Account \X MAC PROVE r \in new.macs <=> r \in o.macs
      BY <2>2, <2>3
    <3> QED BY <2>1, <3>1, <3>2
  <2>7. \A e \in Account : new.profiles[e] = o.profiles[e]
    BY <2>1, <2>2, <2>3
  <2>8. \A e \in Account :
          new.tokens[e] = IF Usable(o.tokens[e]) THEN Converted(o.tokens[e]) ELSE None
    BY <2>2, <2>5
  <2>9. new.profiles = o.profiles
    BY <2>1, <2>7 DEF OldTables, NewTables
  <2>10. new.tokens = [e \in Account |-> IF Usable(o.tokens[e]) THEN Converted(o.tokens[e]) ELSE None]
    BY <2>1, <2>8 DEF NewTables
  <2> QED BY <2>1, <2>6, <2>9, <2>10 DEF Conversion, NewTables
<1> QED BY <1>1, MigrateInvAlways, PTL
===============================================================================
