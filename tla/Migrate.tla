-------------------------------- MODULE Migrate --------------------------------
(***************************************************************************)
(* The conversion of a legacy database (scripts/migrate/main.go): a series *)
(* of statements, each committed by itself, while the old server may go on *)
(* writing the old database, a statement may fail, and the command may be  *)
(* killed and run again.                                                   *)
(*                                                                         *)
(* Tables are keyed by email.  None is a column's empty string and the     *)
(* absence of a row.  What lower() makes alike is one token type.          *)
(***************************************************************************)
EXTENDS Naturals, FiniteSets

CONSTANTS
  Account,    \* by its email
  MAC,
  ProfileID,  \* RC's ids
  Secret,     \* access and refresh tokens
  MaxChanges, \* bound: changes that the old server makes
  MaxRuns,    \* bound: runs of the command
  None

ASSUME MigrateAssumption ==
  /\ MaxChanges \in Nat /\ MaxRuns \in Nat
  /\ None \notin Secret /\ None \notin ProfileID

VARIABLES
  old,      \* the legacy tables
  new,      \* the new tables
  exists,   \* is there a file at -to?
  at,       \* the statement that comes next, or "exit"
  runs,     \* how often the command has been run
  changes,  \* how often the old tables have changed
  seen,     \* history: the old tables at any time of the latest run
  success,  \* history: has the latest run succeeded?
  spoiled   \* history: was it killed, or its file not removed?

vars == <<old, new, exists, at, runs, changes, seen, success, spoiled>>

OldToken == [type : {"pat", "bearer"}, access : Secret \cup {None}, refresh : Secret \cup {None}]
NewToken == [type : {"pat", "oauth"}, refresh : Secret]

ASSUME NoRow == None \notin OldToken /\ None \notin NewToken

OldTables ==
  [accounts : SUBSET Account, macs : SUBSET (Account \X MAC),
   tokens : [Account -> OldToken \cup {None}], profiles : [Account -> ProfileID \cup {None}]]
NewTables ==
  [accounts : SUBSET Account, macs : SUBSET (Account \X MAC),
   tokens : [Account -> NewToken \cup {None}], profiles : [Account -> ProfileID \cup {None}]]

Statements == {"schema", "accounts", "macs", "tokens", "report"}

MigrateTypeOK ==
  /\ old \in OldTables /\ new \in NewTables /\ exists \in BOOLEAN
  /\ at \in Statements \cup {"remove", "exit"}
  /\ runs \in 0..MaxRuns /\ changes \in 0..MaxChanges
  /\ seen \in SUBSET OldTables /\ success \in BOOLEAN /\ spoiled \in BOOLEAN

NoRows == [accounts |-> {}, macs |-> {}, tokens |-> [e \in Account |-> None],
           profiles |-> [e \in Account |-> None]]

MigrateInit ==
  /\ old \in OldTables /\ new = NoRows /\ exists = FALSE /\ at = "exit"
  /\ runs = 0 /\ changes = 0 /\ seen = {} /\ success = FALSE /\ spoiled = FALSE

-------------------------------------------------------------------------------
(* The command.                                                            *)

\* Mutant: a file that is there already is used.
BeginAnyway ==
  /\ at = "exit" /\ runs < MaxRuns
  /\ runs' = runs + 1 /\ at' = "schema" /\ seen' = {old}
  /\ success' = FALSE /\ spoiled' = FALSE
  /\ UNCHANGED <<old, new, exists, changes>>

\* main looks whether the file exists.
Begin ==
  /\ at = "exit" /\ ~exists /\ runs < MaxRuns
  /\ runs' = runs + 1 /\ at' = "schema" /\ seen' = {old}
  /\ success' = FALSE /\ spoiled' = FALSE
  /\ UNCHANGED <<old, new, exists, changes>>

\* A statement that is committed.
Executes(statement, next, tables) ==
  /\ at = statement /\ at' = next /\ new' = tables
  /\ UNCHANGED <<old, runs, changes, seen, spoiled>>

\* newSchema, which makes the file, and the ATTACH.
CreateSchema ==
  /\ Executes("schema", "accounts", new)
  /\ exists' = TRUE /\ UNCHANGED success

\* Mutant: only the emails of the table accounts.
EmailsInAccounts(tables) == tables.accounts

\* The emails of all legacy tables.
Emails(tables) ==
  {e \in Account : \/ e \in tables.accounts \/ \E m \in MAC : <<e, m>> \in tables.macs
                 \/ tables.tokens[e] # None \/ tables.profiles[e] # None}

MigrateAccounts ==
  /\ Executes("accounts", "macs", [new EXCEPT !.accounts = Emails(old),
       !.profiles = [e \in Account |-> IF e \in Emails(old) THEN old.profiles[e] ELSE None]])
  /\ UNCHANGED <<exists, success>>

MigrateMACs ==
  /\ Executes("macs", "tokens", [new EXCEPT !.macs = {r \in old.macs : r[1] \in new.accounts}])
  /\ UNCHANGED <<exists, success>>

\* The WHERE clause of the tokens' statement.
Usable(t) == t # None /\ IF t.type = "pat" THEN t.access # None ELSE t.refresh # None

Converted(t) ==
  IF t.type = "pat" THEN [type |-> "pat", refresh |-> t.access]
                    ELSE [type |-> "oauth", refresh |-> t.refresh]

\* Mutant: without the WHERE clause.
MigrateTokensAll ==
  /\ Executes("tokens", "report", [new EXCEPT !.tokens = [e \in Account |->
       IF e \in new.accounts /\ old.tokens[e] # None THEN Converted(old.tokens[e]) ELSE None]])
  /\ UNCHANGED <<exists, success>>

MigrateTokens ==
  /\ Executes("tokens", "report", [new EXCEPT !.tokens = [e \in Account |->
       IF e \in new.accounts /\ Usable(old.tokens[e]) THEN Converted(old.tokens[e]) ELSE None]])
  /\ UNCHANGED <<exists, success>>

\* The skipped tokens, the counts, the DETACH.
Report ==
  /\ Executes("report", "exit", new)
  /\ success' = TRUE /\ UNCHANGED exists

StatementFails ==
  /\ at \in Statements /\ at' = "remove"
  /\ exists' \in IF at = "schema" THEN BOOLEAN ELSE {exists}
  /\ UNCHANGED <<old, new, runs, changes, seen, success, spoiled>>

\* Mutant: the error is only logged.
LeaveFile ==
  /\ at = "remove" /\ at' = "exit"
  /\ UNCHANGED <<old, new, exists, runs, changes, seen, success, spoiled>>

\* os.Remove, whose error nobody looks at.
RemoveFile ==
  /\ at = "remove" /\ at' = "exit"
  /\ \/ new' = NoRows /\ exists' = FALSE /\ spoiled' = spoiled
     \/ new' = new /\ exists' = exists /\ spoiled' = exists
  /\ UNCHANGED <<old, runs, changes, seen, success>>

-------------------------------------------------------------------------------
(* Everything else.                                                        *)

\* SQLite undoes the statement that was interrupted.
Kill ==
  /\ at # "exit" /\ at' = "exit" /\ spoiled' = TRUE
  /\ exists' \in IF at = "schema" THEN BOOLEAN ELSE {exists}
  /\ UNCHANGED <<old, new, runs, changes, seen, success>>

OperatorRemoves ==
  /\ at = "exit" /\ exists
  /\ new' = NoRows /\ exists' = FALSE /\ success' = FALSE /\ spoiled' = FALSE
  /\ UNCHANGED <<old, at, runs, changes, seen>>

\* The old server writes a row of one account.
OldServer(e) ==
  /\ changes < MaxChanges /\ changes' = changes + 1
  /\ \/ old' = [old EXCEPT !.accounts = @ \cup {e}]
     \/ \E m \in MAC : \/ old' = [old EXCEPT !.macs = @ \cup {<<e, m>>}]
                       \/ old' = [old EXCEPT !.macs = @ \ {<<e, m>>}]
     \/ \E t \in OldToken : old' = [old EXCEPT !.tokens[e] = t]
     \/ \E p \in ProfileID : old' = [old EXCEPT !.profiles[e] = p]
  /\ seen' = IF at = "exit" THEN seen ELSE seen \cup {old'}
  /\ UNCHANGED <<new, exists, at, runs, success, spoiled>>

MigrateNext ==
  \/ Begin \/ CreateSchema \/ MigrateAccounts \/ MigrateMACs \/ MigrateTokens
  \/ Report \/ StatementFails \/ RemoveFile
  \/ Kill \/ OperatorRemoves
  \/ \E e \in Account : OldServer(e)

MigrateSpec == MigrateInit /\ [][MigrateNext]_vars

-------------------------------------------------------------------------------
(* Properties.                                                             *)

\* A run that succeeds has taken over every account that had a row in some table,
\* every device, profile id and usable credential that was there all the time,
\* whatever the old server wrote meanwhile (scripts/migrate/main.go:85-122).
NothingLost ==
  success => \A e \in Account :
    /\ (\A o \in seen : e \in Emails(o)) => e \in new.accounts
    /\ \A m \in MAC : (\A o \in seen : <<e, m>> \in o.macs) => <<e, m>> \in new.macs
    /\ (\A o \in seen : Usable(o.tokens[e])) => new.tokens[e] # None
    /\ \A p \in ProfileID : (\A o \in seen : o.profiles[e] = p) => new.profiles[e] = p

\* The new tables hold nothing that was not in the old ones, and no access token of
\* an OAuth authorization (scripts/migrate/main.go:5-8).
NothingForged ==
  \A e \in Account :
    /\ e \in new.accounts => \E o \in seen : e \in Emails(o)
    /\ \A m \in MAC : <<e, m>> \in new.macs => \E o \in seen : <<e, m>> \in o.macs
    /\ new.profiles[e] # None => \E o \in seen : o.profiles[e] = new.profiles[e]
    /\ new.tokens[e] # None => \E o \in seen :
         /\ o.tokens[e] # None
         /\ \/ /\ new.tokens[e].type = "pat" /\ o.tokens[e].type = "pat"
               /\ o.tokens[e].access = new.tokens[e].refresh
            \/ /\ new.tokens[e].type = "oauth" /\ o.tokens[e].type # "pat"
               /\ o.tokens[e].refresh = new.tokens[e].refresh

\* Beside an old server that writes nothing, a run that succeeds, whatever failed
\* or was killed before it, leaves exactly the conversion of the old tables.
Conversion(tables) ==
  [accounts |-> Emails(tables), macs |-> tables.macs,
   tokens |-> [e \in Account |-> IF Usable(tables.tokens[e]) THEN Converted(tables.tokens[e]) ELSE None],
   profiles |-> tables.profiles]
QuietRunExact == success => \A o \in seen : seen = {o} => new = Conversion(o)

\* A file that no run has finished, and that the server would open as a complete
\* one, is only there while the command runs, or after it was killed or could not
\* remove it (scripts/migrate/main.go:64-67; store.go:101).
PartialOnlyIfSpoiled == exists /\ at = "exit" => success \/ spoiled
===============================================================================
