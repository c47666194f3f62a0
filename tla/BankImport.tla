----------------------------- MODULE BankImport -----------------------------
(***************************************************************************)
(* Bank accounts and the import of statement files                         *)
(* (services/bankingService.ts, bankStatementParsers.ts): requests that    *)
(* import files with common rows at the same time, each in a transaction   *)
(* whose preview reads on a connection of its own, while others change the *)
(* bank accounts.  Only the unique indexes of migration banking_v13 stand  *)
(* between them.                                                           *)
(***************************************************************************)
EXTENDS Naturals, Sequences, FiniteSets, Relation

CONSTANTS
  Requests,
  Accounts,    \* bank accounts that may be created
  Ibans,       \* the IBANs they may be given
  Opened,      \* the IBANs of the accounts there are at first, None of the others
  Files,       \* statement files, by the hash of their content
  Rows,        \* rows they may hold
  Contents,    \* the rows of each file, in order, as the parser returns them
  MaxChanges,  \* bound on the changes of bank accounts
  None

\* What of a row tells it from others: the fields that go into the fingerprint
\* (date, amount, reference, counterparty; neither direction nor message) and
\* the identifier the bank has given it, which some formats do not carry.
Row == [key : Nat, external : Nat \union {None}]

ASSUME ImportAssumption ==
  /\ Rows \subseteq Row
  /\ Contents \in [Files -> Seq(Rows)]
  /\ Opened \in [Accounts -> Ibans \union {None}]
  /\ \A a, b \in Accounts : Opened[a] = Opened[b] => a = b \/ Opened[a] = None
  /\ MaxChanges \in Nat
  /\ None \notin Requests \union Files \union Accounts \union Ibans

VARIABLES
  account,      \* bank_accounts
  held,         \* the IBANs each account has or once had
  changes,      \* how many changes of accounts have begun
  batches,      \* the committed bank_import_batches
  transactions, \* the committed bank_transactions
  request       \* the transaction of each request

accountVars == <<account, held>>
vars == <<accountVars, changes, batches, transactions, request>>

Idle == [step |-> "idle", account |-> None, iban |-> None, create |-> FALSE,
         seen |-> {}, file |-> None, next |-> 0, inserted |-> {}]

Init ==
  /\ account = [a \in Accounts |->
                  [iban |-> Opened[a], active |-> Opened[a] # None, default |-> FALSE]]
  /\ held = {p \in Accounts \X Ibans : Opened[p[1]] = p[2]}
  /\ changes = 0
  /\ batches = {}
  /\ transactions = {}
  /\ request = [r \in Requests |-> Idle]

At(r, s) == request[r].step = s
Exists(a) == account[a].iban # None
Existing == {a \in Accounts : Exists(a)}

\* Mutant: the connection is released with its transaction still open.
AbortMutant(r) ==
  /\ request' = [request EXCEPT ![r].step = "released"]
  /\ UNCHANGED <<accountVars, changes, batches, transactions>>

\* ROLLBACK and release in withTenantTransaction.
Abort(r) ==
  /\ request' = [request EXCEPT ![r] = Idle]
  /\ UNCHANGED <<accountVars, changes, batches, transactions>>
-----------------------------------------------------------------------------
(***************************************************************************)
(* Bank accounts.                                                          *)
(***************************************************************************)
\* A transaction that has cleared the mark of the default account holds the
\* locks of all the rows its statement has seen.
Locked(a) == \E r \in Requests : At(r, "cleared") /\ a \in request[r].seen

\* The account of an open import: its batch refers to it, and keeps what
\* PostgreSQL takes for a key of the row, the IBAN, from changing.
InUse(a) ==
  \E r \in Requests : request[r].step \in {"check", "insert"} /\ request[r].account = a

\* No account has this IBAN (a unique index of bank_accounts).
Free(iban) == \A a \in Accounts : account[a].iban # iban

\* Not there, and not the one somebody is about to create.
New(a) ==
  ~Exists(a) /\ \A r \in Requests : request[r].create => request[r].account # a

Change == changes < MaxChanges /\ changes' = changes + 1

\* createBankAccount without isDefault.
Create(a) ==
  /\ Change
  /\ New(a)
  /\ \E iban \in Ibans :
       /\ Free(iban)
       /\ account' = [account EXCEPT
            ![a] = [iban |-> iban, active |-> TRUE, default |-> FALSE]]
       /\ held' = held \union {<<a, iban>>}
  /\ UNCHANGED <<batches, transactions, request>>

\* updateBankAccount with isActive, with isDefault = false, or with another IBAN.
Update(a) ==
  /\ Change
  /\ Exists(a) /\ ~Locked(a)
  /\ \/ account' = [account EXCEPT ![a].active = ~@] /\ UNCHANGED held
     \/ account' = [account EXCEPT ![a].default = FALSE] /\ UNCHANGED held
     \/ \E iban \in Ibans :
          /\ Free(iban) /\ ~InUse(a)
          /\ account' = [account EXCEPT ![a].iban = iban]
          /\ held' = held \union {<<a, iban>>}
  /\ UNCHANGED <<batches, transactions, request>>

\* createBankAccount or updateBankAccount with isDefault = true; an update may
\* leave the IBAN as it is (None).  Its first statement takes the mark from
\* every account it sees as it starts ...
BeginDefault(r, a, iban, create) ==
  /\ Change
  /\ At(r, "idle")
  /\ create => New(a) /\ iban # None
  /\ request' = [request EXCEPT ![r] = [Idle EXCEPT
       !.step = "clearing", !.account = a, !.iban = iban, !.create = create,
       !.seen = Existing]]
  /\ UNCHANGED <<accountVars, batches, transactions>>

\* ... and waits for another transaction that has done so.
ClearDefaults(r) ==
  /\ At(r, "clearing")
  /\ \A a \in request[r].seen : ~Locked(a)
  /\ request' = [request EXCEPT ![r].step = "cleared"]
  /\ UNCHANGED <<accountVars, changes, batches, transactions>>

\* The accounts as the transaction leaves them.
Cleared(r) == [a \in Accounts |-> [account[a] EXCEPT
                                    !.default = @ /\ a \notin request[r].seen]]

\* The IBAN the account is to have.
NextIban(r) ==
  IF request[r].iban = None THEN account[request[r].account].iban ELSE request[r].iban

\* The second statement inserts the account, or updates it, and commits; the
\* indexes allow one default and one account of an IBAN.
SetDefault(r) ==
  LET a == request[r].account IN
  /\ At(r, "cleared") /\ (request[r].create \/ Exists(a))
  /\ \A b \in Accounts \ {a} : ~Cleared(r)[b].default /\ account[b].iban # NextIban(r)
  /\ NextIban(r) # account[a].iban => ~InUse(a)
  /\ account' = [Cleared(r) EXCEPT ![a] =
       [iban |-> NextIban(r), active |-> @.active \/ request[r].create, default |-> TRUE]]
  /\ held' = held \union {<<a, NextIban(r)>>}
  /\ request' = [request EXCEPT ![r] = Idle]
  /\ UNCHANGED <<changes, batches, transactions>>

\* The index refuses a second default or IBAN, or there is no row to update.
RefuseDefault(r) ==
  LET a == request[r].account IN
  /\ At(r, "cleared")
  /\ \/ ~request[r].create /\ ~Exists(a)
     \/ \E b \in Accounts \ {a} : Cleared(r)[b].default \/ account[b].iban = NextIban(r)
  /\ Abort(r)
-----------------------------------------------------------------------------
(***************************************************************************)
(* Importing a file.                                                       *)
(***************************************************************************)
Imported(f) == \E b \in batches : b.file = f
RowsOf(f) == {Contents[f][i] : i \in DOMAIN Contents[f]}

\* The same fingerprint: that of a row, under the IBAN it is imported for.
SamePrint(iban, row, t) == t.iban = iban /\ t.row.key = row.key

\* bank_transactions_external_unique holds within an account,
\* bank_transactions_fingerprint_unique within the tenant.
Clash(t, u) ==
  /\ t.row.external = u.row.external
  /\ IF t.row.external = None THEN SamePrint(t.iban, t.row, u)
                              ELSE t.account = u.account

\* confirmBankImport begins, and previewBankStatement, on a connection of its
\* own, finds the account active, no batch of the file and rows in it; the prints
\* are made with the IBAN it reads.  What it counts is for display only.
Preview(r, f, a) ==
  /\ At(r, "idle")
  /\ account[a].active /\ ~Imported(f) /\ Contents[f] # <<>>
  /\ request' = [request EXCEPT ![r] = [Idle EXCEPT
       !.step = "batch", !.file = f, !.account = a, !.iban = account[a].iban]]
  /\ UNCHANGED <<accountVars, changes, batches, transactions>>

\* The requests whose open transaction has inserted a batch of the file.
Importing(f) ==
  {r \in Requests : request[r].file = f /\ request[r].step \in {"check", "insert"}}

\* Mutant: without the unique index on the hash of the file.
InsertBatchMutant(r) ==
  /\ At(r, "batch")
  /\ request' = [request EXCEPT ![r].step = "check", ![r].next = 1]
  /\ UNCHANGED <<accountVars, changes, batches, transactions>>

InsertBatch(r) ==
  /\ At(r, "batch")
  /\ ~Imported(request[r].file) /\ Importing(request[r].file) = {}
  /\ request' = [request EXCEPT ![r].step = "check", ![r].next = 1]
  /\ UNCHANGED <<accountVars, changes, batches, transactions>>

\* Another request has imported the file since the preview.
RefuseBatch(r) ==
  /\ At(r, "batch") /\ Imported(request[r].file)
  /\ Abort(r)

\* The row the import is at, and whether there is still one.
More(r) == request[r].next <= Len(Contents[request[r].file])
Current(r) ==
  [account |-> request[r].account, iban |-> request[r].iban, file |-> request[r].file,
   row |-> Contents[request[r].file][request[r].next]]

\* The SELECT by fingerprint sees what is committed, for whatever account, and
\* its own rows.
CheckRow(r) ==
  LET exists == \E t \in transactions \union request[r].inserted :
                  SamePrint(request[r].iban, Current(r).row, t)
  IN
  /\ At(r, "check") /\ More(r)
  /\ request' = IF exists THEN [request EXCEPT ![r].next = @ + 1]
                          ELSE [request EXCEPT ![r].step = "insert"]
  /\ UNCHANGED <<accountVars, changes, batches, transactions>>

\* The requests whose uncommitted row the insert of a request runs into.
Blockers(r) ==
  CASE At(r, "batch") -> Importing(request[r].file)
    [] At(r, "insert") -> {o \in Requests \ {r} :
                            \E t \in request[o].inserted : Clash(t, Current(r))}
    [] OTHER -> {}

\* Rows the unique indexes hold against the insert for good.
Taken(r) == \E t \in transactions \union request[r].inserted : Clash(t, Current(r))

\* Mutant: INSERT ... ON CONFLICT DO NOTHING that does not wait.
InsertRowMutant(r) ==
  /\ At(r, "insert") /\ ~Taken(r)
  /\ request' = [request EXCEPT
       ![r].step = "check", ![r].next = @ + 1,
       ![r].inserted = IF Blockers(r) = {} THEN @ \union {Current(r)} ELSE @]
  /\ UNCHANGED <<accountVars, changes, batches, transactions>>

InsertRow(r) ==
  /\ At(r, "insert") /\ ~Taken(r) /\ Blockers(r) = {}
  /\ request' = [request EXCEPT
       ![r].step = "check", ![r].next = @ + 1,
       ![r].inserted = @ \union {Current(r)}]
  /\ UNCHANGED <<accountVars, changes, batches, transactions>>

\* A unique violation: the whole import is rolled back.
RefuseRow(r) ==
  /\ At(r, "insert") /\ Taken(r)
  /\ Abort(r)

\* The counts of the batch are written and the transaction commits.
Commit(r) ==
  /\ At(r, "check") /\ ~More(r)
  /\ batches' = batches \union {[file |-> request[r].file,
                                 account |-> request[r].account,
                                 iban |-> request[r].iban,
                                 imported |-> Cardinality(request[r].inserted)]}
  /\ transactions' = transactions \union request[r].inserted
  /\ request' = [request EXCEPT ![r] = Idle]
  /\ UNCHANGED <<accountVars, changes>>

\* PostgreSQL ends a transaction that waits in a circle.
DeadlockAbort(r) ==
  LET waits == [p \in Requests \X Requests |-> p[2] \in Blockers(p[1])]
  IN  TransitiveClosure(waits, Requests)[r, r] /\ Abort(r)

\* The connection is lost or a statement fails.
Fail(r) == ~At(r, "idle") /\ Abort(r)
-----------------------------------------------------------------------------
Step(r) ==
  \/ ClearDefaults(r) \/ SetDefault(r) \/ RefuseDefault(r)
  \/ InsertBatch(r) \/ RefuseBatch(r)
  \/ CheckRow(r) \/ InsertRow(r) \/ RefuseRow(r) \/ Commit(r)
  \/ DeadlockAbort(r)

Next ==
  \/ \E a \in Accounts : Create(a) \/ Update(a)
  \/ \E r \in Requests, a \in Accounts, create \in BOOLEAN :
       \E iban \in Ibans \union {None} : BeginDefault(r, a, iban, create)
  \/ \E r \in Requests, f \in Files, a \in Accounts : Preview(r, f, a)
  \/ \E r \in Requests : Step(r) \/ Fail(r)

Spec == Init /\ [][Next]_vars

\* A transaction that can go on does, and one that waits is woken whenever the
\* other one ends: it is not passed over for ever.  PostgreSQL looks for circles
\* after deadlock_timeout.  Nothing makes connections fail or users ask.
FairSpec == Spec /\ \A r \in Requests : SF_vars(Step(r))
-----------------------------------------------------------------------------
(***************************************************************************)
(* However imports overlap, a file is imported once, and a row that two    *)
(* files have in common makes one bank transaction: of an account, if the  *)
(* bank has given it an identifier, and of an IBAN, if not (the checks by  *)
(* file hash and fingerprint run before the writes they protect; the       *)
(* unique indexes have the last word).  An account whose IBAN was changed  *)
(* between two imports may have such a row twice.                          *)
(***************************************************************************)
ImportedOnce ==
  /\ \A b, c \in batches : b.file = c.file => b = c
  /\ \A t, u \in transactions :
       /\ t.row = u.row
       /\ IF t.row.external = None THEN t.iban = u.iban ELSE t.account = u.account
       => t = u

(***************************************************************************)
(* Every row of an imported file is among the bank transactions of its     *)
(* account, imported with this file or with another one: a row is never    *)
(* left out for one that a rolled back import had inserted.  It may be     *)
(* left out for one of another account only if both have had that IBAN.    *)
(***************************************************************************)
Shared(iban) ==
  \E a, c \in Accounts : a # c /\ <<a, iban>> \in held /\ <<c, iban>> \in held

NothingLost ==
  \A b \in batches : \A row \in RowsOf(b.file) :
    \E t \in transactions :
      /\ SamePrint(b.iban, row, t)
      /\ t.account = b.account \/ Shared(b.iban)

(***************************************************************************)
(* Every import and every change of the default ends, although files that  *)
(* list common rows in another order make imports wait in a circle.        *)
(***************************************************************************)
EveryImportEnds == \A r \in Requests : ~At(r, "idle") ~> At(r, "idle")
=============================================================================
