-------------------------- MODULE BankImportProofs --------------------------
(***************************************************************************)
(* Proofs about BankImport, for any number of requests, accounts, files    *)
(* and rows.                                                               *)
(***************************************************************************)
EXTENDS BankImport, FiniteSetTheorems, TLAPS

Writing == {"check", "insert"}

Importers == {"batch"} \union Writing

BankTransaction == [account : Accounts, iban : Ibans, file : Files, row : Rows]

Batch == [file : Files, account : Accounts, iban : Ibans, imported : Nat]

BankAccount ==
  {row \in [iban : Ibans \union {None}, active : BOOLEAN, default : BOOLEAN] :
     row.active => row.iban # None}

Request ==
  [step : {"idle", "clearing", "cleared", "batch"} \union Writing,
   account : Accounts \union {None}, iban : Ibans \union {None}, create : BOOLEAN,
   seen : SUBSET Accounts, file : Files \union {None}, next : Nat,
   inserted : SUBSET BankTransaction]

TypeInv ==
  /\ account \in [Accounts -> BankAccount]
  /\ batches \subseteq Batch
  /\ transactions \subseteq BankTransaction
  /\ request \in [Requests -> Request]
  /\ \A r \in Requests :
       /\ IsFiniteSet(request[r].inserted)
       /\ request[r].step \in {"clearing", "cleared"} =>
            request[r].account \in Accounts /\ (request[r].create => request[r].iban # None)
       /\ request[r].step \in Importers =>
            /\ request[r].file \in Files /\ request[r].account \in Accounts
            /\ request[r].iban \in Ibans
       /\ request[r].step \in Writing => request[r].next \in Nat \ {0}
       /\ request[r].step = "insert" => More(r)

\* Whatever is committed or inserted and not committed yet: the indexes see
\* both, the one for good, the other until it rolls back.
Inserted == transactions \union UNION {request[r].inserted : r \in Requests}

NoClash == \A t, u \in Inserted : Clash(t, u) => t = u

OneBatch == \A b, c \in batches : b.file = c.file => b = c

\* The batch of a file under way keeps others from importing it.
Sole ==
  \A r \in Requests : request[r].step \in Writing =>
    /\ ~Imported(request[r].file)
    /\ Importing(request[r].file) = {r}

\* An import has left no row behind on the way to where it is.
Covered ==
  \A r \in Requests : request[r].step \in Writing =>
    \A i \in DOMAIN Contents[request[r].file] : i < request[r].next =>
      \E t \in transactions \union request[r].inserted :
        SamePrint(request[r].iban, Contents[request[r].file][i], t)

\* So did the imports that are committed.
Passed ==
  \A b \in batches : \A row \in RowsOf(b.file) :
    \E t \in transactions : SamePrint(b.iban, row, t)

\* Nothing refers to an account under an IBAN it has never had.
Known ==
  /\ \A a \in Accounts : Exists(a) => <<a, account[a].iban>> \in held
  /\ \A r \in Requests : request[r].step \in Importers =>
       <<request[r].account, request[r].iban>> \in held
  /\ \A t \in Inserted : <<t.account, t.iban>> \in held
  /\ \A b \in batches : <<b.account, b.iban>> \in held

Kept == NoClash /\ OneBatch /\ Sole /\ Covered /\ Passed

ImportInv == TypeInv /\ Kept /\ Known
-----------------------------------------------------------------------------
(***************************************************************************)
(* Types.                                                                  *)
(***************************************************************************)

LEMMA IdleType == Idle \in Request /\ IsFiniteSet(Idle.inserted)
BY FS_EmptySet DEF Idle, Request

LEMMA CurrentType ==
  ASSUME TypeInv, NEW r \in Requests, request[r].step \in Writing, More(r)
  PROVE  Current(r) \in BankTransaction
<1>1. /\ request[r].file \in Files /\ request[r].next \in Nat \ {0}
      /\ request[r].account \in Accounts /\ request[r].iban \in Ibans
  BY DEF TypeInv, Importers
<1>2. Contents[request[r].file] \in Seq(Rows)
  BY <1>1, ImportAssumption
<1>3. Contents[request[r].file][request[r].next] \in Rows
  BY <1>1, <1>2 DEF More
<1>. QED
  BY <1>1, <1>3 DEF Current, BankTransaction

\* The account a change of the default leaves behind.
LEMMA SetDefaultType ==
  ASSUME TypeInv, NEW r \in Requests, SetDefault(r)
  PROVE  /\ account' \in [Accounts -> BankAccount]
         /\ \A a \in Accounts : account'[a].iban # account[a].iban =>
              a = request[r].account /\ account'[a].iban = NextIban(r)
<1> DEFINE a == request[r].account
           old == Cleared(r)
           iban == NextIban(r)
           new == [iban |-> iban, active |-> old[a].active \/ request[r].create,
                   default |-> TRUE]
<1>1. /\ a \in Accounts /\ request[r].create \in BOOLEAN
      /\ request[r].create => request[r].iban # None
      /\ request[r].iban \in Ibans \union {None}
  BY DEF TypeInv, Request, SetDefault, At
<1>2. /\ old \in [Accounts -> BankAccount]
      /\ \A b \in Accounts : old[b].iban = account[b].iban
  BY DEF TypeInv, Cleared, BankAccount
<1>3. account' = [old EXCEPT ![a] = new]
  BY DEF SetDefault
<1>4. iban \in Ibans
  BY <1>1, ImportAssumption DEF NextIban, SetDefault, Exists, TypeInv, BankAccount
<1>. HIDE DEF old, iban
<1>5. new \in BankAccount
  <2>1. old[a].active \in BOOLEAN
    BY <1>1, <1>2 DEF BankAccount
  <2>2. iban # None
    BY <1>4, ImportAssumption
  <2>. QED
    BY <1>1, <1>4, <2>1, <2>2 DEF BankAccount
<1>6. new.iban = iban
  OBVIOUS
<1>. HIDE DEF new
<1>7. account' \in [Accounts -> BankAccount]
  BY <1>2, <1>3, <1>5
<1>8. \A b \in Accounts : b # a => account'[b].iban = account[b].iban
  BY <1>2, <1>3
<1>9. account'[a].iban = iban
  BY <1>1, <1>2, <1>3, <1>6
<1>. QED
  BY <1>7, <1>8, <1>9 DEF iban

\* What creating or updating an account does to it.
LEMMA AccountChange ==
  ASSUME TypeInv, NEW a \in Accounts, Create(a) \/ Update(a)
  PROVE  \E row \in BankAccount :
           /\ account' = [account EXCEPT ![a] = row]
           /\ account' \in [Accounts -> BankAccount]
           /\ held \subseteq held'
           /\ row.iban # None /\ (row.iban # account[a].iban => <<a, row.iban>> \in held')
<1>1. account[a] \in BankAccount
  BY DEF TypeInv
<1>0. \A row \in BankAccount : [account EXCEPT ![a] = row] \in [Accounts -> BankAccount]
  BY DEF TypeInv
<1>2. CASE Create(a)
  <2>1. PICK iban \in Ibans :
          /\ account' = [account EXCEPT
               ![a] = [iban |-> iban, active |-> TRUE, default |-> FALSE]]
          /\ held' = held \union {<<a, iban>>}
    BY <1>2 DEF Create
  <2>2. [iban |-> iban, active |-> TRUE, default |-> FALSE] \in BankAccount
    BY ImportAssumption DEF BankAccount
  <2>. QED
    BY <2>1, <2>2, ImportAssumption DEF TypeInv
<1>3. CASE Update(a)
  <2>1. Exists(a)
    BY <1>3 DEF Update
  <2>2. CASE account' = [account EXCEPT ![a].active = ~@] /\ UNCHANGED held
    <3>. DEFINE row == [account[a] EXCEPT !.active = ~@]
    <3>1. row \in BankAccount /\ row.iban = account[a].iban
      BY <1>1, <2>1 DEF BankAccount, Exists
    <3>2. account' = [account EXCEPT ![a] = row]
      BY <2>2
    <3>. HIDE DEF row
    <3>. QED
      BY <1>0, <2>1, <2>2, <3>1, <3>2 DEF Exists
  <2>3. CASE account' = [account EXCEPT ![a].default = FALSE] /\ UNCHANGED held
    <3>. DEFINE row == [account[a] EXCEPT !.default = FALSE]
    <3>1. row \in BankAccount /\ row.iban = account[a].iban
      BY <1>1, <2>1 DEF BankAccount, Exists
    <3>2. account' = [account EXCEPT ![a] = row]
      BY <2>3
    <3>. HIDE DEF row
    <3>. QED
      BY <1>0, <2>1, <2>3, <3>1, <3>2 DEF Exists
  <2>4. ASSUME NEW iban \in Ibans,
               account' = [account EXCEPT ![a].iban = iban],
               held' = held \union {<<a, iban>>}
        PROVE  \E row \in BankAccount :
                 /\ account' = [account EXCEPT ![a] = row]
                 /\ account' \in [Accounts -> BankAccount]
                 /\ held \subseteq held'
                 /\ row.iban # None
                 /\ row.iban # account[a].iban => <<a, row.iban>> \in held'
    <3>. DEFINE row == [account[a] EXCEPT !.iban = iban]
    <3>1. row \in BankAccount /\ row.iban = iban /\ iban # None
      BY <1>1, ImportAssumption DEF BankAccount
    <3>2. account' = [account EXCEPT ![a] = row]
      BY <2>4
    <3>. HIDE DEF row
    <3>. QED
      BY <2>4, <3>1, <3>2 DEF TypeInv
  <2>. QED
    BY <1>3, <2>2, <2>3, <2>4 DEF Update
<1>. QED
  BY <1>2, <1>3

LEMMA TypeStep ==
  ASSUME TypeInv, [Next]_vars
  PROVE  TypeInv'
<1>a. \A r \in Requests : request[r] \in Request
  BY DEF TypeInv
<1>b. ASSUME NEW r \in Requests, Abort(r)
      PROVE  TypeInv'
  BY <1>b, IdleType DEF Abort, accountVars, TypeInv, Idle, Importers, Writing, More
<1>c. ASSUME NEW r \in Requests, NEW new \in Request,
             request' = [request EXCEPT ![r] = new],
             UNCHANGED <<account, batches, transactions>>,
             IsFiniteSet(new.inserted),
             new.step \in {"clearing", "cleared"} =>
               new.account \in Accounts /\ (new.create => new.iban # None),
             new.step \in Importers =>
               new.file \in Files /\ new.account \in Accounts /\ new.iban \in Ibans,
             new.step \in Writing => new.next \in Nat \ {0},
             new.step = "insert" => new.next <= Len(Contents[new.file])
      PROVE  TypeInv'
  BY <1>c DEF TypeInv, More, Importers
<1>1. ASSUME NEW a \in Accounts, Create(a) \/ Update(a)
      PROVE  TypeInv'
  <2>1. account' \in [Accounts -> BankAccount]
    BY <1>1, AccountChange
  <2>2. UNCHANGED <<batches, transactions, request>>
    BY <1>1 DEF Create, Update
  <2>. QED
    BY <2>1, <2>2 DEF TypeInv, More
<1>2. ASSUME NEW r \in Requests, NEW a \in Accounts, NEW create \in BOOLEAN,
             NEW iban \in Ibans \union {None}, BeginDefault(r, a, iban, create)
      PROVE  TypeInv'
  <2>. DEFINE new == [Idle EXCEPT !.step = "clearing", !.account = a, !.iban = iban,
                                  !.create = create, !.seen = Existing]
  <2>1. /\ new \in Request /\ new.step = "clearing" /\ new.account = a
        /\ new.create = create /\ new.iban = iban /\ new.inserted = {}
    BY DEF Idle, Request, Existing
  <2>2. /\ request' = [request EXCEPT ![r] = new]
        /\ UNCHANGED <<account, batches, transactions>> /\ (create => iban # None)
    BY <1>2 DEF BeginDefault, accountVars
  <2>. HIDE DEF new
  <2>. QED
    BY <1>c, <2>1, <2>2, FS_EmptySet DEF Writing, Importers
<1>3. ASSUME NEW r \in Requests, NEW f \in Files, NEW a \in Accounts, Preview(r, f, a)
      PROVE  TypeInv'
  <2>. DEFINE new == [Idle EXCEPT !.step = "batch", !.file = f, !.account = a,
                                  !.iban = account[a].iban]
  <2>0. account[a].iban \in Ibans
    BY <1>3, ImportAssumption DEF TypeInv, Preview, BankAccount
  <2>1. /\ new \in Request /\ new.step = "batch" /\ new.file = f /\ new.account = a
        /\ new.iban \in Ibans /\ new.inserted = {}
    BY <2>0 DEF Idle, Request
  <2>2. request' = [request EXCEPT ![r] = new] /\ UNCHANGED <<account, batches, transactions>>
    BY <1>3 DEF Preview, accountVars
  <2>. HIDE DEF new
  <2>. QED
    BY <1>c, <2>1, <2>2, FS_EmptySet DEF Writing, Importers
<1>4. ASSUME NEW r \in Requests, ClearDefaults(r)
      PROVE  TypeInv'
  <2>. DEFINE new == [request[r] EXCEPT !.step = "cleared"]
  <2>1. /\ new \in Request /\ new.step = "cleared"
        /\ new.account = request[r].account /\ new.inserted = request[r].inserted
        /\ new.create = request[r].create /\ new.iban = request[r].iban
    BY <1>a DEF Request
  <2>2. /\ request[r].account \in Accounts /\ IsFiniteSet(request[r].inserted)
        /\ request[r].create => request[r].iban # None
        /\ request' = [request EXCEPT ![r] = new] /\ UNCHANGED <<account, batches, transactions>>
    BY <1>4 DEF ClearDefaults, accountVars, TypeInv, At
  <2>. HIDE DEF new
  <2>. QED
    BY <1>c, <2>1, <2>2 DEF Writing, Importers
<1>5. ASSUME NEW r \in Requests, SetDefault(r)
      PROVE  TypeInv'
  <2>1. request' = [request EXCEPT ![r] = Idle] /\ UNCHANGED <<batches, transactions>>
    BY <1>5 DEF SetDefault
  <2>. QED
    BY <1>5, <2>1, SetDefaultType, IdleType DEF TypeInv, Idle, Importers, Writing, More
<1>6. ASSUME NEW r \in Requests, InsertBatch(r)
      PROVE  TypeInv'
  <2>. DEFINE new == [request[r] EXCEPT !.step = "check", !.next = 1]
  <2>0. request[r] \in Request /\ 1 \in Nat \ {0}
    BY <1>a
  <2>1. /\ new \in Request /\ new.step = "check" /\ new.next = 1
        /\ new.file = request[r].file /\ new.account = request[r].account
        /\ new.iban = request[r].iban /\ new.inserted = request[r].inserted
    BY <2>0 DEF Request, Writing
  <2>2. /\ request[r].file \in Files /\ request[r].account \in Accounts
        /\ request[r].iban \in Ibans /\ IsFiniteSet(request[r].inserted)
        /\ request' = [request EXCEPT ![r] = new] /\ UNCHANGED <<account, batches, transactions>>
    BY <1>6 DEF InsertBatch, accountVars, TypeInv, At, Importers
  <2>. HIDE DEF new
  <2>3. new.next \in Nat \ {0}
    BY <2>0, <2>1
  <2>. QED
    BY <1>c, <2>1, <2>2, <2>3
<1>7. ASSUME NEW r \in Requests, CheckRow(r)
      PROVE  TypeInv'
  <2>1. /\ request[r].file \in Files /\ request[r].account \in Accounts
        /\ request[r].iban \in Ibans /\ IsFiniteSet(request[r].inserted)
        /\ request[r].next \in Nat \ {0} /\ More(r)
        /\ UNCHANGED <<account, batches, transactions>>
    BY <1>7 DEF CheckRow, accountVars, TypeInv, At, Importers, Writing
  <2>2. CASE request' = [request EXCEPT ![r].next = @ + 1]
    <3>. DEFINE new == [request[r] EXCEPT !.next = @ + 1]
    <3>1. /\ new \in Request /\ new.step = "check" /\ new.next \in Nat \ {0}
          /\ new.file = request[r].file /\ new.account = request[r].account
          /\ new.iban = request[r].iban /\ new.inserted = request[r].inserted
      BY <1>7, <1>a, <2>1 DEF CheckRow, At, Request
    <3>2. request' = [request EXCEPT ![r] = new]
      BY <2>2
    <3>. HIDE DEF new
    <3>. QED
      BY <1>c, <2>1, <3>1, <3>2
  <2>3. CASE request' = [request EXCEPT ![r].step = "insert"]
    <3>. DEFINE new == [request[r] EXCEPT !.step = "insert"]
    <3>1. /\ new \in Request /\ new.step = "insert" /\ new.next = request[r].next
          /\ new.file = request[r].file /\ new.account = request[r].account
          /\ new.iban = request[r].iban /\ new.inserted = request[r].inserted
      BY <1>a DEF Request, Writing
    <3>2. request' = [request EXCEPT ![r] = new]
      BY <2>3
    <3>. HIDE DEF new
    <3>. QED
      BY <1>c, <2>1, <3>1, <3>2 DEF More
  <2>. QED
    BY <1>7, <2>2, <2>3 DEF CheckRow
<1>8. ASSUME NEW r \in Requests, InsertRow(r)
      PROVE  TypeInv'
  <2>1. /\ request[r].file \in Files /\ request[r].account \in Accounts
        /\ request[r].iban \in Ibans /\ IsFiniteSet(request[r].inserted)
        /\ request[r].next \in Nat \ {0} /\ Current(r) \in BankTransaction
        /\ UNCHANGED <<account, batches, transactions>>
    BY <1>8, CurrentType DEF InsertRow, accountVars, TypeInv, At, Importers, Writing
  <2>. DEFINE new == [request[r] EXCEPT !.step = "check", !.next = @ + 1,
                                        !.inserted = @ \union {Current(r)}]
  <2>. DEFINE more == request[r].inserted \union {Current(r)}
              n == request[r].next + 1
  <2>0. request[r] \in Request /\ more \subseteq BankTransaction /\ n \in Nat \ {0}
    BY <1>a, <2>1 DEF Request
  <2>2. /\ new \in Request /\ new.step = "check" /\ new.next \in Nat \ {0}
        /\ new.file = request[r].file /\ new.account = request[r].account
        /\ new.iban = request[r].iban /\ new.inserted = more
    <3>1. new = [request[r] EXCEPT !.step = "check", !.next = n, !.inserted = more]
      OBVIOUS
    <3>. HIDE DEF more, n
    <3>2. "check" \in {"idle", "clearing", "cleared", "batch"} \union Writing
      BY DEF Writing
    <3>. HIDE DEF new
    <3>. QED
      BY <2>0, <3>1, <3>2 DEF Request
  <2>3. request' = [request EXCEPT ![r] = new]
    BY <1>8 DEF InsertRow
  <2>4. IsFiniteSet(request[r].inserted \union {Current(r)})
    BY <2>1, FS_AddElement
  <2>. HIDE DEF new
  <2>. QED
    BY <1>c, <2>1, <2>2, <2>3, <2>4
<1>9. ASSUME NEW r \in Requests, Commit(r)
      PROVE  TypeInv'
  <2>1. /\ request[r].file \in Files /\ request[r].account \in Accounts
        /\ request[r].iban \in Ibans /\ IsFiniteSet(request[r].inserted)
        /\ request[r].inserted \subseteq BankTransaction
    BY <1>9, <1>a DEF Commit, TypeInv, At, Importers, Writing, Request
  <2>2. Cardinality(request[r].inserted) \in Nat
    BY <2>1, FS_CardinalityType
  <2>3. /\ batches' = batches \union {[file |-> request[r].file,
                                       account |-> request[r].account,
                                       iban |-> request[r].iban,
                                       imported |-> Cardinality(request[r].inserted)]}
        /\ transactions' = transactions \union request[r].inserted
        /\ request' = [request EXCEPT ![r] = Idle]
        /\ UNCHANGED account
    BY <1>9, Zenon DEF Commit, accountVars
  <2>4. batches' \subseteq Batch
    BY <2>1, <2>2, <2>3 DEF TypeInv, Batch
  <2>5. transactions' \subseteq BankTransaction
    BY <2>1, <2>3 DEF TypeInv
  <2>. QED
    BY <2>3, <2>4, <2>5, IdleType DEF TypeInv, Idle, Importers, Writing, More
<1>10. CASE UNCHANGED vars
  BY <1>10 DEF vars, accountVars, TypeInv, More
<1>. QED
  BY <1>b, <1>1, <1>2, <1>3, <1>4, <1>5, <1>6, <1>7, <1>8, <1>9, <1>10
  DEF Next, Step, RefuseDefault, RefuseBatch, RefuseRow, DeadlockAbort, Fail
-----------------------------------------------------------------------------
(***************************************************************************)
(* What is inserted, committed or not.                                     *)
(***************************************************************************)
\* A step that writes nothing: the request is not, or no longer, in an import.
LEMMA AwayKeeps ==
  ASSUME Kept, TypeInv, NEW r \in Requests, NEW new,
         request' = [request EXCEPT ![r] = new],
         new.step \notin Writing, new.inserted \subseteq request[r].inserted,
         UNCHANGED <<batches, transactions>>
  PROVE  Kept'
<1>0. /\ request'[r] = new
      /\ \A q \in Requests \ {r} : request'[q] = request[q]
  BY DEF TypeInv
<1>1. NoClash'
  <2>1. Inserted' \subseteq Inserted
    BY <1>0 DEF Inserted
  <2>. QED
    BY <2>1 DEF Kept, NoClash, Clash, SamePrint
<1>2. OneBatch' /\ Passed'
  BY DEF Kept, OneBatch, Passed, RowsOf, SamePrint
<1>3. Sole'
  <2>1. ASSUME NEW q \in Requests, request'[q].step \in Writing
        PROVE  /\ ~Imported(request[q].file)' /\ request'[q] = request[q]
               /\ Importing(request[q].file)' = {q}
    <3>1. q # r /\ request'[q] = request[q]
      BY <1>0, <2>1
    <3>2. ~Imported(request[q].file) /\ Importing(request[q].file) = {q}
      BY <2>1, <3>1 DEF Kept, Sole
    <3>3. Importing(request[q].file)' \subseteq Importing(request[q].file)
      BY <1>0, <3>1 DEF Importing, Writing
    <3>4. q \in Importing(request[q].file)'
      BY <2>1, <3>1 DEF Importing, Writing
    <3>. QED
      BY <3>1, <3>2, <3>3, <3>4 DEF Imported
  <2>. QED
    BY <2>1 DEF Sole
<1>4. Covered'
  BY <1>0 DEF Kept, Covered, SamePrint
<1>. QED
  BY <1>1, <1>2, <1>3, <1>4 DEF Kept

\* A step within an import that keeps its file and batch.
LEMMA SoleKept ==
  ASSUME Kept, TypeInv, NEW r \in Requests, NEW new,
         request' = [request EXCEPT ![r] = new],
         request[r].step \in Writing, new.step \in Writing,
         new.file = request[r].file, UNCHANGED batches
  PROVE  Sole'
<1>1. request'[r] = new /\ \A q \in Requests \ {r} : request'[q] = request[q]
  BY DEF TypeInv
<1>2. \A f : Importing(f)' = Importing(f)
  BY <1>1 DEF Importing, Writing
<1>3. \A f : Imported(f)' = Imported(f)
  BY DEF Imported
<1>. QED
  BY <1>1, <1>2, <1>3 DEF Kept, Sole

LEMMA InsertBatchKeeps ==
  ASSUME Kept, TypeInv, NEW r \in Requests, InsertBatch(r)
  PROVE  Kept'
<1>1. /\ request[r].step = "batch" /\ UNCHANGED <<batches, transactions>>
      /\ ~Imported(request[r].file) /\ Importing(request[r].file) = {}
  BY DEF InsertBatch, At
<1>2. /\ request'[r].step = "check" /\ request'[r].next = 1
      /\ request'[r].file = request[r].file /\ request'[r].iban = request[r].iban
      /\ request'[r].inserted = request[r].inserted
      /\ \A q \in Requests \ {r} : request'[q] = request[q]
  BY DEF InsertBatch, TypeInv, Request
<1>3. NoClash'
  <2>1. Inserted' = Inserted
    BY <1>1, <1>2 DEF Inserted
  <2>. QED
    BY <2>1 DEF Kept, NoClash, Clash, SamePrint
<1>4. OneBatch' /\ Passed'
  BY <1>1 DEF Kept, OneBatch, Passed, RowsOf, SamePrint
<1>5. Sole'
  <2>1. \A f : Imported(f)' = Imported(f)
    BY <1>1 DEF Imported
  <2>2. Importing(request[r].file)' = {r}
    BY <1>1, <1>2 DEF Importing
  <2>3. \A q \in Requests \ {r} : request[q].step \in Writing =>
          Importing(request[q].file)' = {q} /\ ~Imported(request[q].file)
    <3>1. ASSUME NEW q \in Requests \ {r}, request[q].step \in Writing
          PROVE  Importing(request[q].file)' = {q} /\ ~Imported(request[q].file)
      <4>1. Importing(request[q].file) = {q} /\ ~Imported(request[q].file)
        BY <3>1 DEF Kept, Sole
      <4>2. request[q].file # request[r].file
        BY <1>1, <4>1
      <4>. QED
        BY <1>1, <1>2, <4>1, <4>2 DEF Importing
    <3>. QED
      BY <3>1
  <2>. QED
    BY <1>1, <1>2, <2>1, <2>2, <2>3 DEF Sole
<1>6. Covered'
  <2>1. \A i \in DOMAIN Contents[request[r].file] : ~(i < 1)
    <3>1. Contents[request[r].file] \in Seq(Rows)
      BY <1>1, ImportAssumption DEF TypeInv, Importers
    <3>. QED
      BY <3>1
  <2>. QED
    BY <1>1, <1>2, <2>1 DEF Kept, Covered, SamePrint
<1>. QED
  BY <1>3, <1>4, <1>5, <1>6 DEF Kept

LEMMA CheckRowKeeps ==
  ASSUME Kept, TypeInv, NEW r \in Requests, CheckRow(r)
  PROVE  Kept'
<1> DEFINE f == request[r].file
<1>1. /\ request[r].step = "check" /\ More(r)
      /\ UNCHANGED <<batches, transactions>>
  BY DEF CheckRow, At
<1>2. request[r].next \in Nat
  BY DEF TypeInv, Request
<1>3. /\ request'[r].step \in Writing
      /\ request'[r].file = f /\ request'[r].iban = request[r].iban
      /\ request'[r].inserted = request[r].inserted
      /\ \A q \in Requests \ {r} : request'[q] = request[q]
      /\ \/ request'[r].next = request[r].next
         \/ /\ request'[r].next = request[r].next + 1
            /\ \E t \in transactions \union request[r].inserted :
                 SamePrint(request[r].iban, Current(r).row, t)
  BY <1>1 DEF CheckRow, TypeInv, Request, Writing
<1>4. NoClash'
  <2>1. Inserted' = Inserted
    BY <1>1, <1>3 DEF Inserted
  <2>. QED
    BY <2>1 DEF Kept, NoClash, Clash, SamePrint
<1>5. OneBatch' /\ Passed'
  BY <1>1 DEF Kept, OneBatch, Passed, RowsOf, SamePrint
<1>6. Sole'
  <2>1. request' = [request EXCEPT ![r] = request'[r]]
    BY <1>3 DEF CheckRow, TypeInv
  <2>. QED
    BY <1>1, <1>3, <2>1, SoleKept DEF Writing
<1>7. Covered'
  <2>1. Current(r).row = Contents[f][request[r].next]
    BY DEF Current
  <2>2. ASSUME NEW i \in DOMAIN Contents[f], i < request'[r].next
        PROVE  \E t \in transactions \union request[r].inserted :
                 SamePrint(request[r].iban, Contents[f][i], t)
    <3>1. CASE i < request[r].next
      BY <1>1, <3>1 DEF Kept, Covered, Writing
    <3>2. CASE ~(i < request[r].next)
      <4>1. i \in Nat
        BY <1>1, ImportAssumption DEF TypeInv, Importers, Writing
      <4>2. i = request[r].next
        BY <1>2, <1>3, <2>2, <3>2, <4>1
      <4>. QED
        BY <1>2, <1>3, <2>1, <2>2, <4>2, <3>2
    <3>. QED
      BY <3>1, <3>2
  <2>3. \A q \in Requests \ {r} : request'[q] = request[q]
    BY <1>3
  <2>. QED
    BY <1>1, <1>3, <2>2, <2>3 DEF Kept, Covered, SamePrint
<1>. QED
  BY <1>4, <1>5, <1>6, <1>7 DEF Kept

LEMMA InsertRowKeeps ==
  ASSUME Kept, TypeInv, NEW r \in Requests, InsertRow(r)
  PROVE  Kept'
<1> DEFINE f == request[r].file
           c == Current(r)
<1>1. /\ request[r].step = "insert" /\ UNCHANGED <<batches, transactions>>
      /\ ~Taken(r) /\ Blockers(r) = {}
  BY DEF InsertRow, At
<1>2. request[r].next \in Nat
  BY DEF TypeInv, Request
<1>3. /\ request'[r].step = "check" /\ request'[r].next = request[r].next + 1
      /\ request'[r].file = f /\ request'[r].iban = request[r].iban
      /\ request'[r].inserted = request[r].inserted \union {c}
      /\ \A q \in Requests \ {r} : request'[q] = request[q]
  BY DEF InsertRow, TypeInv, Request
<1>4. NoClash'
  <2>1. Inserted' = Inserted \union {c}
    BY <1>1, <1>3 DEF Inserted
  <2>2. \A t \in transactions \union request[r].inserted : ~Clash(t, c)
    BY <1>1 DEF Taken
  <2>3. ASSUME NEW q \in Requests \ {r}, NEW t \in request[q].inserted
        PROVE  ~Clash(t, c)
    <3>1. Blockers(r) = {o \in Requests \ {r} :
                           \E u \in request[o].inserted : Clash(u, c)}
      BY <1>1 DEF Blockers, At
    <3>. QED
      BY <1>1, <2>3, <3>1
  <2>4. \A t \in Inserted : ~Clash(t, c)
    BY <2>2, <2>3 DEF Inserted
  <2>5. \A t \in Inserted : ~Clash(c, t)
    BY <2>4 DEF Clash, SamePrint
  <2>. HIDE DEF c
  <2>6. \A t, u \in Inserted' : Clash(t, u) => t = u
    BY <2>1, <2>4, <2>5 DEF Kept, NoClash
  <2>. QED
    BY <2>6 DEF NoClash, Clash, SamePrint
<1>5. OneBatch' /\ Passed'
  BY <1>1 DEF Kept, OneBatch, Passed, RowsOf, SamePrint
<1>6. Sole'
  <2>1. request' = [request EXCEPT ![r] = request'[r]]
    BY <1>3 DEF InsertRow, TypeInv
  <2>. QED
    BY <1>1, <1>3, <2>1, SoleKept DEF Writing
<1>7. Covered'
  <2>1. c.row = Contents[f][request[r].next] /\ c.iban = request[r].iban
    BY DEF Current
  <2>2. ASSUME NEW i \in DOMAIN Contents[f], i < request[r].next + 1
        PROVE  \E t \in transactions \union request'[r].inserted :
                 SamePrint(request[r].iban, Contents[f][i], t)
    <3>1. CASE i < request[r].next
      BY <1>1, <1>3, <3>1 DEF Kept, Covered, Writing
    <3>2. CASE ~(i < request[r].next)
      <4>1. i \in Nat
        BY <1>1, ImportAssumption DEF TypeInv, Importers, Writing
      <4>2. i = request[r].next
        BY <1>2, <2>2, <3>2, <4>1
      <4>3. SamePrint(request[r].iban, Contents[f][i], c)
        BY <2>1, <4>2 DEF SamePrint
      <4>. QED
        BY <1>3, <4>3
    <3>. QED
      BY <3>1, <3>2
  <2>. QED
    BY <1>1, <1>3, <2>2 DEF Kept, Covered, SamePrint
<1>. QED
  BY <1>4, <1>5, <1>6, <1>7 DEF Kept

LEMMA CommitKeeps ==
  ASSUME Kept, TypeInv, NEW r \in Requests, Commit(r)
  PROVE  Kept'
<1> DEFINE f == request[r].file
           b == [file |-> f, account |-> request[r].account, iban |-> request[r].iban,
                 imported |-> Cardinality(request[r].inserted)]
<1>1. request[r].step = "check" /\ ~More(r)
  BY DEF Commit, At
<1>2. batches' = batches \union {b}
  BY Zenon DEF Commit
<1>3. transactions' = transactions \union request[r].inserted
  BY DEF Commit
<1>4. request'[r] = Idle /\ \A q \in Requests \ {r} : request'[q] = request[q]
  BY DEF Commit, TypeInv
<1>5. Idle.step = "idle" /\ Idle.inserted = {}
  BY DEF Idle
<1>6. b.file = f /\ b.iban = request[r].iban
  OBVIOUS
<1>7. ~Imported(f) /\ Importing(f) = {r}
  BY <1>1 DEF Kept, Sole, Writing
<1>. HIDE DEF b
<1>8. NoClash'
  <2>1. Inserted' = Inserted
    BY <1>3, <1>4, <1>5 DEF Inserted
  <2>. QED
    BY <2>1 DEF Kept, NoClash, Clash, SamePrint
<1>9. OneBatch'
  BY <1>2, <1>6, <1>7 DEF Kept, OneBatch, Imported
<1>10. Sole'
  <2>1. ASSUME NEW q \in Requests, request'[q].step \in Writing
        PROVE  /\ ~Imported(request[q].file)'
               /\ Importing(request[q].file)' = {q}
    <3>1. q # r /\ request'[q] = request[q]
      BY <1>4, <1>5, <2>1 DEF Writing
    <3>2. ~Imported(request[q].file) /\ Importing(request[q].file) = {q}
      BY <2>1, <3>1 DEF Kept, Sole
    <3>3. request[q].file # f
      BY <1>7, <3>1, <3>2
    <3>4. ~Imported(request[q].file)'
      BY <1>2, <1>6, <3>1, <3>2, <3>3 DEF Imported
    <3>5. Importing(request[q].file)' = {q}
      BY <1>4, <1>5, <2>1, <3>1, <3>2 DEF Importing, Writing
    <3>. QED
      BY <3>1, <3>4, <3>5
  <2>. QED
    BY <2>1 DEF Sole
<1>11. Covered'
  BY <1>3, <1>4, <1>5 DEF Kept, Covered, SamePrint, Writing
<1>12. Passed'
  <2>1. \A i \in DOMAIN Contents[f] : i < request[r].next
    <3>1. f \in Files /\ request[r].next \in Nat
      BY <1>1 DEF TypeInv, Request, Importers, Writing
    <3>2. Contents[f] \in Seq(Rows)
      BY <3>1, ImportAssumption
    <3>. QED
      BY <1>1, <3>1, <3>2 DEF More
  <2>2. \A row \in RowsOf(f) : \E t \in transactions' : SamePrint(request[r].iban, row, t)
    BY <1>1, <1>3, <2>1 DEF Kept, Covered, RowsOf, Writing
  <2>3. \A d \in batches : \A row \in RowsOf(d.file) :
          \E t \in transactions' : SamePrint(d.iban, row, t)
    BY <1>3 DEF Kept, Passed
  <2>4. \A d \in batches' : \A row \in RowsOf(d.file) :
          \E t \in transactions' : SamePrint(d.iban, row, t)
    BY <1>2, <1>6, <2>2, <2>3
  <2>. QED
    BY <2>4 DEF Passed, RowsOf, SamePrint
<1>. QED
  BY <1>8, <1>9, <1>10, <1>11, <1>12 DEF Kept

LEMMA KeptStep ==
  ASSUME Kept, TypeInv, [Next]_vars
  PROVE  Kept'
<1>a. ASSUME NEW r \in Requests, Abort(r)
      PROVE  Kept'
  BY <1>a, AwayKeeps DEF Abort, Idle, Writing
<1>1. ASSUME NEW a \in Accounts, Create(a) \/ Update(a)
      PROVE  Kept'
  <2>1. UNCHANGED <<batches, transactions, request>>
    BY <1>1 DEF Create, Update
  <2>. QED
    BY <2>1 DEF Kept, NoClash, Inserted, Clash, OneBatch, Sole, Imported, Importing,
                Covered, SamePrint, Passed, RowsOf
<1>2. ASSUME NEW r \in Requests, NEW a \in Accounts, NEW create \in BOOLEAN,
             NEW iban \in Ibans \union {None}, BeginDefault(r, a, iban, create)
      PROVE  Kept'
  <2>. DEFINE new == [Idle EXCEPT !.step = "clearing", !.account = a, !.iban = iban,
                                  !.create = create, !.seen = Existing]
  <2>1. new.step = "clearing" /\ new.inserted = {}
    BY DEF Idle
  <2>2. request' = [request EXCEPT ![r] = new] /\ UNCHANGED <<batches, transactions>>
    BY <1>2 DEF BeginDefault
  <2>. HIDE DEF new
  <2>. QED
    BY <2>1, <2>2, AwayKeeps DEF Writing
<1>3. ASSUME NEW r \in Requests, NEW f \in Files, NEW a \in Accounts, Preview(r, f, a)
      PROVE  Kept'
  <2>. DEFINE new == [Idle EXCEPT !.step = "batch", !.file = f, !.account = a,
                                  !.iban = account[a].iban]
  <2>1. new.step = "batch" /\ new.inserted = {}
    BY DEF Idle
  <2>2. request' = [request EXCEPT ![r] = new] /\ UNCHANGED <<batches, transactions>>
    BY <1>3 DEF Preview
  <2>. HIDE DEF new
  <2>. QED
    BY <2>1, <2>2, AwayKeeps DEF Writing
<1>4. ASSUME NEW r \in Requests, ClearDefaults(r)
      PROVE  Kept'
  <2>. DEFINE new == [request[r] EXCEPT !.step = "cleared"]
  <2>1. new.step = "cleared" /\ new.inserted = request[r].inserted
    BY DEF TypeInv, Request
  <2>2. request' = [request EXCEPT ![r] = new] /\ UNCHANGED <<batches, transactions>>
    BY <1>4 DEF ClearDefaults
  <2>. HIDE DEF new
  <2>. QED
    BY <2>1, <2>2, AwayKeeps DEF Writing
<1>5. ASSUME NEW r \in Requests, SetDefault(r)
      PROVE  Kept'
  <2>1. request' = [request EXCEPT ![r] = Idle] /\ UNCHANGED <<batches, transactions>>
    BY <1>5 DEF SetDefault
  <2>. QED
    BY <2>1, AwayKeeps DEF Idle, Writing
<1>6. CASE UNCHANGED vars
  BY <1>6 DEF vars, Kept, NoClash, Inserted, Clash, OneBatch, Sole, Imported,
              Importing, Covered, SamePrint, Passed, RowsOf
<1>. QED
  BY <1>a, <1>1, <1>2, <1>3, <1>4, <1>5, <1>6, InsertBatchKeeps, CheckRowKeeps,
     InsertRowKeeps, CommitKeeps
  DEF Next, Step, RefuseDefault, RefuseBatch, RefuseRow, DeadlockAbort, Fail
-----------------------------------------------------------------------------
(***************************************************************************)
(* Accounts and the IBANs they have had.                                   *)
(***************************************************************************)

\* A step that changes no account, and commits nothing.
LEMMA KnownAway ==
  ASSUME Known, TypeInv, NEW r \in Requests, NEW new,
         request' = [request EXCEPT ![r] = new],
         UNCHANGED <<account, held, batches, transactions>>,
         \A t \in new.inserted \ request[r].inserted : <<t.account, t.iban>> \in held,
         new.step \in Importers => <<new.account, new.iban>> \in held
  PROVE  Known'
<1>1. request'[r] = new /\ \A q \in Requests \ {r} : request'[q] = request[q]
  BY DEF TypeInv
<1>2. \A t \in Inserted' : t \in Inserted \/ t \in new.inserted \ request[r].inserted
  BY <1>1 DEF Inserted
<1>3. \A t \in Inserted' : <<t.account, t.iban>> \in held'
  BY <1>2 DEF Known
<1>4. \A q \in Requests : request'[q].step \in Importers =>
        <<request'[q].account, request'[q].iban>> \in held'
  BY <1>1 DEF Known
<1>. QED
  BY <1>3, <1>4 DEF Known, Exists

\* A step that changes one account, and perhaps ends a request.
LEMMA KnownAccount ==
  ASSUME Known, TypeInv, NEW a \in Accounts, held \subseteq held',
         \A b \in Accounts \ {a} : account'[b].iban = account[b].iban,
         account'[a].iban # account[a].iban => <<a, account'[a].iban>> \in held',
         \A q \in Requests : request'[q] = request[q] \/ request'[q] = Idle,
         UNCHANGED <<batches, transactions>>
  PROVE  Known'
<1>1. Idle.inserted = {} /\ Idle.step \notin Importers
  BY DEF Idle, Importers, Writing
<1>2. Inserted' \subseteq Inserted
  BY <1>1 DEF Inserted
<1>3. \A b \in Accounts : Exists(b)' => <<b, account'[b].iban>> \in held'
  <2>1. ASSUME NEW b \in Accounts, account'[b].iban # None
        PROVE  <<b, account'[b].iban>> \in held'
    <3>1. CASE account'[b].iban = account[b].iban
      BY <2>1, <3>1 DEF Known, Exists
    <3>2. CASE account'[b].iban # account[b].iban
      BY <3>2
    <3>. QED
      BY <3>1, <3>2
  <2>. QED
    BY <2>1 DEF Exists
<1>4. \A q \in Requests : request'[q].step \in Importers =>
        <<request'[q].account, request'[q].iban>> \in held'
  BY <1>1 DEF Known
<1>. QED
  BY <1>2, <1>3, <1>4 DEF Known

LEMMA KnownStep ==
  ASSUME Known, TypeInv, [Next]_vars
  PROVE  Known'
<1>0. Idle.inserted = {} /\ Idle.step \notin Importers
  BY DEF Idle, Importers, Writing
<1>a. ASSUME NEW r \in Requests, Abort(r)
      PROVE  Known'
  BY <1>0, <1>a, KnownAway DEF Abort, accountVars
<1>1. ASSUME NEW a \in Accounts, Create(a) \/ Update(a)
      PROVE  Known'
  <2>1. PICK row \in BankAccount :
          /\ account' = [account EXCEPT ![a] = row] /\ held \subseteq held'
          /\ row.iban # account[a].iban => <<a, row.iban>> \in held'
    BY <1>1, AccountChange
  <2>2. account'[a] = row /\ \A b \in Accounts \ {a} : account'[b] = account[b]
    BY <2>1 DEF TypeInv
  <2>3. UNCHANGED <<batches, transactions, request>>
    BY <1>1 DEF Create, Update
  <2>. QED
    BY <2>1, <2>2, <2>3, KnownAccount
<1>2. ASSUME NEW r \in Requests, NEW a \in Accounts, NEW create \in BOOLEAN,
             NEW iban \in Ibans \union {None}, BeginDefault(r, a, iban, create)
      PROVE  Known'
  <2>. DEFINE new == [Idle EXCEPT !.step = "clearing", !.account = a, !.iban = iban,
                                  !.create = create, !.seen = Existing]
  <2>1. new.step \notin Importers /\ new.inserted = {}
    BY DEF Idle, Importers, Writing
  <2>2. request' = [request EXCEPT ![r] = new]
        /\ UNCHANGED <<account, held, batches, transactions>>
    BY <1>2 DEF BeginDefault, accountVars
  <2>. HIDE DEF new
  <2>. QED
    BY <2>1, <2>2, KnownAway
<1>3. ASSUME NEW r \in Requests, NEW f \in Files, NEW a \in Accounts, Preview(r, f, a)
      PROVE  Known'
  <2>. DEFINE new == [Idle EXCEPT !.step = "batch", !.file = f, !.account = a,
                                  !.iban = account[a].iban]
  <2>1. new.account = a /\ new.iban = account[a].iban /\ new.inserted = {}
    BY DEF Idle
  <2>2. request' = [request EXCEPT ![r] = new]
        /\ UNCHANGED <<account, held, batches, transactions>>
    BY <1>3 DEF Preview, accountVars
  <2>3. <<a, account[a].iban>> \in held
    BY <1>3 DEF Preview, TypeInv, BankAccount, Known, Exists
  <2>. HIDE DEF new
  <2>. QED
    BY <2>1, <2>2, <2>3, KnownAway
<1>4. ASSUME NEW r \in Requests, ClearDefaults(r)
      PROVE  Known'
  <2>. DEFINE new == [request[r] EXCEPT !.step = "cleared"]
  <2>1. new.step \notin Importers /\ new.inserted = request[r].inserted
    BY DEF TypeInv, Request, Importers, Writing
  <2>2. request' = [request EXCEPT ![r] = new]
        /\ UNCHANGED <<account, held, batches, transactions>>
    BY <1>4 DEF ClearDefaults, accountVars
  <2>. HIDE DEF new
  <2>. QED
    BY <2>1, <2>2, KnownAway
<1>5. ASSUME NEW r \in Requests, SetDefault(r)
      PROVE  Known'
  <2>. DEFINE a == request[r].account
  <2>1. /\ held' = held \union {<<a, NextIban(r)>>} /\ UNCHANGED <<batches, transactions>>
        /\ request' = [request EXCEPT ![r] = Idle]
    BY <1>5 DEF SetDefault
  <2>2. a \in Accounts
    BY <1>5 DEF SetDefault, At, TypeInv
  <2>3. \A q \in Requests : request'[q] = request[q] \/ request'[q] = Idle
    BY <2>1 DEF TypeInv
  <2>. QED
    BY <1>5, <2>1, <2>2, <2>3, SetDefaultType, KnownAccount
<1>6. ASSUME NEW r \in Requests, InsertBatch(r) \/ CheckRow(r) \/ InsertRow(r)
      PROVE  Known'
  <2>1. /\ request[r].step \in Importers
        /\ UNCHANGED <<account, held, batches, transactions>>
    BY <1>6 DEF InsertBatch, CheckRow, InsertRow, At, Importers, Writing, accountVars
  <2>2. <<request[r].account, request[r].iban>> \in held
    BY <2>1 DEF Known
  <2>3. /\ request'[r].account = request[r].account /\ request'[r].iban = request[r].iban
        /\ request'[r].inserted \subseteq request[r].inserted \union {Current(r)}
        /\ request' = [request EXCEPT ![r] = request'[r]]
    <3>1. request \in [Requests -> Request] /\ request[r] \in Request
      BY DEF TypeInv
    <3>2. CASE InsertBatch(r)
      BY <3>1, <3>2 DEF InsertBatch, Request
    <3>3. CASE CheckRow(r)
      BY <3>1, <3>3 DEF CheckRow, Request
    <3>4. CASE InsertRow(r)
      BY <3>1, <3>4 DEF InsertRow, Request
    <3>. QED
      BY <1>6, <3>2, <3>3, <3>4
  <2>4. Current(r).account = request[r].account /\ Current(r).iban = request[r].iban
    BY DEF Current
  <2>. QED
    BY <2>1, <2>2, <2>3, <2>4, KnownAway
<1>7. ASSUME NEW r \in Requests, Commit(r)
      PROVE  Known'
  <2>. DEFINE b == [file |-> request[r].file, account |-> request[r].account,
                    iban |-> request[r].iban, imported |-> Cardinality(request[r].inserted)]
  <2>1. batches' = batches \union {b}
    BY <1>7, Zenon DEF Commit
  <2>2. /\ transactions' = transactions \union request[r].inserted
        /\ UNCHANGED <<account, held>> /\ request[r].step \in Importers
        /\ request'[r] = Idle /\ \A q \in Requests \ {r} : request'[q] = request[q]
    BY <1>7 DEF Commit, accountVars, At, Importers, Writing, TypeInv
  <2>3. b.account = request[r].account /\ b.iban = request[r].iban
    OBVIOUS
  <2>. HIDE DEF b
  <2>4. Inserted' \subseteq Inserted
    BY <1>0, <2>2 DEF Inserted
  <2>5. \A q \in Requests : request'[q].step \in Importers =>
          <<request'[q].account, request'[q].iban>> \in held'
    BY <1>0, <2>2 DEF Known
  <2>6. \A d \in batches' : <<d.account, d.iban>> \in held'
    BY <2>1, <2>2, <2>3 DEF Known
  <2>. QED
    BY <2>2, <2>4, <2>5, <2>6 DEF Known, Exists
<1>8. CASE UNCHANGED vars
  BY <1>8 DEF vars, accountVars, Known, Inserted, Exists
<1>. QED
  BY <1>a, <1>1, <1>2, <1>3, <1>4, <1>5, <1>6, <1>7, <1>8
  DEF Next, Step, RefuseDefault, RefuseBatch, RefuseRow, DeadlockAbort, Fail
-----------------------------------------------------------------------------
(***************************************************************************)
(* The theorems.                                                           *)
(***************************************************************************)

\* The inductive invariant: no two rows that are inserted, committed or not,
\* clash in an index; a file under way is nobody else's; what an import has
\* passed is there; and whatever refers to an account does so under an IBAN the
\* account has or had.
THEOREM ImportInvariant == Spec => []ImportInv
<1>1. Init => ImportInv
  <2> SUFFICES ASSUME Init PROVE ImportInv
    OBVIOUS
  <2>0. Idle.step = "idle" /\ Idle.inserted = {}
    BY DEF Idle
  <2>1. account \in [Accounts -> BankAccount]
    BY ImportAssumption DEF Init, BankAccount
  <2>2. TypeInv
    BY <2>1, IdleType DEF Init, TypeInv, Idle, Importers, Writing
  <2>3. NoClash
    BY DEF Init, NoClash, Inserted, Idle
  <2>4. OneBatch /\ Sole /\ Covered /\ Passed
    BY DEF Init, OneBatch, Sole, Covered, Passed, Idle, Writing
  <2>5. Known
    <3>1. Inserted = {}
      BY <2>0 DEF Init, Inserted
    <3>2. \A a \in Accounts : Exists(a) => <<a, account[a].iban>> \in held
      BY ImportAssumption DEF Init, Exists
    <3>. QED
      BY <2>0, <3>1, <3>2 DEF Init, Known, Importers, Writing
  <2>. QED
    BY <2>2, <2>3, <2>4, <2>5 DEF ImportInv, Kept
<1>2. ImportInv /\ [Next]_vars => ImportInv'
  BY TypeStep, KeptStep, KnownStep DEF ImportInv
<1>. QED
  BY <1>1, <1>2, PTL DEF Spec

\* No file is imported twice, and no row is inserted twice for an IBAN or,
\* under the bank's identifier, for an account, for any number of imports that
\* overlap, fail and wait for each other while accounts and IBANs change.
THEOREM FilesImportedOnce == Spec => []ImportedOnce
<1>1. ImportInv => ImportedOnce
  <2> SUFFICES ASSUME ImportInv PROVE ImportedOnce
    OBVIOUS
  <2>1. \A t, u \in transactions : Clash(t, u) => t = u
    BY DEF ImportInv, Kept, NoClash, Inserted
  <2>2. \A t, u \in transactions :
          /\ t.row = u.row
          /\ IF t.row.external = None THEN t.iban = u.iban ELSE t.account = u.account
          => t = u
    BY <2>1 DEF Clash, SamePrint
  <2>. QED
    BY <2>2 DEF ImportInv, Kept, OneBatch, ImportedOnce
<1>. QED
  BY <1>1, ImportInvariant, PTL

\* Every row of an imported file is among the transactions of its account,
\* although imports leave out what others have inserted; only an IBAN that has
\* been another account's may have left it there.
THEOREM RowsNotLost == Spec => []NothingLost
<1>1. ImportInv => NothingLost
  <2> SUFFICES ASSUME ImportInv, NEW b \in batches, NEW row \in RowsOf(b.file)
      PROVE  \E t \in transactions :
               /\ SamePrint(b.iban, row, t)
               /\ t.account = b.account \/ Shared(b.iban)
    BY DEF NothingLost
  <2>1. PICK t \in transactions : SamePrint(b.iban, row, t)
    BY DEF ImportInv, Kept, Passed
  <2>2. <<t.account, b.iban>> \in held /\ t.account \in Accounts
    BY <2>1 DEF ImportInv, Known, Inserted, SamePrint, TypeInv, BankTransaction
  <2>3. <<b.account, b.iban>> \in held /\ b.account \in Accounts
    BY DEF ImportInv, Known, TypeInv, Batch
  <2>4. t.account = b.account \/ Shared(b.iban)
    BY <2>2, <2>3 DEF Shared
  <2>. QED
    BY <2>1, <2>4
<1>. QED
  BY <1>1, ImportInvariant, PTL
=============================================================================
