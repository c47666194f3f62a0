----------------------------- MODULE AuditTrail -----------------------------
(***************************************************************************)
(* What every request of the API passes through: a connection of the pool  *)
(* (db/pool.ts), a transaction, and, once that has committed, an event     *)
(* appended to the hash chain of the audit trail by a second connection    *)
(* under an advisory lock (services/audit.ts).  The transactions           *)
(* themselves are the business of the module that extends this one.        *)
(***************************************************************************)
EXTENDS Naturals, FiniteSetsExt

CONSTANTS
  Requests,     \* requests the API may serve at the same time
  Connections,  \* connections of the pool (10 in the code)
  None

ASSUME AuditAssumption ==
  None \notin Requests /\ Connections \in Nat \ {0}

VARIABLES
  phase,     \* where each request is
  held,      \* the connections each request has checked out
  untold,    \* the events each request has still to write
  advisory,  \* the request that holds advisory lock 789123
  clock,     \* the clock of the database
  begun,     \* now() of the audit transaction of each request
  row,       \* previous_hash of the row the transaction has inserted
  trail      \* the committed audit_events

auditVars == <<phase, held, untold, advisory, clock, begun, row, trail>>

AuditPhases == {"audit queued", "audit connected", "audit locked",
                "audit begun", "audit inserted"}

\* The id of the object an event is about, as the handler passes it: none, as the
\* database gives it back, or spelled otherwise by the path of the request.
Ids == {"none", "lower case", "capitals"}

\* object_id is a column of type uuid.
Stored(id) == IF id = "capitals" THEN "lower case" ELSE id

\* The hash of an event stands for the event: it is named by its created_at,
\* which no two events share as each transaction reads the clock on its own.
\* prev is 0 where previous_hash is null.  event_hash was made of the id that was
\* passed (hashed), the row has the stored one (object).
AuditEvent == [time : Nat, prev : Nat, object : Ids, hashed : Ids]

AuditInit ==
  /\ phase = [r \in Requests |-> "idle"]
  /\ held = [r \in Requests |-> 0]
  /\ untold = [r \in Requests |-> 0]
  /\ advisory = None
  /\ clock = 0
  /\ begun = [r \in Requests |-> 0]
  /\ row = [r \in Requests |-> 0]
  /\ trail = {}
-----------------------------------------------------------------------------
At(r, p) == phase[r] = p
GoTo(r, p) == phase' = [phase EXCEPT ![r] = p]

FreeConnection ==
  MapThenSumSet(LAMBDA r : held[r], Requests) < Connections

\* pool.connect(): the request waits until a connection is free ...
CheckOut(r, p, q) ==
  /\ At(r, p) /\ FreeConnection
  /\ held' = [held EXCEPT ![r] = @ + 1]
  /\ GoTo(r, q)

\* ... for connectionTimeoutMillis at most.  Whatever the request had checked
\* out before is given back on the way out (ROLLBACK, release).
TimeOut(r, p) ==
  /\ At(r, p)
  /\ held' = [held EXCEPT ![r] = 0]
  /\ untold' = [untold EXCEPT ![r] = 0]
  /\ GoTo(r, "idle")

\* The newest of some events, as ORDER BY created_at DESC LIMIT 1 finds it; 0 if
\* there is none.
Times(events) == {0} \union {e.time : e \in events}
Newest(events) ==
  CHOOSE t \in Times(events) : \A u \in Times(events) : u <= t
-----------------------------------------------------------------------------
(***************************************************************************)
(* withSerializedAuditWrite.                                               *)
(***************************************************************************)
AuditConnect(r) ==
  /\ CheckOut(r, "audit queued", "audit connected")
  /\ UNCHANGED <<untold, advisory, clock, begun, row, trail>>

\* The change is committed, but its event is lost and the answer an error.
AuditTimeOut(r) ==
  /\ TimeOut(r, "audit queued")
  /\ UNCHANGED <<advisory, clock, begun, row, trail>>

\* Mutant: writers do not wait for each other.
AuditLockMutant(r) ==
  /\ At(r, "audit connected")
  /\ advisory' = r
  /\ GoTo(r, "audit locked")
  /\ UNCHANGED <<held, untold, clock, begun, row, trail>>

AuditLock(r) ==
  /\ At(r, "audit connected") /\ advisory = None
  /\ advisory' = r
  /\ GoTo(r, "audit locked")
  /\ UNCHANGED <<held, untold, clock, begun, row, trail>>

\* now() is fixed by BEGIN, after the lock has been granted.
AuditBegin(r) ==
  /\ At(r, "audit locked")
  /\ clock' = clock + 1
  /\ begun' = [begun EXCEPT ![r] = clock + 1]
  /\ GoTo(r, "audit begun")
  /\ UNCHANGED <<held, untold, advisory, row, trail>>

\* writeAuditEvent: reads the newest event and inserts one that refers to it.
AuditInsert(r) ==
  /\ At(r, "audit begun")
  /\ row' = [row EXCEPT ![r] = Newest(trail)]
  /\ GoTo(r, "audit inserted")
  /\ UNCHANGED <<held, untold, advisory, clock, begun, trail>>

\* COMMIT, pg_advisory_unlock, release; then the next event of the request.
AuditCommit(r, id) ==
  /\ At(r, "audit inserted")
  /\ trail' = trail \union {[time |-> begun[r], prev |-> row[r],
                             object |-> Stored(id), hashed |-> id]}
  /\ advisory' = None
  /\ held' = [held EXCEPT ![r] = @ - 1]
  /\ untold' = [untold EXCEPT ![r] = @ - 1]
  /\ begun' = [begun EXCEPT ![r] = 0]
  /\ row' = [row EXCEPT ![r] = 0]
  /\ GoTo(r, IF untold[r] > 1 THEN "audit queued" ELSE "idle")
  /\ UNCHANGED clock

\* A statement fails: ROLLBACK, unlock, release, and the error is answered.
AuditFail(r) ==
  /\ phase[r] \in AuditPhases \ {"audit queued"}
  /\ advisory' = IF advisory = r THEN None ELSE advisory
  /\ held' = [held EXCEPT ![r] = @ - 1]
  /\ untold' = [untold EXCEPT ![r] = 0]
  /\ begun' = [begun EXCEPT ![r] = 0]
  /\ row' = [row EXCEPT ![r] = 0]
  /\ GoTo(r, "idle")
  /\ UNCHANGED <<clock, trail>>

AuditNext(r, id) ==
  \/ AuditConnect(r) \/ AuditTimeOut(r) \/ AuditLock(r) \/ AuditBegin(r)
  \/ AuditInsert(r) \/ AuditCommit(r, id) \/ AuditFail(r)

\* The API process dies: the database ends its sessions, and with them the
\* advisory lock and the open transactions.
AuditCrash ==
  /\ phase' = [r \in Requests |-> "idle"]
  /\ held' = [r \in Requests |-> 0]
  /\ untold' = [r \in Requests |-> 0]
  /\ advisory' = None
  /\ begun' = [r \in Requests |-> 0]
  /\ row' = [r \in Requests |-> 0]
  /\ UNCHANGED <<clock, trail>>
-----------------------------------------------------------------------------
\* verifyAuditChain reads the trail in the order of created_at.  It compares each
\* previous_hash with the hash of the event before, and each event_hash with one
\* made anew from the row.
Linked(e) == e.prev = Newest({f \in trail : f.time < e.time})
Rehashed(e) == e.object = e.hashed

Broken == {e \in trail : ~Linked(e) \/ ~Rehashed(e)}

(***************************************************************************)
(* However the writers of the API overlap, fail or die ("Audit hash-chain  *)
(* appends must be serialised BEFORE the transaction starts",              *)
(* services/audit.ts), each event is linked to the one before, and the     *)
(* only events verifyAuditChain may stop at are those whose object was     *)
(* named otherwise than the database spells it.                            *)
(***************************************************************************)
ChainVerifies ==
  \A e \in Broken : Linked(e) /\ Stored(e.hashed) # e.hashed
=============================================================================
