------------------------------ MODULE Tenants ------------------------------
(***************************************************************************)
(* The members of a tenant and their roles (services/tenantService.ts,     *)
(* routes/tenant.ts): requests served at the same time, each of which asks *)
(* for permission, then runs its transaction and then writes its audit     *)
(* events; a request that needs a second connection while it holds one     *)
(* (the bank statement import); and one that changes something else of the *)
(* tenant, named by the path.                                              *)
(***************************************************************************)
EXTENDS AuditTrail

CONSTANTS
  Users,
  Creator,   \* the user who has created the tenant
  Roles,     \* role names; "Owner" is one of them
  Managers,  \* the roles that hold member.manage and role.manage
  MaxOps     \* bound on the requests served

ASSUME TenantAssumption ==
  /\ Creator \in Users
  /\ "Owner" \in Managers /\ Managers \subseteq Roles
  /\ MaxOps \in Nat

VARIABLES
  status,      \* memberships.status of each user; "NONE" without a membership
  roles,       \* the roles of each membership (membership_roles)
  tenantLock,  \* the request that holds the row lock on the tenant
  stranded,    \* has the last active Owner been set to INVITED?
  op,          \* what each request asks for
  ops          \* number of requests so far

memberVars == <<status, roles, stranded>>
tenantVars == <<memberVars, tenantLock, op, ops>>
vars == <<auditVars, tenantVars>>

Statuses == {"ACTIVE", "INVITED", "SUSPENDED", "REMOVED"}

Operation ==
  [kind : {"STATUS"}, user : Users, status : Statuses]
    \union [kind : {"ADD", "ASSIGN", "REVOKE"}, user : Users, role : Roles]
    \union [kind : {"REMOVE"}, user : Users]
    \union [kind : {"IMPORT", "CHANGE"}]

\* createTenant: the tenant, the membership of its creator and the Owner role
\* come about in one transaction.
Init ==
  /\ AuditInit
  /\ status = [u \in Users |-> IF u = Creator THEN "ACTIVE" ELSE "NONE"]
  /\ roles = [u \in Users |-> IF u = Creator THEN {"Owner"} ELSE {}]
  /\ stranded = FALSE
  /\ tenantLock = None
  /\ op = [r \in Requests |-> None]
  /\ ops = 0
-----------------------------------------------------------------------------
\* resolveTenantAccess and requirePermission.
HasPermission(u) == status[u] = "ACTIVE" /\ roles[u] \cap Managers # {}

\* countActiveOwners
ActiveOwners == {u \in Users : status[u] = "ACTIVE" /\ "Owner" \in roles[u]}

IsMember(u) == status[u] # "NONE"

\* The operations that must not take the last Owner away.  A change of status
\* to INVITED is not among them.
AsksForOwners(o) ==
  \/ o.kind = "REVOKE" /\ o.role = "Owner"
  \/ o.kind = "REMOVE" /\ "Owner" \in roles[o.user]
  \/ /\ o.kind = "STATUS" /\ o.status \in {"SUSPENDED", "REMOVED"}
     /\ "Owner" \in roles[o.user]

\* What the transaction finds out before it writes.
Allowed(o) ==
  /\ o.kind \in {"REMOVE", "STATUS", "ASSIGN"} => IsMember(o.user)
  /\ AsksForOwners(o) => IsMember(o.user) /\ ActiveOwners \ {o.user} # {}

Locks(o) == o.kind \notin {"ASSIGN", "IMPORT", "CHANGE"}

\* The id in the event of the operation: members are named in the metadata only,
\* journal entries, periods, documents and times by the path of the request, and
\* where the path spells the id as the database does, nothing hangs on it.
ObjectOf(o) == IF o.kind = "CHANGE" THEN "capitals" ELSE "none"

\* Adding a member tells of two events, any other operation of one.
EventsOf(o) == IF o.kind = "ADD" THEN 2 ELSE 1
-----------------------------------------------------------------------------
\* The request passes enterTenant and requirePermission; what these have read
\* is not read again.
Enter(r, o) ==
  /\ At(r, "idle") /\ ops < MaxOps
  /\ \E u \in Users : HasPermission(u)
  /\ op' = [op EXCEPT ![r] = o]
  /\ ops' = ops + 1
  /\ GoTo(r, "tx queued")
  /\ UNCHANGED <<memberVars, tenantLock, held, untold, advisory, clock,
                 begun, row, trail>>

\* withTenantTransaction: pool.connect() and BEGIN.
TxConnect(r) ==
  /\ CheckOut(r, "tx queued",
              IF op[r].kind = "IMPORT" THEN "inner queued" ELSE "tx begun")
  /\ UNCHANGED <<tenantVars, untold, advisory, clock, begun, row, trail>>

TxTimeOut(r) ==
  /\ TimeOut(r, "tx queued")
  /\ op' = [op EXCEPT ![r] = None]
  /\ UNCHANGED <<memberVars, tenantLock, ops, advisory, clock, begun, row,
                 trail>>

\* Mutant: lockTenant is left out.
TxLockMutant(r) ==
  /\ At(r, "tx begun") /\ Locks(op[r])
  /\ tenantLock' = r
  /\ GoTo(r, "tx locked")
  /\ UNCHANGED <<memberVars, op, ops, held, untold, advisory, clock, begun,
                 row, trail>>

\* lockTenant
TxLock(r) ==
  /\ At(r, "tx begun") /\ Locks(op[r]) /\ tenantLock = None
  /\ tenantLock' = r
  /\ GoTo(r, "tx locked")
  /\ UNCHANGED <<memberVars, op, ops, held, untold, advisory, clock, begun,
                 row, trail>>

\* The queries before the write find nothing against it ...
TxRead(r) ==
  /\ \/ At(r, "tx locked")
     \/ At(r, "tx begun") /\ ~Locks(op[r])
  /\ Allowed(op[r])
  /\ GoTo(r, "tx read")
  /\ UNCHANGED <<tenantVars, held, untold, advisory, clock, begun, row, trail>>

\* ... or the request is refused.
TxRefuse(r) ==
  /\ \/ At(r, "tx locked")
     \/ At(r, "tx begun") /\ ~Locks(op[r])
  /\ ~Allowed(op[r])
  /\ tenantLock' = IF tenantLock = r THEN None ELSE tenantLock
  /\ held' = [held EXCEPT ![r] = @ - 1]
  /\ op' = [op EXCEPT ![r] = None]
  /\ GoTo(r, "idle")
  /\ UNCHANGED <<memberVars, ops, untold, advisory, clock, begun, row,
                 trail>>

\* The write.  A membership that exists, in whatever status, is left as it is
\* by ADD (ON CONFLICT DO NOTHING).
Write(o) ==
  \/ /\ o.kind = "STATUS"
     /\ status' = [status EXCEPT ![o.user] = o.status]
     /\ UNCHANGED roles
  \/ /\ o.kind = "REMOVE"
     /\ status' = [status EXCEPT ![o.user] = "REMOVED"]
     /\ UNCHANGED roles
  \/ /\ o.kind = "ADD" /\ ~IsMember(o.user)
     /\ status' = [status EXCEPT ![o.user] = "ACTIVE"]
     /\ roles' = [roles EXCEPT ![o.user] = {o.role}]
  \/ /\ o.kind = "ASSIGN"
     /\ roles' = [roles EXCEPT ![o.user] = @ \union {o.role}]
     /\ UNCHANGED status
  \/ /\ o.kind = "REVOKE"
     /\ roles' = [roles EXCEPT ![o.user] = @ \ {o.role}]
     /\ UNCHANGED status
  \/ /\ o.kind \in {"IMPORT", "CHANGE"} \/ (o.kind = "ADD" /\ IsMember(o.user))
     /\ UNCHANGED <<status, roles>>

\* The one way round the count of the other Owners.
InvitesLastOwner(o) ==
  o.kind = "STATUS" /\ o.status = "INVITED" /\ ActiveOwners \ {o.user} = {}

\* COMMIT and release; the events of the operation are still to be told.
TxCommit(r) ==
  /\ At(r, "tx read")
  /\ Write(op[r])
  /\ stranded' = (stranded \/ InvitesLastOwner(op[r]))
  /\ tenantLock' = IF tenantLock = r THEN None ELSE tenantLock
  /\ held' = [held EXCEPT ![r] = @ - 1]
  /\ untold' = [untold EXCEPT ![r] = EventsOf(op[r])]
  /\ GoTo(r, "audit queued")
  /\ UNCHANGED <<op, ops, advisory, clock, begun, row, trail>>

\* confirmBankImport calls previewBankStatement with the pool: a transaction in
\* a transaction, on a connection of its own.
InnerConnect(r) ==
  /\ CheckOut(r, "inner queued", "inner begun")
  /\ UNCHANGED <<tenantVars, untold, advisory, clock, begun, row, trail>>

\* Mutant: pool.connect() waits for ever.
InnerTimeOutMutant(r) ==
  /\ TimeOut(r, "inner queued") /\ FreeConnection
  /\ op' = [op EXCEPT ![r] = None]
  /\ UNCHANGED <<memberVars, tenantLock, ops, advisory, clock, begun, row,
                 trail>>

InnerTimeOut(r) ==
  /\ TimeOut(r, "inner queued")
  /\ op' = [op EXCEPT ![r] = None]
  /\ UNCHANGED <<memberVars, tenantLock, ops, advisory, clock, begun, row,
                 trail>>

InnerCommit(r) ==
  /\ At(r, "inner begun")
  /\ held' = [held EXCEPT ![r] = @ - 1]
  /\ GoTo(r, "tx read")
  /\ UNCHANGED <<tenantVars, untold, advisory, clock, begun, row, trail>>

AuditStep(r) ==
  /\ AuditNext(r, ObjectOf(op[r]))
  /\ op' = IF At(r, "idle")' THEN [op EXCEPT ![r] = None] ELSE op
  /\ UNCHANGED <<memberVars, tenantLock, ops>>

Crash ==
  /\ AuditCrash
  /\ tenantLock' = None
  /\ op' = [r \in Requests |-> None]
  /\ UNCHANGED <<memberVars, ops>>

\* What a request does once it is under way.
Step(r) ==
  \/ TxConnect(r) \/ TxTimeOut(r) \/ TxLock(r) \/ TxRead(r) \/ TxRefuse(r)
  \/ TxCommit(r)
  \/ InnerConnect(r) \/ InnerTimeOut(r) \/ InnerCommit(r)
  \/ AuditStep(r)

Next ==
  \/ \E r \in Requests, o \in Operation : Enter(r, o)
  \/ \E r \in Requests : Step(r)
  \/ Crash

Spec == Init /\ [][Next]_vars

\* A request that can go on does: node calls it back, the database answers, and
\* a connection timeout fires.  Nothing makes the process crash or users ask.
FairSpec == Spec /\ \A r \in Requests : WF_vars(Step(r))
-----------------------------------------------------------------------------
(***************************************************************************)
(* However requests overlap, the tenant keeps an active Owner, unless the  *)
(* status of the last one is set to INVITED: removeMember, setMemberStatus *)
(* and revokeRole count the others under lockTenant, and roles assigned    *)
(* without that lock in between do no harm.  Once the last Owner has been  *)
(* invited, the others may lose a new one to a race with such a role.      *)
(***************************************************************************)
LastOwnerKept == stranded \/ ActiveOwners # {}

(***************************************************************************)
(* Every request ends: requests that wait for a second connection of the   *)
(* pool while they hold one, for the lock on the tenant or for the         *)
(* advisory lock of the audit trail do not wait on each other for ever.    *)
(***************************************************************************)
EveryRequestEnds == \A r \in Requests : ~At(r, "idle") ~> At(r, "idle")
=============================================================================
