------------------------------- MODULE Login -------------------------------
(***************************************************************************)
(* The account of one user: password, e-mail verification, sessions and    *)
(* two-factor authentication (routes/auth.ts, services/identityService.ts, *)
(* sessionService.ts, twoFactorService.ts).  The handlers run side by      *)
(* side, and every statement outside a transaction is a step of its own:   *)
(* what a handler has read is not read again before it writes.  A token is *)
(* a number, a password the number of times it has been set, a recovery    *)
(* code its batch and place, a code of the authenticator the counter it    *)
(* was made for.  The audit events are those of AuditTrail.                *)
(***************************************************************************)
EXTENDS Integers, Sequences

CONSTANTS
  Handlers,
  Nothing,
  CodesPerBatch,  \* 10 in the code
  MaxStarted,     \* bound on the handlers started
  MaxTime         \* bound on the counter of the authenticator

Token == [kind : {"VERIFY", "RESET", "CHALLENGE"}, id : Nat]

ASSUME LoginAssumption ==
  /\ CodesPerBatch \in Nat \ {0} /\ MaxStarted \in Nat /\ MaxTime \in Nat
  /\ Nothing \notin Handlers \union Token \union Nat

VARIABLES
  verified,  \* users.email_verified_at is set
  password,  \* number of the current password
  settings,  \* history: how each password after the first came about
  userLock,  \* the request whose transaction holds the row of the user
  totp,      \* the rows of totp_credentials, with last_used_counter
  codes,     \* the unused recovery codes
  tokens,    \* the unused rows of the three tables of one-time tokens
  expired,   \* those of them whose time is over
  sessions,  \* the rows of sessions
  now,       \* counter of the authenticator (half minutes)
  made,      \* number of tokens, credentials, batches and sessions so far
  statement, \* the next statement of each request
  job,       \* what each request has read and been given
  started    \* number of handlers started

accountVars == <<verified, password, settings, userLock>>
factorVars == <<totp, codes, now>>
loginVars == <<accountVars, factorVars, tokens, expired, sessions, made, statement,
               job, started>>

NoJob == [password |-> 0, token |-> Nothing, code |-> Nothing, session |-> Nothing,
          secret |-> Nothing, upto |-> 0, left |-> 0]

Batch(b) == [kind : {"RECOVERY"}, batch : {b}, no : 1..CodesPerBatch]

\* A registered user: not verified yet, verified, or with two-factor
\* authentication, signed in since it was set up and asked for a code elsewhere.
LoginInit ==
  /\ verified \in BOOLEAN
  /\ totp \in {{}, {[id |-> 1, confirmed |-> TRUE, used |-> -1]}}
  /\ totp # {} => verified
  /\ codes = IF totp = {} THEN {} ELSE Batch(1)
  /\ password = 0 /\ settings = <<>> /\ userLock = Nothing
  /\ tokens = IF totp = {} THEN {} ELSE {[kind |-> "CHALLENGE", id |-> 1]}
  /\ expired = {}
  /\ sessions = IF totp = {} THEN {}
                ELSE {[id |-> 1, active |-> TRUE, password |-> 0, challenge |-> Nothing,
                       code |-> Nothing, secret |-> Nothing]}
  /\ now = 0 /\ made = 1 /\ started = 0
  /\ statement = [r \in Handlers |-> "idle"]
  /\ job = [r \in Handlers |-> NoJob]
-----------------------------------------------------------------------------
IsAt(r, p) == statement[r] = p
GoOn(r, p) == statement' = [statement EXCEPT ![r] = p]

\* The request ends: it has answered, been refused or thrown.
End(r) == GoOn(r, "idle") /\ job' = [job EXCEPT ![r] = NoJob]

Begin(r) == IsAt(r, "idle") /\ started < MaxStarted /\ started' = started + 1

Confirmed == {c \in totp : c.confirmed}
Pending == totp \ Confirmed
Open == tokens \ expired
Active == {s \in sessions : s.active}
Revoked(S) == (sessions \ S) \union {[s EXCEPT !.active = FALSE] : s \in S}
Locked(t) == \E q \in Handlers : IsAt(q, "reset locked") /\ job[q].token = t
-----------------------------------------------------------------------------
\* register, email/resend and password/forgot: a token is stored and mailed.
IssueToken(r, kind) ==
  /\ Begin(r)
  /\ kind = "VERIFY" => ~verified
  /\ tokens' = tokens \union {[kind |-> kind, id |-> made + 1]}
  /\ made' = made + 1
  /\ UNCHANGED <<accountVars, factorVars, expired, sessions, statement, job>>

Expire(t) ==
  /\ t \in Open
  /\ expired' = expired \union {t}
  /\ UNCHANGED <<accountVars, factorVars, tokens, sessions, made, statement, job,
                 started>>

\* The SELECT at the start of verifyEmailWithToken, resetPasswordWithToken and
\* of the second half of a login.
ReadToken(r, t, next) ==
  /\ t \in Open
  /\ job' = [job EXCEPT ![r].token = t]
  /\ GoOn(r, next)

\* The UPDATE ... WHERE used_at IS NULL; the expiry is not asked for again.
Claimable(r) == job[r].token \in tokens /\ ~Locked(job[r].token)
ClaimLost(r) == job[r].token \notin tokens

VerifyBegin(r, t) ==
  /\ Begin(r) /\ t.kind = "VERIFY"
  /\ ReadToken(r, t, "verify")
  /\ UNCHANGED <<accountVars, factorVars, tokens, expired, sessions, made>>

Verify(r) ==
  /\ IsAt(r, "verify") /\ Claimable(r) /\ userLock = Nothing
  /\ tokens' = tokens \ {job[r].token}
  /\ verified' = TRUE
  /\ End(r)
  /\ UNCHANGED <<password, settings, userLock, factorVars, expired, sessions,
                 made, started>>
-----------------------------------------------------------------------------
\* login: the user is read and the password compared; without two-factor
\* authentication nothing else is asked for.
LoginRead(r) ==
  /\ Begin(r) /\ verified
  /\ job' = [job EXCEPT ![r].password = password]
  /\ GoOn(r, IF Confirmed = {} THEN "session" ELSE "second factor")
  /\ UNCHANGED <<accountVars, factorVars, tokens, expired, sessions, made>>

\* No code given: challengeForUser.
Challenge(r) ==
  /\ IsAt(r, "second factor")
  /\ tokens' = tokens \union {[kind |-> "CHALLENGE", id |-> made + 1]}
  /\ made' = made + 1
  /\ End(r)
  /\ UNCHANGED <<accountVars, factorVars, expired, sessions, started>>

LoginChallenge(r, t) ==
  /\ IsAt(r, "second factor") /\ t.kind = "CHALLENGE"
  /\ ReadToken(r, t, "login factor")
  /\ UNCHANGED <<accountVars, factorVars, tokens, expired, sessions, made, started>>

\* getConfirmedTotp, before the codes of a login, of 2fa/disable and of
\* 2fa/recovery-codes; a login without one goes on to the recovery codes.
FactorRead(r, asked, next) ==
  /\ IsAt(r, asked)
  /\ \/ \E c \in Confirmed : job' = [job EXCEPT ![r].secret = c.id]
     \/ Confirmed = {} /\ asked = "login factor" /\ UNCHANGED job
  /\ GoOn(r, next)
  /\ UNCHANGED <<accountVars, factorVars, tokens, expired, sessions, made, started>>

\* verifyTotpWithReplay: the code is one of the secret read before; one UPDATE
\* moves last_used_counter of whatever credential is confirmed by now.
Counted(c, n) ==
  /\ n \in now - 1 .. now + 1 /\ c.used < n
  /\ totp' = (totp \ {c}) \union {[c EXCEPT !.used = n]}

SpendTotp(r, n, next) ==
  /\ job[r].secret # Nothing
  /\ \E c \in Confirmed :
       /\ Counted(c, n)
       /\ job' = [job EXCEPT ![r].code = [kind |-> "TOTP", of |-> c.id, n |-> n]]
  /\ GoOn(r, next)
  /\ UNCHANGED <<accountVars, codes, now, tokens, expired, sessions, made, started>>

\* consumeRecoveryCode
SpendRecoveryCode(r, c, next) ==
  /\ c \in codes
  /\ codes' = codes \ {c}
  /\ job' = [job EXCEPT ![r].code = c]
  /\ GoOn(r, next)
  /\ UNCHANGED <<accountVars, totp, now, tokens, expired, sessions, made, started>>

\* Mutant: the challenge is not claimed.
ClaimChallengeMutant(r) ==
  /\ IsAt(r, "claim")
  /\ GoOn(r, "session")
  /\ UNCHANGED <<accountVars, factorVars, tokens, expired, sessions, made, job,
                 started>>

ClaimChallenge(r) ==
  /\ IsAt(r, "claim") /\ Claimable(r)
  /\ tokens' = tokens \ {job[r].token}
  /\ GoOn(r, "session")
  /\ UNCHANGED <<accountVars, factorVars, expired, sessions, made, job, started>>

\* createSession inserts the row; neither the user nor the password is read
\* again.
CreateSession(r) ==
  /\ IsAt(r, "session")
  /\ sessions' = sessions \union
       {[id |-> made + 1, active |-> TRUE, password |-> job[r].password,
         challenge |-> job[r].token, code |-> job[r].code, secret |-> job[r].secret]}
  /\ made' = made + 1
  /\ End(r)
  /\ UNCHANGED <<accountVars, factorVars, tokens, expired, started>>
-----------------------------------------------------------------------------
\* logout and sessions/:id/revoke (revokeSessionById); a session whose time is
\* over is as good as revoked.
EndSession(s) ==
  /\ s \in Active
  /\ sessions' = Revoked({s})
  /\ UNCHANGED <<accountVars, factorVars, tokens, expired, made, statement, job, started>>

\* getCurrentSession: a handler that asks for a session.
WithSession(r, s, next) ==
  /\ Begin(r) /\ s \in Active
  /\ job' = [job EXCEPT ![r].session = s.id]
  /\ GoOn(r, next)
  /\ UNCHANGED <<accountVars, factorVars, tokens, expired, sessions, made>>

\* password/change: loadActiveUser and verifyPassword.
ChangeRead(r) ==
  /\ IsAt(r, "change")
  /\ job' = [job EXCEPT ![r].password = password]
  /\ GoOn(r, "change write")
  /\ UNCHANGED <<accountVars, factorVars, tokens, expired, sessions, made, started>>

\* The new hash is written whatever the password is by now.
ChangeWrite(r) ==
  /\ IsAt(r, "change write") /\ userLock = Nothing
  /\ password' = password + 1
  /\ settings' = Append(settings, [kind |-> "CHANGE", token |-> Nothing,
                                   keep |-> job[r].session, upto |-> 0])
  /\ job' = [job EXCEPT ![r].password = password + 1]
  /\ GoOn(r, "revoke others")
  /\ UNCHANGED <<verified, userLock, factorVars, tokens, expired, sessions, made,
                 started>>

\* Mutant: the sessions of the last login only.
RevokeOthersMutant(r) ==
  /\ IsAt(r, "revoke others")
  /\ sessions' = Revoked({s \in Active : s.id # job[r].session /\ s.id = made})
  /\ settings' = IF job[r].password = 0 THEN settings
                 ELSE [settings EXCEPT ![job[r].password].upto = made]
  /\ End(r)
  /\ UNCHANGED <<verified, password, userLock, factorVars, tokens, expired, made,
                 started>>

\* revokeOtherSessions, after a change of the password or asked for by itself.
RevokeOthers(r) ==
  /\ IsAt(r, "revoke others")
  /\ sessions' = Revoked({s \in Active : s.id # job[r].session})
  /\ settings' = IF job[r].password = 0 THEN settings
                 ELSE [settings EXCEPT ![job[r].password].upto = made]
  /\ End(r)
  /\ UNCHANGED <<verified, password, userLock, factorVars, tokens, expired, made,
                 started>>

ResetBegin(r, t) ==
  /\ Begin(r) /\ t.kind = "RESET"
  /\ ReadToken(r, t, "reset")
  /\ UNCHANGED <<accountVars, factorVars, tokens, expired, sessions, made>>

\* resetPasswordWithToken: the token is claimed, the hash written and the
\* sessions there are revoked; none of it is seen before the commit.
ResetWrite(r) ==
  /\ IsAt(r, "reset") /\ Claimable(r) /\ userLock = Nothing
  /\ userLock' = r
  /\ job' = [job EXCEPT ![r].upto = made]
  /\ GoOn(r, "reset locked")
  /\ UNCHANGED <<verified, password, settings, factorVars, tokens, expired,
                 sessions, made, started>>

ResetCommit(r) ==
  /\ IsAt(r, "reset locked")
  /\ tokens' = tokens \ {job[r].token}
  /\ password' = password + 1
  /\ settings' = Append(settings, [kind |-> "RESET", token |-> job[r].token,
                                   keep |-> Nothing, upto |-> job[r].upto])
  /\ sessions' = Revoked({s \in Active : s.id <= job[r].upto})
  /\ userLock' = Nothing
  /\ End(r)
  /\ UNCHANGED <<verified, factorVars, expired, made, started>>

\* A token another request has claimed first: the handler refuses.
ClaimRefused(r) ==
  /\ statement[r] \in {"verify", "claim", "reset"} /\ ClaimLost(r)
  /\ End(r)
  /\ UNCHANGED <<accountVars, factorVars, tokens, expired, sessions, made, started>>
-----------------------------------------------------------------------------
\* 2fa/setup: refused when enabled; an abandoned set-up is deleted first.
SetupRead(r) ==
  /\ IsAt(r, "setup") /\ Confirmed = {}
  /\ GoOn(r, IF Pending = {} THEN "setup insert" ELSE "setup delete")
  /\ UNCHANGED <<accountVars, factorVars, tokens, expired, sessions, made, job,
                 started>>

SetupDelete(r) ==
  /\ IsAt(r, "setup delete")
  /\ totp' = {}
  /\ GoOn(r, "setup insert")
  /\ UNCHANGED <<accountVars, codes, now, tokens, expired, sessions, made, job,
                 started>>

\* startTotpSetup; the table has one row for a user.
SetupInsert(r) ==
  /\ IsAt(r, "setup insert") /\ totp = {}
  /\ totp' = {[id |-> made + 1, confirmed |-> FALSE, used |-> -1]}
  /\ made' = made + 1
  /\ End(r)
  /\ UNCHANGED <<accountVars, codes, now, tokens, expired, sessions, started>>

\* 2fa/confirm: the code is compared with the secret read here ...
ConfirmRead(r) ==
  /\ IsAt(r, "confirm") /\ Pending # {}
  /\ \E c \in Pending : job' = [job EXCEPT ![r].secret = c.id]
  /\ GoOn(r, "confirm write")
  /\ UNCHANGED <<accountVars, factorVars, tokens, expired, sessions, made, started>>

\* ... and whatever set-up is pending by now is confirmed (confirmTotp).
ConfirmWrite(r) ==
  /\ IsAt(r, "confirm write") /\ Pending # {}
  /\ totp' = {[c EXCEPT !.confirmed = TRUE] : c \in totp}
  /\ GoOn(r, "codes delete")
  /\ UNCHANGED <<accountVars, codes, now, tokens, expired, sessions, made, job,
                 started>>

\* replaceRecoveryCodes: a DELETE and ten INSERTs, each by itself.
CodesDelete(r) ==
  /\ IsAt(r, "codes delete")
  /\ codes' = {}
  /\ made' = made + 1
  /\ job' = [job EXCEPT ![r].upto = made + 1, ![r].left = CodesPerBatch]
  /\ GoOn(r, "codes insert")
  /\ UNCHANGED <<accountVars, totp, now, tokens, expired, sessions, started>>

CodesInsert(r) ==
  /\ IsAt(r, "codes insert")
  /\ codes' = codes \union
       {[kind |-> "RECOVERY", batch |-> job[r].upto, no |-> job[r].left]}
  /\ IF job[r].left = 1 THEN End(r)
     ELSE job' = [job EXCEPT ![r].left = @ - 1] /\ UNCHANGED statement
  /\ UNCHANGED <<accountVars, totp, now, tokens, expired, sessions, made, started>>

\* disableTotp: the credential, then the codes.
DisableTotp(r) ==
  /\ IsAt(r, "disable")
  /\ totp' = {}
  /\ GoOn(r, "disable codes")
  /\ UNCHANGED <<accountVars, codes, now, tokens, expired, sessions, made, job,
                 started>>

DisableCodes(r) ==
  /\ IsAt(r, "disable codes")
  /\ codes' = {}
  /\ End(r)
  /\ UNCHANGED <<accountVars, totp, now, tokens, expired, sessions, made, started>>
-----------------------------------------------------------------------------
\* A wrong or used code, a set-up that is there already or no longer pending, a
\* statement that fails: what was done before stays done, except that the
\* transaction of a reset rolls back.
Fail(r) ==
  /\ ~IsAt(r, "idle")
  /\ userLock' = IF userLock = r THEN Nothing ELSE userLock
  /\ End(r)
  /\ UNCHANGED <<verified, password, settings, factorVars, tokens, expired,
                 sessions, made, started>>

ProcessDies ==
  /\ \E r \in Handlers : ~IsAt(r, "idle")
  /\ statement' = [r \in Handlers |-> "idle"]
  /\ job' = [r \in Handlers |-> NoJob]
  /\ userLock' = Nothing
  /\ UNCHANGED <<verified, password, settings, factorVars, tokens, expired,
                 sessions, made, started>>

Tick ==
  /\ now < MaxTime /\ now' = now + 1
  /\ UNCHANGED <<accountVars, totp, codes, tokens, expired, sessions, made, statement,
                 job, started>>

Spend(r) ==
  \E pair \in {<<"login code", "claim">>, <<"disable code", "disable">>,
               <<"recover code", "codes delete">>} :
    /\ IsAt(r, pair[1])
    /\ \/ \E n \in 0 .. MaxTime + 1 : SpendTotp(r, n, pair[2])
       \/ pair[1] # "recover code" /\ \E c \in codes : SpendRecoveryCode(r, c, pair[2])

LoginStep(r) ==
  \/ \E kind \in {"VERIFY", "RESET"} : IssueToken(r, kind)
  \/ \E t \in tokens : VerifyBegin(r, t) \/ ResetBegin(r, t) \/ LoginChallenge(r, t)
  \/ Verify(r) \/ ResetWrite(r) \/ ResetCommit(r) \/ ClaimRefused(r)
  \/ LoginRead(r) \/ Challenge(r) \/ Spend(r) \/ ClaimChallenge(r)
  \/ CreateSession(r)
  \/ \E s \in sessions, p \in {"change", "revoke others", "setup", "confirm",
                               "disable read", "recover read"} : WithSession(r, s, p)
  \/ ChangeRead(r) \/ ChangeWrite(r) \/ RevokeOthers(r)
  \/ SetupRead(r) \/ SetupDelete(r) \/ SetupInsert(r)
  \/ ConfirmRead(r) \/ ConfirmWrite(r) \/ CodesDelete(r) \/ CodesInsert(r)
  \/ FactorRead(r, "login factor", "login code")
  \/ FactorRead(r, "disable read", "disable code")
  \/ FactorRead(r, "recover read", "recover code")
  \/ DisableTotp(r) \/ DisableCodes(r)
  \/ Fail(r)

LoginNext ==
  \/ \E r \in Handlers : LoginStep(r)
  \/ \E t \in tokens : Expire(t)
  \/ \E s \in sessions : EndSession(s)
  \/ ProcessDies \/ Tick

LoginSpec == LoginInit /\ [][LoginNext]_loginVars
-----------------------------------------------------------------------------
\* What was typed: a recovery code, or the code of a secret for a counter.
Typed(s) == IF s.code.kind = "TOTP" THEN [s.code EXCEPT !.of = s.secret] ELSE s.code

\* The credential whose secret was read is not the one whose counter moved.
Replaced(s) == s.code.kind = "TOTP" /\ s.code.of # s.secret

\* docs/IDENTITY_SECURITY.md:13 and :21: what is good for one use is used once.
\* No two logins rest on the same challenge, recovery code or code of the
\* authenticator, and no two passwords on the same reset token, however the
\* handlers overlap and wherever one of them stops.  The exception: a login that
\* has read the secret of a credential which is replaced before its UPDATE moves
\* the counter of the new one, and takes a code of the old one once more.
UsedOnce ==
  /\ \A s, t \in sessions : s # t /\ s.code # Nothing =>
       /\ s.challenge # t.challenge
       /\ t.code # Nothing /\ Typed(s) = Typed(t) => Replaced(s) \/ Replaced(t)
  /\ \A i, j \in DOMAIN settings : i # j /\ settings[i].kind = "RESET" =>
       settings[i].token # settings[j].token

\* docs/IDENTITY_SECURITY.md:29: a new password signs the user out.  No session
\* that was there when the sessions were revoked is ever active again, except
\* the one the password was changed from.  (A login on its way at that moment
\* still gets its session: see the README.)
SignedOut ==
  \A s \in Active, i \in DOMAIN settings :
    s.id <= settings[i].upto => s.id = settings[i].keep
=============================================================================
