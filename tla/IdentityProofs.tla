--------------------------- MODULE IdentityProofs ---------------------------
(***************************************************************************)
(* Proofs about Login, for any number of handlers, codes and times, and    *)
(* about Tenants with its AuditTrail, for any number of requests,          *)
(* connections, users and roles.                                           *)
(***************************************************************************)
EXTENDS Login, Tenants, TLAPS

-----------------------------------------------------------------------------
(***************************************************************************)
(* The account of a user.                                                  *)
(***************************************************************************)

RecoveryCode == [kind : {"RECOVERY"}, batch : Nat, no : Int]

Code == [kind : {"TOTP"}, of : Nat, n : Nat] \union RecoveryCode

Statements ==
  {"idle", "verify", "second factor", "login factor", "login code", "claim", "session",
   "change", "change write", "revoke others", "reset", "reset locked",
   "setup", "setup delete", "setup insert", "confirm", "confirm write",
   "codes delete", "codes insert", "disable read", "disable code", "disable",
   "disable codes", "recover read", "recover code"}

\* Phases in which a request holds something that nobody else may have.
Guarded == {"claim", "session", "codes insert", "reset locked", "revoke others"}

Job ==
  [password : Nat, token : Token \union {Nothing}, code : Code \union {Nothing},
   session : Nat \union {Nothing}, secret : Nat \union {Nothing}, upto : Nat, left : Int]

Session ==
  [id : Nat \ {0}, active : BOOLEAN, password : Nat, challenge : Token \union {Nothing},
   code : Code \union {Nothing}, secret : Nat \union {Nothing}]

Setting ==
  [kind : {"CHANGE", "RESET"}, token : Token \union {Nothing},
   keep : Nat \union {Nothing}, upto : Nat]

Credential == [id : Nat, confirmed : BOOLEAN, used : Int]

LoginTypes ==
  /\ password \in Nat /\ made \in Nat /\ now \in Nat
  /\ settings \in Seq(Setting) /\ Len(settings) = password
  /\ totp \subseteq Credential
  /\ codes \subseteq RecoveryCode
  /\ tokens \subseteq Token
  /\ sessions \subseteq Session
  /\ statement \in [Handlers -> Statements]
  /\ job \in [Handlers -> Job]
  /\ \A r \in Handlers : statement[r] = "idle" => job[r] = NoJob

\* Whatever has been given out bears a number that has been reached.
Numbered ==
  /\ \A t \in tokens : t.id <= made
  /\ \A c \in totp : c.id <= made
  /\ \A s \in sessions : s.id <= made
  /\ \A r \in Handlers : job[r].token # Nothing => job[r].token.id <= made
  /\ \A r \in Handlers : job[r].upto <= made

OneCredential == \A c, d \in totp : c = d
OneRow == \A s, t \in sessions : s.id = t.id => s = t

\* A token that is no longer there and never will be again.
Claimed(t) == t \notin tokens /\ t.id <= made

\* Logins that have claimed their challenge.
ChallengesClaimed ==
  /\ \A s \in sessions :
       /\ s.challenge # Nothing => Claimed(s.challenge)
       /\ s.code # Nothing => s.challenge # Nothing
  /\ \A s, t \in sessions : s.id # t.id => s.challenge = Nothing \/ s.challenge # t.challenge
  /\ \A r \in Handlers : statement[r] = "session" =>
       /\ job[r].token # Nothing => Claimed(job[r].token)
       /\ job[r].code # Nothing => job[r].token # Nothing
       /\ \A s \in sessions : s.challenge = Nothing \/ s.challenge # job[r].token
       /\ \A q \in Handlers : q # r /\ statement[q] = "session" =>
            job[r].token = Nothing \/ job[q].token # job[r].token
  /\ \A r \in Handlers : statement[r] \in {"login factor", "login code", "claim"} => job[r].token # Nothing

\* A recovery code of a batch is there, or behind those being inserted.
Behind(c) ==
  /\ c.batch <= made
  /\ \A r \in Handlers :
       statement[r] = "codes insert" /\ job[r].upto = c.batch => c.no > job[r].left

\* A code that is good for nothing any more.
Spent(c) ==
  IF c.kind = "TOTP"
    THEN c.of <= made /\ \A d \in totp : d.id = c.of => d.used >= c.n
    ELSE c \notin codes /\ Behind(c)

Inserting ==
  /\ \A c \in codes : Behind(c)
  /\ \A r, q \in Handlers :
       r # q /\ statement[r] = "codes insert" /\ statement[q] = "codes insert" =>
         job[r].upto # job[q].upto

\* Codes that logins rest on or are about to.
CodesSpent ==
  /\ \A s \in sessions : s.code # Nothing => Spent(s.code)
  /\ \A s, t \in sessions : s.id # t.id => s.code = Nothing \/ s.code # t.code
  /\ \A r \in Handlers : statement[r] \in {"claim", "session"} =>
       /\ job[r].code # Nothing => Spent(job[r].code)
       /\ \A s \in sessions : s.code = Nothing \/ s.code # job[r].code
       /\ \A q \in Handlers : q # r /\ statement[q] \in {"claim", "session"} =>
            job[r].code = Nothing \/ job[q].code # job[r].code

\* The transaction of a reset keeps its token from the others.
ResetHolds ==
  \A r \in Handlers : statement[r] = "reset locked" =>
    userLock = r /\ job[r].token \in tokens

ResetsClaimed ==
  /\ \A i \in DOMAIN settings :
       settings[i].kind = "RESET" =>
         settings[i].token \in Token /\ Claimed(settings[i].token)
  /\ \A i \in DOMAIN settings : settings[i].kind = "CHANGE" => settings[i].token = Nothing
  /\ \A i, j \in DOMAIN settings : i # j /\ settings[i].kind = "RESET" =>
       settings[i].token # settings[j].token

\* Who revokes after a change knows which change it was.
Revoking ==
  /\ \A i \in DOMAIN settings : settings[i].upto <= made
  /\ \A r \in Handlers : statement[r] = "revoke others" /\ job[r].password # 0 =>
       /\ job[r].password \in DOMAIN settings
       /\ settings[job[r].password].keep = job[r].session

LoginInv ==
  /\ LoginTypes /\ Numbered /\ OneCredential /\ OneRow
  /\ ChallengesClaimed /\ Inserting /\ CodesSpent
  /\ ResetHolds /\ ResetsClaimed /\ Revoking /\ SignedOut
-----------------------------------------------------------------------------
(***************************************************************************)
(* What a step may do to the tables, to the sessions and to the requests   *)
(* without disturbing what the others rely on.                             *)
(***************************************************************************)

\* The next row of a batch of recovery codes.
BeingInserted(c) ==
  \E r \in Handlers :
    statement[r] = "codes insert" /\ c.batch = job[r].upto /\ c.no = job[r].left

\* Tokens, codes and credentials that are there were there or are new, and a
\* credential does not forget.
Tables ==
  /\ made' \in Nat /\ made <= made'
  /\ tokens' \subseteq Token
  /\ \A t \in tokens' : t \in tokens \/ (t.id > made /\ t.id <= made')
  /\ \A c \in codes' : c \in codes \/ BeingInserted(c)
  /\ totp' \subseteq Credential
  /\ \A c, d \in totp' : c = d
  /\ \A c \in totp' :
       \/ c.id > made /\ c.id <= made'
       \/ \E d \in totp : d.id = c.id /\ d.used <= c.used

\* Sessions only end.
Dwindle ==
  /\ sessions' \subseteq Session
  /\ \A s, t \in sessions' : s.id = t.id => s = t
  /\ \A s \in sessions' : \E u \in sessions :
       /\ u.id = s.id /\ u.challenge = s.challenge /\ u.code = s.code
       /\ s.active => s = u

\* A request stays where it is or goes where it holds nothing.
Harmless(r) ==
  \/ statement'[r] = statement[r] /\ job'[r] = job[r]
  \/ /\ statement'[r] \notin Guarded
     /\ statement'[r] = "idle" => job'[r] = NoJob
     /\ statement'[r] \in {"login factor", "login code"} => job'[r].token # Nothing
     /\ job'[r].token # Nothing => job'[r].token.id <= made'
     /\ job'[r].upto <= made'

\* Where the requests go.
Located ==
  /\ statement' \in [Handlers -> Statements]
  /\ job' \in [Handlers -> Job]
  /\ \A r \in Handlers : Harmless(r)
  /\ ResetHolds'

Uneventful ==
  /\ Tables /\ Located
  /\ codes' \subseteq codes
  /\ now' \in Nat /\ UNCHANGED <<sessions, settings, password>>

Same(r) == statement'[r] = statement[r] /\ job'[r] = job[r]

\* Batches are inserted from the last code to the first.
Inserts(r) ==
  statement'[r] = "codes insert" =>
    \/ job'[r].upto > made
    \/ /\ statement[r] = "codes insert" /\ job'[r].upto = job[r].upto
       /\ job'[r].left <= job[r].left

LEMMA NoneTypes == Nothing \notin Handlers /\ Nothing \notin Token /\ Nothing \notin Nat
BY LoginAssumption

LEMMA AtMost == \A a, b, c \in Nat : a <= b /\ b <= c => a <= c
OBVIOUS

LEMMA AtLeast == \A a \in Nat, b, c \in Int : b >= a /\ b <= c => c >= a
OBVIOUS

LEMMA Self == \A a \in Int : a <= a /\ ~(a > a)
OBVIOUS

LEMMA Above == \A a, b, c \in Int : a > b /\ c <= b => a > c
OBVIOUS

LEMMA Beyond == \A a, b \in Nat : a <= b => ~(b + 1 <= a)
OBVIOUS

LEMMA Successor == \A n \in Nat : n + 1 \in Nat
OBVIOUS

LEMMA Positive == \A a \in Nat \ {0} : ~(a <= 0)
OBVIOUS

LEMMA NotNegative == \A n \in Int : n >= 0 => n \in Nat
OBVIOUS

LEMMA Integral == \A n \in Nat : n \in Int
OBVIOUS

LEMMA Upto == \A m \in Nat : \A n \in 0 .. m + 1 : n \in Nat
OBVIOUS

LEMMA Below == \A a, b \in Int : a < b => a <= b /\ ~(a >= b) /\ b >= b
OBVIOUS

LEMMA NotAbove == \A a, b \in Nat : a <= b => ~(a > b)
OBVIOUS

LEMMA SettingTypes ==
  ASSUME LoginTypes
  PROVE  /\ DOMAIN settings = 1 .. password
         /\ \A i \in DOMAIN settings : settings[i] \in Setting
BY DEF LoginTypes

\* What is claimed or spent stays so.
LEMMA ClaimedStays ==
  ASSUME LoginInv, Tables
  PROVE  \A t \in Token : Claimed(t) => Claimed(t)'
BY DEF LoginInv, LoginTypes, Tables, Claimed, Token

LEMMA BehindStays ==
  ASSUME LoginInv, Tables, \A r \in Handlers : Inserts(r), job' \in [Handlers -> Job],
         NEW c \in Code, c.kind = "RECOVERY", Behind(c)
  PROVE  Behind(c)'
<1> c.batch \in Nat /\ c.no \in Int
  BY DEF Code, RecoveryCode
<1> made \in Nat /\ made' \in Nat /\ made <= made'
  BY DEF LoginInv, LoginTypes, Tables
<1>1. c.batch <= made
  BY DEF Behind
<1>2. c.batch <= made'
  BY <1>1, AtMost
<1>3. ASSUME NEW r \in Handlers, statement'[r] = "codes insert", job'[r].upto = c.batch
      PROVE  c.no > job'[r].left
  <2>1. ~(c.batch > made)
    BY <1>1, NotAbove
  <2>2. /\ statement[r] = "codes insert" /\ job[r].upto = c.batch
        /\ job'[r].left <= job[r].left
    BY <1>3, <2>1 DEF Inserts
  <2>3. c.no > job[r].left
    BY <2>2 DEF Behind
  <2>4. job[r].left \in Int /\ job'[r].left \in Int
    BY DEF LoginInv, LoginTypes, Job
  <2> QED BY <2>2, <2>3, <2>4, Above
<1> QED BY <1>2, <1>3 DEF Behind

LEMMA SpentStays ==
  ASSUME LoginInv, Tables, \A r \in Handlers : Inserts(r), job' \in [Handlers -> Job]
  PROVE  \A c \in Code : Spent(c) => Spent(c)'
<1> SUFFICES ASSUME NEW c \in Code, Spent(c)
             PROVE  Spent(c)'
  OBVIOUS
<1>1. CASE c.kind = "TOTP"
  <2>1. c.of \in Nat /\ c.n \in Nat
    BY <1>1 DEF Code, RecoveryCode
  <2>2. c.of <= made'
    BY <1>1, <2>1, AtMost DEF LoginInv, LoginTypes, Tables, Spent
  <2>3. ASSUME NEW d \in totp', d.id = c.of
        PROVE  d.used >= c.n
    <3>1. ~(d.id > made)
      <4>1. c.of <= made /\ c.of \in Nat /\ made \in Nat
        BY <1>1, <2>1 DEF LoginInv, LoginTypes, Spent
      <4> QED BY <2>3, <4>1, NotAbove
    <3>2. PICK e \in totp : e.id = d.id /\ e.used <= d.used
      BY <3>1 DEF Tables
    <3>3. e.used >= c.n
      BY <1>1, <2>3, <3>2 DEF Spent
    <3>4. e.used \in Int /\ d.used \in Int
      BY DEF LoginInv, LoginTypes, Tables, Credential
    <3> QED BY <2>1, <3>2, <3>3, <3>4, AtLeast
  <2> QED BY <1>1, <2>2, <2>3 DEF Spent
<1>2. CASE c.kind # "TOTP"
  <2>1. c.kind = "RECOVERY" /\ c.no \in Int /\ c \notin codes /\ Behind(c)
    BY <1>2 DEF Spent, Code, RecoveryCode
  <2>2. ~BeingInserted(c)
    <3> SUFFICES ASSUME NEW r \in Handlers, statement[r] = "codes insert",
                        c.batch = job[r].upto, c.no = job[r].left
                 PROVE  FALSE
      BY DEF BeingInserted
    <3>1. c.no > c.no
      BY <2>1 DEF Behind
    <3> QED BY <2>1, <3>1, Self
  <2> QED BY <1>2, <2>1, <2>2, BehindStays DEF Tables, Spent
<1> QED BY <1>1, <1>2

\* A login takes a challenge that was still there, or needs none.
Claims(r) ==
  statement'[r] = "session" =>
    \/ Same(r)
    \/ job'[r].token = Nothing /\ job'[r].code = Nothing
    \/ /\ \E t \in tokens : t = job'[r].token /\ t \notin tokens'
       /\ \A q \in Handlers : q # r /\ statement'[q] = "session" => Same(q)

LEMMA ChallengesStay ==
  ASSUME LoginInv, Tables, Dwindle, \A r \in Handlers : Claims(r),
         \A r \in Handlers : statement'[r] \in {"login factor", "login code", "claim"} => job'[r].token # Nothing
  PROVE  ChallengesClaimed'
<1>1. sessions \subseteq Session /\ \A r \in Handlers : job[r] \in Job
  BY DEF LoginInv, LoginTypes
<1>2. ASSUME NEW s \in sessions'
      PROVE  /\ s.challenge # Nothing => Claimed(s.challenge)'
             /\ s.code # Nothing => s.challenge # Nothing
             /\ s.challenge \notin tokens
  <2>1. PICK u \in sessions : u.challenge = s.challenge /\ u.code = s.code
    BY DEF Dwindle
  <2>2. u.challenge # Nothing => u.challenge \in Token /\ Claimed(u.challenge)
    BY <1>1 DEF LoginInv, ChallengesClaimed, Session
  <2>3. u.challenge # Nothing => Claimed(u.challenge)'
    BY <2>2, ClaimedStays
  <2>4. u.challenge \notin tokens
    BY <2>2, NoneTypes DEF Claimed, LoginInv, LoginTypes
  <2> QED BY <2>1, <2>3, <2>4 DEF LoginInv, ChallengesClaimed
<1>3. ASSUME NEW s \in sessions', NEW t \in sessions', s.id # t.id
      PROVE  s.challenge = Nothing \/ s.challenge # t.challenge
  <2>1. PICK u \in sessions : u.id = s.id /\ u.challenge = s.challenge
    BY DEF Dwindle
  <2>2. PICK v \in sessions : v.id = t.id /\ v.challenge = t.challenge
    BY DEF Dwindle
  <2> QED BY <1>3, <2>1, <2>2 DEF LoginInv, ChallengesClaimed
<1>4. ASSUME NEW r \in Handlers, statement'[r] = "session"
      PROVE  /\ job'[r].token # Nothing => Claimed(job[r].token)'
             /\ job'[r].code # Nothing => job'[r].token # Nothing
             /\ \A s \in sessions' : s.challenge = Nothing \/ s.challenge # job'[r].token
  <2>1. CASE Same(r)
    <3>1. statement[r] = "session" /\ job'[r] = job[r]
      BY <1>4, <2>1 DEF Same
    <3>2. ASSUME NEW s \in sessions'
          PROVE  s.challenge = Nothing \/ s.challenge # job'[r].token
      <4>1. PICK u \in sessions : u.challenge = s.challenge
        BY DEF Dwindle
      <4> QED BY <3>1, <4>1 DEF LoginInv, ChallengesClaimed
    <3>3. ASSUME job[r].token # Nothing
          PROVE  Claimed(job[r].token)'
      <4>1. PICK t \in Token : t = job[r].token /\ Claimed(t)
        BY <1>1, <3>1, <3>3 DEF LoginInv, ChallengesClaimed, Job
      <4> QED BY <3>1, <4>1, ClaimedStays DEF Claimed
    <3> QED BY <3>1, <3>2, <3>3 DEF LoginInv, ChallengesClaimed
  <2>2. CASE job'[r].token = Nothing /\ job'[r].code = Nothing
    BY <2>2
  <2>3. CASE \E t \in tokens : t = job'[r].token /\ t \notin tokens'
    <3>1. PICK t \in tokens : t = job'[r].token /\ t \notin tokens'
      BY <2>3
    <3>2. t.id \in Nat /\ t.id <= made /\ made \in Nat /\ made' \in Nat /\ made <= made'
      BY DEF LoginInv, LoginTypes, Numbered, Tables, Token
    <3>3. t.id <= made'
      BY <3>2, AtMost
    <3>4. Claimed(job[r].token)'
      BY <3>1, <3>3 DEF Claimed
    <3>5. t \in Token /\ t # Nothing
      BY NoneTypes DEF LoginInv, LoginTypes
    <3> QED BY <1>2, <3>1, <3>4, <3>5
  <2> QED BY <1>4, <2>1, <2>2, <2>3 DEF Claims
<1>5. ASSUME NEW r \in Handlers, NEW q \in Handlers, q # r,
             statement'[r] = "session", statement'[q] = "session"
      PROVE  job'[r].token = Nothing \/ job'[q].token # job'[r].token
  <2>1. ASSUME NEW x \in Handlers, Same(x), statement'[x] = "session"
        PROVE  statement[x] = "session" /\ job'[x] = job[x] /\ job'[x].token \notin tokens
    <3>1. statement[x] = "session" /\ job'[x] = job[x]
      BY <2>1 DEF Same
    <3>2. job[x].token = Nothing \/ job[x].token \notin tokens
      BY <3>1 DEF LoginInv, ChallengesClaimed, Claimed
    <3> QED BY <3>1, <3>2, NoneTypes DEF LoginInv, LoginTypes
  <2>2. CASE Same(r) /\ Same(q)
    BY <1>5, <2>1, <2>2 DEF LoginInv, ChallengesClaimed
  <2>3. CASE job'[r].token = Nothing \/ job'[q].token = Nothing
    BY <2>3
  <2>4. CASE ~Same(r) /\ ~Same(q)
    BY <1>5, <2>3, <2>4 DEF Claims
  <2>5. CASE Same(r) /\ ~Same(q)
    BY <1>5, <2>1, <2>3, <2>5 DEF Claims
  <2>6. CASE ~Same(r) /\ Same(q)
    BY <1>5, <2>1, <2>3, <2>6 DEF Claims
  <2> QED BY <2>2, <2>4, <2>5, <2>6
<1> QED BY <1>2, <1>3, <1>4, <1>5 DEF ChallengesClaimed

LEMMA InsertingStays ==
  ASSUME LoginInv, Tables, codes' \subseteq codes, job' \in [Handlers -> Job],
         \A r \in Handlers : Inserts(r),
         \A r, q \in Handlers :
           r # q /\ statement'[r] = "codes insert" /\ statement'[q] = "codes insert"
            => job'[r].upto # job'[q].upto
  PROVE  Inserting'
<1>1. \A c \in codes' : Behind(c)'
  BY BehindStays DEF LoginInv, LoginTypes, Inserting, Code, RecoveryCode
<1> QED BY <1>1 DEF Inserting

Logins == {"claim", "session"}

\* A login keeps the code it has, or takes one that was not spent and is now.
Spends(r) ==
  statement'[r] \in Logins =>
    \/ statement[r] \in Logins /\ job'[r].code = job[r].code
    \/ job'[r].code = Nothing
    \/ /\ \E c \in Code : c = job'[r].code /\ ~Spent(c) /\ Spent(c)'
       /\ \A q \in Handlers : q # r /\ statement'[q] \in Logins =>
            statement[q] \in Logins /\ job'[q].code = job[q].code

LEMMA CodesStay ==
  ASSUME LoginInv, Tables, Dwindle, \A r \in Handlers : Inserts(r) /\ Spends(r),
         job' \in [Handlers -> Job]
  PROVE  CodesSpent'
<1>1. sessions \subseteq Session /\ \A r \in Handlers : job[r] \in Job
  BY DEF LoginInv, LoginTypes
<1>2. ASSUME NEW s \in sessions'
      PROVE  /\ s.code # Nothing => Spent(s.code)'
             /\ s.code # Nothing => Spent(s.code)
  <2>1. PICK u \in sessions : u.code = s.code
    BY DEF Dwindle
  <2>2. u.code # Nothing => u.code \in Code /\ Spent(u.code)
    BY <1>1 DEF LoginInv, CodesSpent, Session
  <2>3. u.code # Nothing => Spent(u.code)'
    BY <2>2, SpentStays
  <2> QED BY <2>1, <2>2, <2>3
<1>3. ASSUME NEW s \in sessions', NEW t \in sessions', s.id # t.id
      PROVE  s.code = Nothing \/ s.code # t.code
  <2>1. PICK u \in sessions : u.id = s.id /\ u.code = s.code
    BY DEF Dwindle
  <2>2. PICK v \in sessions : v.id = t.id /\ v.code = t.code
    BY DEF Dwindle
  <2> QED BY <1>3, <2>1, <2>2 DEF LoginInv, CodesSpent
<1>4. ASSUME NEW r \in Handlers, statement[r] \in Logins
      PROVE  /\ job[r].code # Nothing => job[r].code \in Code /\ Spent(job[r].code)
             /\ \A s \in sessions' : s.code = Nothing \/ s.code # job[r].code
  BY <1>1, <1>4 DEF LoginInv, CodesSpent, Logins, Job, Dwindle
<1>5. ASSUME NEW r \in Handlers, statement'[r] \in Logins
      PROVE  /\ job'[r].code # Nothing => Spent(job[r].code)'
             /\ \A s \in sessions' : s.code = Nothing \/ s.code # job'[r].code
  <2>1. CASE statement[r] \in Logins /\ job'[r].code = job[r].code
    <3>1. ASSUME job'[r].code # Nothing
          PROVE  Spent(job[r].code)'
      <4>1. PICK c \in Code : c = job[r].code /\ Spent(c)
        BY <1>4, <2>1, <3>1
      <4>2. Spent(c)' /\ c = job'[r].code
        BY <2>1, <4>1, SpentStays
      <4> QED BY <4>2 DEF Spent
    <3> QED BY <1>4, <2>1, <3>1
  <2>2. CASE job'[r].code = Nothing
    BY <2>2
  <2>3. CASE \E c \in Code : c = job'[r].code /\ ~Spent(c) /\ Spent(c)'
    <3>1. PICK c \in Code : c = job'[r].code /\ ~Spent(c) /\ Spent(c)'
      BY <2>3
    <3>2. Spent(job[r].code)'
      BY <3>1 DEF Spent
    <3>3. \A s \in sessions' : s.code = Nothing \/ s.code # c
      BY <1>2, <3>1
    <3> QED BY <3>1, <3>2, <3>3
  <2> QED BY <1>5, <2>1, <2>2, <2>3 DEF Spends
<1>6. ASSUME NEW r \in Handlers, NEW q \in Handlers, q # r,
             statement'[r] \in Logins, statement'[q] \in Logins
      PROVE  job'[r].code = Nothing \/ job'[q].code # job'[r].code
  <2> DEFINE Keeps(x) == statement[x] \in Logins /\ job'[x].code = job[x].code
             Takes(x) == \E c \in Code : c = job'[x].code /\ ~Spent(c)
  <2>1. CASE Keeps(r) /\ Keeps(q)
    BY <1>6, <2>1 DEF LoginInv, CodesSpent, Logins
  <2>2. CASE job'[r].code = Nothing \/ job'[q].code = Nothing
    BY <2>2
  <2>3. CASE Takes(r) /\ Keeps(q)
    BY <1>4, <2>2, <2>3
  <2>4. CASE Keeps(r) /\ Takes(q)
    BY <1>4, <2>2, <2>4
  <2> QED BY <1>6, <2>1, <2>2, <2>3, <2>4 DEF Spends
<1> QED BY <1>2, <1>3, <1>5, <1>6 DEF CodesSpent, Logins

LEMMA ResetsStay ==
  ASSUME LoginInv, Tables, settings' = settings
  PROVE  ResetsClaimed'
BY ClaimedStays DEF LoginInv, ResetsClaimed

LEMMA RevokingStays ==
  ASSUME LoginInv, Tables, settings' = settings,
         \A r \in Handlers : statement'[r] = "revoke others" => Same(r) \/ job'[r].password = 0
  PROVE  Revoking'
<1>1. \A i \in DOMAIN settings : settings[i].upto \in Nat
  BY SettingTypes DEF LoginInv, Setting
<1>2. made \in Nat /\ made' \in Nat /\ made <= made'
  BY DEF LoginInv, LoginTypes, Tables
<1>3. ASSUME NEW i \in DOMAIN settings
      PROVE  settings[i].upto <= made'
  <2>1. settings[i].upto \in Nat /\ settings[i].upto <= made
    BY <1>1 DEF LoginInv, Revoking
  <2> QED BY <1>2, <2>1, AtMost
<1> QED BY <1>3 DEF LoginInv, Revoking, Same

LEMMA NumbersStay ==
  ASSUME LoginInv, Tables, \A s \in sessions' : s.id <= made',
         \A r \in Handlers :
           \/ job'[r] = job[r]
           \/ /\ job'[r].token # Nothing => job'[r].token.id <= made'
              /\ job'[r].upto <= made'
  PROVE  Numbered'
<1>1. made \in Nat /\ made' \in Nat /\ made <= made'
  BY DEF LoginInv, LoginTypes, Tables
<1>2. \A t \in tokens' : t.id <= made'
  <2> SUFFICES ASSUME NEW t \in tokens, t.id \in Nat
               PROVE  t.id <= made'
    BY DEF Tables, Token, LoginInv, LoginTypes
  <2>1. t.id <= made
    BY DEF LoginInv, Numbered
  <2> QED BY <1>1, <2>1, AtMost
<1>3. \A c \in totp' : c.id <= made'
  <2> SUFFICES ASSUME NEW c \in totp, c.id \in Nat
               PROVE  c.id <= made'
    BY DEF Tables, Credential, LoginInv, LoginTypes
  <2>1. c.id <= made
    BY DEF LoginInv, Numbered
  <2> QED BY <1>1, <2>1, AtMost
<1>4. ASSUME NEW r \in Handlers, job'[r] = job[r]
      PROVE  /\ job[r].token # Nothing => job[r].token.id <= made'
             /\ job[r].upto <= made'
  <2>1. /\ job[r].upto \in Nat
        /\ job[r].token # Nothing => job[r].token.id \in Nat
    BY DEF LoginInv, LoginTypes, Job, Token
  <2>2. /\ job[r].token # Nothing => job[r].token.id <= made
        /\ job[r].upto <= made
    BY DEF LoginInv, Numbered
  <2> QED BY <1>1, <2>1, <2>2, AtMost
<1> QED BY <1>2, <1>3, <1>4 DEF Numbered

\* What a step may do to a request that is not left alone.
Decent(r) ==
  /\ Inserts(r) /\ Claims(r) /\ Spends(r)
  /\ statement'[r] = "idle" => job'[r] = NoJob
  /\ statement'[r] \in {"login factor", "login code", "claim"} => job'[r].token # Nothing
  /\ \/ job'[r] = job[r]
     \/ /\ job'[r].token # Nothing => job'[r].token.id <= made'
        /\ job'[r].upto <= made'

Proper(r) ==
  /\ Decent(r)
  /\ statement'[r] = "revoke others" => Same(r) \/ job'[r].password = 0

LEMMA SameIsProper ==
  ASSUME LoginInv, NEW r \in Handlers, Same(r)
  PROVE  Proper(r)
<1>1. Inserts(r)
  BY Self DEF LoginInv, LoginTypes, Job, Same, Inserts
<1>2. Claims(r) /\ Spends(r)
  BY DEF Same, Claims, Spends
<1> QED BY <1>1, <1>2 DEF LoginInv, LoginTypes, ChallengesClaimed, Same, Proper, Decent

BatchesApart ==
  \A r, q \in Handlers : r # q /\ statement[r] = "codes insert" /\ statement[q] = "codes insert" =>
    job[r].upto # job[q].upto

\* A step that writes no session: what does not depend on the passwords.
LEMMA RestKeeps ==
  ASSUME LoginInv, Tables, Dwindle, job' \in [Handlers -> Job],
         \A r \in Handlers : Decent(r)
  PROVE  /\ Numbered' /\ OneCredential' /\ OneRow'
         /\ ChallengesClaimed' /\ CodesSpent'
<1>1. ChallengesClaimed' /\ CodesSpent'
  BY ChallengesStay, CodesStay DEF Decent
<1>2. \A s \in sessions' : s.id <= made'
  <2> SUFFICES ASSUME NEW s \in sessions, s.id \in Nat
               PROVE  s.id <= made'
    BY DEF Dwindle, Session, LoginInv, LoginTypes
  <2>1. made \in Nat /\ made' \in Nat /\ made <= made' /\ s.id <= made
    BY DEF LoginInv, LoginTypes, Numbered, Tables
  <2> QED BY <2>1, AtMost
<1>3. Numbered'
  BY <1>2, NumbersStay DEF Decent
<1> QED BY <1>1, <1>3 DEF OneCredential, OneRow, Tables, Dwindle

\* The same for one that sets no password either.
LEMMA StepKeepsButCodes ==
  ASSUME LoginInv, Tables, Dwindle, codes' \subseteq RecoveryCode, now' \in Nat,
         UNCHANGED <<settings, password>>,
         statement' \in [Handlers -> Statements], job' \in [Handlers -> Job],
         \A r \in Handlers : Proper(r), Inserting', ResetHolds'
  PROVE  LoginInv'
<1>1. \A r \in Handlers : Decent(r)
  BY DEF Proper
<1>2. ResetsClaimed' /\ Revoking'
  BY ResetsStay, RevokingStays DEF Proper
<1>3. LoginTypes'
  BY <1>1 DEF LoginInv, LoginTypes, Tables, Dwindle, Decent
<1>4. SignedOut'
  BY DEF LoginInv, SignedOut, Active, Dwindle
<1> QED
  BY <1>1, <1>2, <1>3, <1>4, RestKeeps DEF LoginInv

\* And no recovery code.
LEMMA StepKeeps ==
  ASSUME LoginInv, Tables, Dwindle, codes' \subseteq codes, now' \in Nat,
         UNCHANGED <<settings, password>>,
         statement' \in [Handlers -> Statements], job' \in [Handlers -> Job],
         \A r \in Handlers : Proper(r), BatchesApart', ResetHolds'
  PROVE  LoginInv'
<1>1. Inserting'
  BY InsertingStays DEF Proper, Decent, BatchesApart
<1>2. codes' \subseteq RecoveryCode
  BY DEF LoginInv, LoginTypes
<1> QED BY <1>1, <1>2, StepKeepsButCodes

LEMMA SameSessions ==
  ASSUME LoginInv, sessions' = sessions
  PROVE  Dwindle
BY DEF LoginInv, LoginTypes, OneRow, Dwindle

LEMMA UneventfulKeeps ==
  ASSUME LoginInv, Uneventful
  PROVE  LoginInv'
<1>1. Tables /\ Located /\ Dwindle
  BY SameSessions DEF Uneventful
<1>2. \A r \in Handlers : statement'[r] \in Guarded => Same(r)
  BY <1>1 DEF Located, Harmless, Same
<1>3. ASSUME NEW r \in Handlers
      PROVE  Proper(r)
  <2>1. CASE Same(r)
    BY <2>1, SameIsProper
  <2>2. CASE ~Same(r)
    <3>1. statement'[r] \notin Guarded
      BY <1>2, <2>2
    <3>2. Inserts(r) /\ Claims(r) /\ Spends(r)
      BY <3>1 DEF Guarded, Inserts, Claims, Spends, Logins
    <3>3. Harmless(r)
      BY <1>1 DEF Located
    <3> QED BY <2>2, <3>1, <3>2, <3>3 DEF Harmless, Proper, Decent, Same, Guarded
  <2> QED BY <2>1, <2>2
<1>4. BatchesApart'
  BY <1>2 DEF LoginInv, Inserting, BatchesApart, Same, Guarded
<1> QED BY <1>1, <1>3, <1>4, StepKeeps DEF Uneventful, Located
-----------------------------------------------------------------------------
LEMMA NoJobType == NoJob \in Job
BY DEF NoJob, Job

\* A request that goes where it holds nothing, with what it has read.
LEMMA HandlerMoves ==
  ASSUME LoginInv, NEW r \in Handlers, NEW p \in Statements \ Guarded, NEW j \in Job,
         statement' = [statement EXCEPT ![r] = p], job' = [job EXCEPT ![r] = j],
         p = "idle" => j = NoJob, p \in {"login factor", "login code"} => j.token # Nothing,
         made' \in Nat, made <= made',
         j.token # Nothing => j.token.id <= made', j.upto <= made'
  PROVE  /\ statement' \in [Handlers -> Statements]
         /\ job' \in [Handlers -> Job]
         /\ \A q \in Handlers : Harmless(q)
         /\ \A q \in Handlers : statement'[q] = "reset locked" =>
              q # r /\ statement[q] = "reset locked" /\ job'[q] = job[q]
<1>1. statement \in [Handlers -> Statements] /\ job \in [Handlers -> Job]
  BY DEF LoginInv, LoginTypes
<1>2. statement'[r] = p /\ job'[r] = j
  BY <1>1
<1>3. \A q \in Handlers : q # r => statement'[q] = statement[q] /\ job'[q] = job[q]
  BY <1>1
<1>4. \A q \in Handlers : Harmless(q)
  BY <1>2, <1>3 DEF Harmless
<1>5. statement' \in [Handlers -> Statements] /\ job' \in [Handlers -> Job]
  BY <1>1
<1> QED BY <1>2, <1>3, <1>4, <1>5 DEF Guarded

\* A request that ends.
LEMMA Ends ==
  ASSUME LoginInv, NEW r \in Handlers, End(r), made' \in Nat, made <= made'
  PROVE  /\ statement' \in [Handlers -> Statements]
         /\ job' \in [Handlers -> Job]
         /\ \A q \in Handlers : Harmless(q)
         /\ \A q \in Handlers : statement'[q] = "reset locked" =>
              q # r /\ statement[q] = "reset locked" /\ job'[q] = job[q]
<1>1. "idle" \in Statements \ Guarded
  BY DEF Statements, Guarded
<1>2. statement' = [statement EXCEPT ![r] = "idle"] /\ job' = [job EXCEPT ![r] = NoJob]
  BY DEF End, GoOn
<1>3. NoJob.token = Nothing /\ NoJob.upto <= made'
  BY DEF NoJob
<1>4. NoJob.token # Nothing => NoJob.token.id <= made'
  BY <1>3
<1> HIDE DEF NoJob
<1> QED BY <1>1, <1>2, <1>3, <1>4, NoJobType, HandlerMoves

LEMMA Unmoved ==
  ASSUME LoginInv, Located,
         UNCHANGED <<sessions, settings, password, tokens, codes, totp, made>>, now' \in Nat
  PROVE  LoginInv'
<1>1. \A c \in totp : c.used <= c.used
  BY DEF LoginInv, LoginTypes, Credential
<1>2. totp \subseteq Credential /\ made \in Nat /\ tokens \subseteq Token
  BY DEF LoginInv, LoginTypes
<1>3. \A c, d \in totp : c = d
  BY DEF LoginInv, OneCredential
<1>4. Uneventful
  BY <1>1, <1>2, <1>3 DEF Uneventful, Tables
<1> QED BY <1>4, UneventfulKeeps

\* What a request must leave to the transactions of resets.
LeavesLocked(r) ==
  \A q \in Handlers : q # r /\ statement[q] = "reset locked" =>
    userLock' = userLock /\ job[q].token \in tokens'

LEMMA Moved ==
  ASSUME LoginInv, NEW r \in Handlers, NEW p \in Statements \ Guarded, NEW j \in Job,
         statement' = [statement EXCEPT ![r] = p], job' = [job EXCEPT ![r] = j],
         p = "idle" => j = NoJob, p \in {"login factor", "login code"} => j.token # Nothing,
         made' \in Nat, made <= made',
         j.token # Nothing => j.token.id <= made', j.upto <= made',
         LeavesLocked(r)
  PROVE  Located
<1>1. /\ statement' \in [Handlers -> Statements]
      /\ job' \in [Handlers -> Job]
      /\ \A q \in Handlers : Harmless(q)
      /\ \A q \in Handlers : statement'[q] = "reset locked" =>
           q # r /\ statement[q] = "reset locked" /\ job'[q] = job[q]
  BY HandlerMoves
<1> QED BY <1>1 DEF Located, LeavesLocked, LoginInv, ResetHolds

LEMMA Ended ==
  ASSUME LoginInv, NEW r \in Handlers, End(r), made' \in Nat, made <= made',
         LeavesLocked(r)
  PROVE  Located
BY Ends DEF Located, LeavesLocked, LoginInv, ResetHolds

\* The next statement of the same handler.
LEMMA Walked ==
  ASSUME LoginInv, NEW r \in Handlers, NEW p \in Statements \ Guarded,
         p \notin {"idle", "login factor", "login code"}, GoOn(r, p), job' = job, made' \in Nat,
         made <= made', LeavesLocked(r)
  PROVE  Located
<1>1. statement' = [statement EXCEPT ![r] = p] /\ job' = [job EXCEPT ![r] = job[r]]
  BY DEF GoOn, LoginInv, LoginTypes
<1>2. job[r] \in Job /\ (job[r].token # Nothing => job[r].token \in Token)
  BY DEF LoginInv, LoginTypes, Job
<1>3. /\ job[r].token # Nothing => job[r].token.id <= made
      /\ job[r].upto <= made
  BY DEF LoginInv, Numbered
<1>4. made \in Nat /\ job[r].upto \in Nat /\ (job[r].token # Nothing => job[r].token.id \in Nat)
  BY <1>2 DEF LoginInv, LoginTypes, Job, Token
<1>5. /\ job[r].token # Nothing => job[r].token.id <= made'
      /\ job[r].upto <= made'
  BY <1>3, <1>4, AtMost
<1> QED BY <1>1, <1>2, <1>5, Moved

LEMMA TablesKept ==
  ASSUME LoginInv
  PROVE  /\ made \in Nat /\ made <= made /\ now \in Nat
         /\ tokens \subseteq Token /\ totp \subseteq Credential
         /\ \A c, d \in totp : c = d
         /\ \A c \in totp : c.id \in Nat /\ c.used \in Int /\ c.used <= c.used
         /\ \A r \in Handlers :
              statement[r] = "reset locked" => userLock = r /\ job[r].token \in tokens
<1>1. \A c \in totp : c.id \in Nat /\ c.used \in Int /\ c.used <= c.used
  BY DEF LoginInv, LoginTypes, Credential
<1>2. made \in Nat /\ made <= made /\ now \in Nat
  BY DEF LoginInv, LoginTypes
<1> QED BY <1>1, <1>2 DEF LoginInv, LoginTypes, OneCredential, ResetHolds

LEMMA NextNumber ==
  ASSUME LoginInv
  PROVE  /\ made \in Nat /\ made + 1 \in Nat
         /\ made <= made + 1 /\ made + 1 > made /\ made + 1 <= made + 1
BY DEF LoginInv, LoginTypes

LEMMA ReadKeeps ==
  ASSUME LoginInv, NEW r \in Handlers, NEW t \in tokens, NEW p \in Statements \ Guarded,
         p # "idle", ReadToken(r, t, p),
         UNCHANGED <<accountVars, factorVars, tokens, sessions, made>>
  PROVE  LoginInv'
<1>1. PICK j \in Job : j = [job[r] EXCEPT !.token = t]
  BY DEF LoginInv, LoginTypes, Job
<1>2. job' = [job EXCEPT ![r] = j] /\ statement' = [statement EXCEPT ![r] = p]
  BY <1>1 DEF ReadToken, GoOn
<1>3. j.token = t /\ j.upto = job[r].upto
  BY <1>1 DEF LoginInv, LoginTypes, Job
<1>4. t.id <= made /\ job[r].upto <= made /\ made' = made
  BY DEF LoginInv, LoginTypes, Numbered
<1>5. LeavesLocked(r)
  BY TablesKept DEF LeavesLocked, accountVars
<1>6. t # Nothing
  BY TablesKept, NoneTypes
<1>7. Located
  BY <1>2, <1>3, <1>4, <1>5, <1>6, Moved, TablesKept
<1> QED BY <1>7, Unmoved, TablesKept DEF accountVars, factorVars

LEMMA IssueKeeps ==
  ASSUME LoginInv, NEW r \in Handlers, NEW kind \in {"VERIFY", "RESET"}, IssueToken(r, kind)
  PROVE  LoginInv'
<1>1. /\ statement' \in [Handlers -> Statements] /\ job' \in [Handlers -> Job]
      /\ \A q \in Handlers : Harmless(q)
  BY DEF LoginInv, LoginTypes, IssueToken, Harmless
<1>2. ResetHolds'
  BY DEF LoginInv, ResetHolds, IssueToken, accountVars
<1>3. [kind |-> kind, id |-> made + 1] \in Token /\ made' = made + 1
  BY NextNumber DEF IssueToken, Token
<1>4. Uneventful
  <2>1. /\ tokens' \subseteq Token
        /\ \A t \in tokens' : t \in tokens \/ (t.id > made /\ t.id <= made')
    <3>1. tokens' = tokens \union {[kind |-> kind, id |-> made + 1]}
      BY DEF IssueToken
    <3>2. [kind |-> kind, id |-> made + 1].id = made + 1
      OBVIOUS
    <3>3. PICK n \in Token : tokens' = tokens \union {n} /\ n.id = made + 1
      BY <1>3, <3>1, <3>2
    <3> QED BY <1>3, <3>3, NextNumber, TablesKept
  <2> QED
    BY <1>1, <1>2, <1>3, <2>1, NextNumber, TablesKept
       DEF IssueToken, Uneventful, Tables, Located, accountVars, factorVars
<1> QED BY <1>4, UneventfulKeeps

LEMMA VerifyKeeps ==
  ASSUME LoginInv, NEW r \in Handlers, Verify(r)
  PROVE  LoginInv'
<1>1. LeavesLocked(r)
  BY TablesKept DEF LeavesLocked, Verify, Claimable, Locked, IsAt
<1>2. Located
  BY <1>1, Ended, TablesKept DEF Verify
<1>3. Uneventful
  BY <1>2, TablesKept DEF Uneventful, Tables, Verify, factorVars
<1> QED BY <1>3, UneventfulKeeps

LEMMA ChallengeKeeps ==
  ASSUME LoginInv, NEW r \in Handlers, Challenge(r)
  PROVE  LoginInv'
<1>1. LeavesLocked(r)
  BY TablesKept DEF LeavesLocked, Challenge, accountVars
<1>2. [kind |-> "CHALLENGE", id |-> made + 1] \in Token /\ made' = made + 1
  BY NextNumber DEF Challenge, Token
<1>3. Located
  BY <1>1, <1>2, Ended, NextNumber DEF Challenge
<1>4. Uneventful
  <2>1. /\ tokens' \subseteq Token
        /\ \A t \in tokens' : t \in tokens \/ (t.id > made /\ t.id <= made')
    <3>1. tokens' = tokens \union {[kind |-> "CHALLENGE", id |-> made + 1]}
      BY DEF Challenge
    <3>2. [kind |-> "CHALLENGE", id |-> made + 1].id = made + 1
      OBVIOUS
    <3>3. PICK n \in Token : tokens' = tokens \union {n} /\ n.id = made + 1
      BY <1>2, <3>1, <3>2
    <3> QED BY <1>2, <3>3, NextNumber, TablesKept
  <2> QED
    BY <1>2, <1>3, <2>1, NextNumber, TablesKept
       DEF Uneventful, Tables, Challenge, accountVars, factorVars
<1> QED BY <1>4, UneventfulKeeps

LEMMA RefuseKeeps ==
  ASSUME LoginInv, NEW r \in Handlers, ClaimRefused(r) \/ Fail(r)
  PROVE  LoginInv'
<1>1. LeavesLocked(r)
  BY TablesKept DEF LeavesLocked, ClaimRefused, Fail, accountVars
<1>2. End(r) /\ UNCHANGED <<sessions, settings, password, tokens, codes, totp, made, now>>
  BY DEF ClaimRefused, Fail, accountVars, factorVars
<1>3. Located
  BY <1>1, <1>2, Ended, TablesKept
<1> QED BY <1>2, <1>3, Unmoved, TablesKept

LEMMA SetupReadKeeps ==
  ASSUME LoginInv, NEW r \in Handlers, SetupRead(r)
  PROVE  LoginInv'
<1>1. LeavesLocked(r)
  BY TablesKept DEF LeavesLocked, SetupRead, accountVars
<1>2. PICK p \in {"setup insert", "setup delete"} : GoOn(r, p)
  BY DEF SetupRead
<1>3. Located
  BY <1>1, <1>2, Walked, TablesKept DEF SetupRead, Statements, Guarded
<1> QED BY <1>3, Unmoved, TablesKept DEF SetupRead, accountVars, factorVars

LEMMA CredentialKeeps ==
  ASSUME LoginInv, NEW r \in Handlers,
         SetupDelete(r) \/ ConfirmWrite(r) \/ DisableTotp(r)
  PROVE  LoginInv'
<1>1. LeavesLocked(r)
  BY TablesKept DEF LeavesLocked, SetupDelete, ConfirmWrite, DisableTotp, accountVars
<1>2. PICK p \in {"setup insert", "codes delete", "disable codes"} : GoOn(r, p)
  BY DEF SetupDelete, ConfirmWrite, DisableTotp
<1>3. UNCHANGED <<accountVars, codes, now, tokens, sessions, made, job>>
  BY DEF SetupDelete, ConfirmWrite, DisableTotp
<1>4. Located
  BY <1>1, <1>2, <1>3, Walked, TablesKept DEF Statements, Guarded
<1>5. totp' = {} \/ totp' = {[c EXCEPT !.confirmed = TRUE] : c \in totp}
  BY DEF SetupDelete, ConfirmWrite, DisableTotp
<1>6. /\ totp' \subseteq Credential
      /\ \A c, d \in totp' : c = d
      /\ \A c \in totp' : \E d \in totp : d.id = c.id /\ d.used <= c.used
  BY <1>5, TablesKept DEF Credential
<1>7. Uneventful
  BY <1>3, <1>4, <1>6, TablesKept DEF Uneventful, Tables, accountVars
<1> QED BY <1>7, UneventfulKeeps

LEMMA SetupInsertKeeps ==
  ASSUME LoginInv, NEW r \in Handlers, SetupInsert(r)
  PROVE  LoginInv'
<1>1. LeavesLocked(r)
  BY TablesKept DEF LeavesLocked, SetupInsert, accountVars
<1>2. made' = made + 1
  BY DEF SetupInsert
<1>3. Located
  BY <1>1, <1>2, Ended, NextNumber DEF SetupInsert
<1>4. /\ totp' \subseteq Credential
      /\ \A c, d \in totp' : c = d
      /\ \A c \in totp' : c.id > made /\ c.id <= made'
  <2>1. PICK n \in Credential : totp' = {n} /\ n.id = made + 1
    <3>1. totp' = {[id |-> made + 1, confirmed |-> FALSE, used |-> -1]}
      BY DEF SetupInsert
    <3>2. [id |-> made + 1, confirmed |-> FALSE, used |-> -1] \in Credential
      BY NextNumber DEF Credential
    <3>3. [id |-> made + 1, confirmed |-> FALSE, used |-> -1].id = made + 1
      OBVIOUS
    <3> QED BY <3>1, <3>2, <3>3
  <2> QED BY <1>2, <2>1, NextNumber
<1>5. Uneventful
  BY <1>2, <1>3, <1>4, NextNumber, TablesKept DEF Uneventful, Tables, SetupInsert, accountVars
<1> QED BY <1>5, UneventfulKeeps

LEMMA DisableCodesKeeps ==
  ASSUME LoginInv, NEW r \in Handlers, DisableCodes(r)
  PROVE  LoginInv'
<1>1. LeavesLocked(r)
  BY TablesKept DEF LeavesLocked, DisableCodes, accountVars
<1>2. Located
  BY <1>1, Ended, TablesKept DEF DisableCodes
<1>3. Uneventful
  BY <1>2, TablesKept DEF Uneventful, Tables, DisableCodes, accountVars
<1> QED BY <1>3, UneventfulKeeps

LEMMA ProcessDiesKeeps ==
  ASSUME LoginInv, ProcessDies
  PROVE  LoginInv'
<1>1. NoJob.token = Nothing /\ NoJob.upto = 0
  BY DEF NoJob
<1>2. \A r \in Handlers : statement'[r] = "idle" /\ job'[r] = NoJob
  BY DEF ProcessDies
<1>3. \A r \in Handlers : Harmless(r)
  BY <1>1, <1>2, NextNumber DEF Harmless, Guarded, ProcessDies
<1>4. Located
  BY <1>2, <1>3, NoJobType DEF ProcessDies, Located, ResetHolds, Statements
<1> QED BY <1>4, Unmoved, TablesKept DEF ProcessDies, factorVars

LEMMA TimeKeeps ==
  ASSUME LoginInv, Tick \/ \E t \in tokens : Expire(t)
  PROVE  LoginInv'
<1>1. now' \in Nat
  BY DEF Tick, Expire, factorVars, LoginInv, LoginTypes
<1>2. UNCHANGED <<accountVars, sessions, tokens, codes, totp, made, statement, job>>
  BY DEF Tick, Expire, factorVars
<1>3. Located
  BY <1>2 DEF LoginInv, LoginTypes, Located, Harmless, ResetHolds, accountVars
<1> QED BY <1>1, <1>2, <1>3, Unmoved DEF accountVars
-----------------------------------------------------------------------------
(***************************************************************************)
(* Steps after which a request holds something.                            *)
(***************************************************************************)

\* The others stay where they are.
LEMMA Put ==
  ASSUME LoginInv, NEW r \in Handlers, NEW p \in Statements, NEW j \in Job,
         statement' = [statement EXCEPT ![r] = p], job' = [job EXCEPT ![r] = j]
  PROVE  /\ statement' \in [Handlers -> Statements] /\ job' \in [Handlers -> Job]
         /\ statement'[r] = p /\ job'[r] = j
         /\ \A q \in Handlers : q # r => Same(q) /\ Proper(q)
<1>1. statement \in [Handlers -> Statements] /\ job \in [Handlers -> Job]
  BY DEF LoginInv, LoginTypes
<1>2. \A q \in Handlers : q # r => Same(q)
  BY <1>1 DEF Same
<1> QED BY <1>1, <1>2, SameIsProper

LEMMA PutKeeps ==
  ASSUME LoginInv, NEW r \in Handlers, NEW p \in Statements, NEW j \in Job,
         statement' = [statement EXCEPT ![r] = p], job' = [job EXCEPT ![r] = j],
         Proper(r), p # "codes insert",
         \A q \in Handlers : q # r /\ statement[q] = "reset locked" =>
            userLock' = userLock /\ job[q].token \in tokens',
         p = "reset locked" => userLock' = r /\ j.token \in tokens',
         Tables, Dwindle, codes' \subseteq codes, now' \in Nat,
         UNCHANGED <<settings, password>>
  PROVE  LoginInv'
<1>1. /\ statement' \in [Handlers -> Statements] /\ job' \in [Handlers -> Job]
      /\ statement'[r] = p /\ job'[r] = j
      /\ \A q \in Handlers : q # r => Same(q) /\ Proper(q)
  BY Put
<1>2. BatchesApart'
  BY <1>1 DEF LoginInv, Inserting, BatchesApart, Same
<1>3. ResetHolds'
  BY <1>1 DEF LoginInv, ResetHolds, Same
<1> QED BY <1>1, <1>2, <1>3, StepKeeps

\* Tables that are left alone.
LEMMA TablesUnmoved ==
  ASSUME LoginInv, UNCHANGED <<made, codes, totp>>, tokens' \subseteq tokens
  PROVE  Tables
BY TablesKept DEF Tables

LEMMA JobTypes ==
  ASSUME LoginInv, NEW r \in Handlers
  PROVE  /\ job[r] \in Job /\ job[r].upto <= made
         /\ job[r].token # Nothing => job[r].token \in Token /\ job[r].token.id <= made
BY DEF LoginInv, LoginTypes, Numbered, Job

LEMMA FreshJob ==
  ASSUME LoginInv
  PROVE  /\ NoJob.token = Nothing /\ NoJob.code = Nothing /\ NoJob.password = 0
         /\ NoJob.upto = 0 /\ 0 <= made
BY DEF NoJob, LoginInv, LoginTypes

LEMMA LoginReadKeeps ==
  ASSUME LoginInv, NEW r \in Handlers, LoginRead(r)
  PROVE  LoginInv'
<1>1. PICK p \in {"session", "second factor"} : statement' = [statement EXCEPT ![r] = p]
  BY DEF LoginRead, GoOn
<1>2. job[r] = NoJob
  BY DEF LoginRead, Begin, IsAt, LoginInv, LoginTypes
<1>3. PICK j \in Job : j = [job[r] EXCEPT !.password = password]
  BY JobTypes DEF LoginInv, LoginTypes, Job
<1>4. j.token = Nothing /\ j.code = Nothing /\ j.upto = 0
  <2>1. j.token = job[r].token /\ j.code = job[r].code /\ j.upto = job[r].upto
    BY <1>3, JobTypes DEF Job
  <2> QED BY <1>2, <2>1, FreshJob
<1>5. job' = [job EXCEPT ![r] = j]
  BY <1>3 DEF LoginRead
<1>6. p \in Statements
  BY DEF Statements
<1>7. statement'[r] = p /\ job'[r] = j
  BY <1>1, <1>5, <1>6, Put
<1>8. Proper(r)
  <2>1. j.upto <= made'
    BY <1>4, FreshJob DEF LoginRead
  <2>2. p # "idle" /\ p \notin {"login factor", "login code", "claim", "revoke others", "codes insert"}
    OBVIOUS
  <2> QED BY <1>4, <1>7, <2>1, <2>2 DEF Proper, Decent, Inserts, Claims, Spends
<1>9. Tables /\ Dwindle
  BY TablesUnmoved, SameSessions DEF LoginRead, factorVars
<1> QED
  BY <1>1, <1>5, <1>6, <1>8, <1>9, PutKeeps, TablesKept DEF LoginRead, accountVars, factorVars

LEMMA ClaimChallengeKeeps ==
  ASSUME LoginInv, NEW r \in Handlers, ClaimChallenge(r)
  PROVE  LoginInv'
<1>1. statement' = [statement EXCEPT ![r] = "session"] /\ job' = [job EXCEPT ![r] = job[r]]
  BY DEF ClaimChallenge, GoOn, LoginInv, LoginTypes
<1>2. "session" \in Statements /\ job[r] \in Job
  BY JobTypes DEF Statements
<1>3. /\ statement'[r] = "session" /\ job'[r] = job[r]
      /\ \A q \in Handlers : q # r => Same(q)
  BY <1>1, <1>2, Put
<1>4. Claims(r)
  BY <1>3 DEF Claims, ClaimChallenge, Claimable
<1>5. Spends(r)
  BY <1>3 DEF Spends, ClaimChallenge, IsAt, Logins
<1>6. Proper(r)
  BY <1>3, <1>4, <1>5 DEF Proper, Decent, Inserts
<1>7. \A q \in Handlers : q # r /\ statement[q] = "reset locked" => job[q].token \in tokens'
  BY TablesKept DEF ClaimChallenge, Claimable, Locked, IsAt
<1>8. Tables /\ Dwindle
  BY TablesUnmoved, SameSessions DEF ClaimChallenge, factorVars
<1> QED
  BY <1>1, <1>2, <1>6, <1>7, <1>8, PutKeeps, TablesKept
     DEF ClaimChallenge, accountVars, factorVars

LEMMA ResetWriteKeeps ==
  ASSUME LoginInv, NEW r \in Handlers, ResetWrite(r)
  PROVE  LoginInv'
<1>1. PICK j \in Job : j = [job[r] EXCEPT !.upto = made]
  BY JobTypes, TablesKept DEF Job
<1>2. statement' = [statement EXCEPT ![r] = "reset locked"] /\ job' = [job EXCEPT ![r] = j]
  BY <1>1 DEF ResetWrite, GoOn
<1>3. "reset locked" \in Statements
  BY DEF Statements
<1>4. statement'[r] = "reset locked" /\ job'[r] = j
  BY <1>2, <1>3, Put
<1>5. j.token = job[r].token /\ j.upto = made
  BY <1>1, JobTypes DEF Job
<1>6. Proper(r)
  BY <1>4, <1>5, JobTypes, TablesKept DEF Proper, Decent, Inserts, Claims, Spends, Logins, ResetWrite
<1>7. \A q \in Handlers : statement[q] # "reset locked"
  BY TablesKept, NoneTypes DEF ResetWrite
<1>8. Tables /\ Dwindle
  BY TablesUnmoved, SameSessions DEF ResetWrite, factorVars
<1> QED
  BY <1>2, <1>3, <1>5, <1>6, <1>7, <1>8, PutKeeps, TablesKept
     DEF ResetWrite, Claimable, factorVars

LEMMA WithSessionKeeps ==
  ASSUME LoginInv, NEW r \in Handlers, NEW s \in sessions,
         NEW p \in {"change", "revoke others", "setup", "confirm", "disable read",
                   "recover read"},
         WithSession(r, s, p)
  PROVE  LoginInv'
<1>1. PICK j \in Job : j = [job[r] EXCEPT !.session = s.id]
  BY JobTypes DEF Job, LoginInv, LoginTypes, Session
<1>2. statement' = [statement EXCEPT ![r] = p] /\ job' = [job EXCEPT ![r] = j]
  BY <1>1 DEF WithSession, GoOn
<1>3. p \in Statements
  BY DEF Statements
<1>4. statement'[r] = p /\ job'[r] = j
  BY <1>2, <1>3, Put
<1>5. job[r] = NoJob
  BY DEF WithSession, Begin, IsAt, LoginInv, LoginTypes
<1>6. j.token = Nothing /\ j.upto = 0 /\ j.password = 0
  <2>1. j.token = job[r].token /\ j.upto = job[r].upto /\ j.password = job[r].password
    BY <1>1, JobTypes DEF Job
  <2> QED BY <1>5, <2>1, FreshJob
<1>7. Proper(r)
  <2>1. j.upto <= made'
    BY <1>6, FreshJob DEF WithSession
  <2>2. p \notin {"idle", "login factor", "login code", "claim", "session", "codes insert"}
    OBVIOUS
  <2> QED BY <1>4, <1>6, <2>1, <2>2 DEF Proper, Decent, Inserts, Claims, Spends, Logins
<1>8. Tables /\ Dwindle
  BY TablesUnmoved, SameSessions DEF WithSession, factorVars
<1> QED
  BY <1>2, <1>3, <1>7, <1>8, PutKeeps, TablesKept DEF WithSession, accountVars, factorVars

LEMMA JobReadKeeps ==
  ASSUME LoginInv, NEW r \in Handlers, ChangeRead(r) \/ ConfirmRead(r)
  PROVE  LoginInv'
<1>1. UNCHANGED <<accountVars, factorVars, tokens, sessions, made>>
  BY DEF ChangeRead, ConfirmRead
<1>2. PICK p \in {"change write", "confirm write"} : statement' = [statement EXCEPT ![r] = p]
  BY DEF ChangeRead, ConfirmRead, GoOn
<1>3. PICK j \in Job :
        /\ job' = [job EXCEPT ![r] = j]
        /\ j.token = job[r].token /\ j.upto = job[r].upto
  <2>1. CASE ChangeRead(r)
    <3>1. PICK j \in Job : j = [job[r] EXCEPT !.password = password]
      BY JobTypes DEF Job, LoginInv, LoginTypes
    <3> QED BY <2>1, <3>1, JobTypes DEF ChangeRead, Job
  <2>2. CASE ConfirmRead(r)
    <3>1. PICK c \in totp : job' = [job EXCEPT ![r].secret = c.id]
      BY <2>2 DEF ConfirmRead, Pending
    <3>2. PICK j \in Job : j = [job[r] EXCEPT !.secret = c.id]
      BY JobTypes, TablesKept DEF Job
    <3> QED BY <3>1, <3>2, JobTypes DEF Job
  <2> QED BY <2>1, <2>2
<1>4. LeavesLocked(r)
  BY <1>1, TablesKept DEF LeavesLocked, accountVars
<1>5. Located
  BY <1>1, <1>2, <1>3, <1>4, Moved, JobTypes, TablesKept DEF Statements, Guarded
<1> QED BY <1>1, <1>5, Unmoved, TablesKept DEF accountVars, factorVars

\* The secret that is read is of the credential that is confirmed now.
LEMMA FactorReadKeeps ==
  ASSUME LoginInv, NEW r \in Handlers, NEW asked,
         NEW p \in {"login code", "disable code", "recover code"}, FactorRead(r, asked, p),
         p = "login code" => asked = "login factor"
  PROVE  LoginInv'
<1>1. PICK j \in Job : /\ job' = [job EXCEPT ![r] = j]
                       /\ j.token = job[r].token /\ j.upto = job[r].upto
  <2>1. CASE UNCHANGED job
    <3>1. job = [job EXCEPT ![r] = job[r]] /\ job[r] \in Job
      BY DEF LoginInv, LoginTypes
    <3> QED BY <2>1, <3>1
  <2>2. CASE job' # job
    <3>1. PICK c \in totp : job' = [job EXCEPT ![r].secret = c.id]
      BY <2>2 DEF FactorRead, Confirmed
    <3>2. PICK j \in Job : j = [job[r] EXCEPT !.secret = c.id]
      BY JobTypes, TablesKept DEF Job
    <3> QED BY <3>1, <3>2, JobTypes DEF Job
  <2> QED BY <2>1, <2>2
<1>2. p = "login code" => j.token # Nothing
  BY <1>1 DEF FactorRead, IsAt, LoginInv, ChallengesClaimed
<1>3. statement' = [statement EXCEPT ![r] = p] /\ UNCHANGED <<accountVars, tokens, made>>
  BY DEF FactorRead, GoOn
<1>4. LeavesLocked(r)
  BY <1>3, TablesKept DEF LeavesLocked, accountVars
<1>5. p \in Statements \ Guarded /\ p # "idle" /\ p # "login factor"
  BY DEF Statements, Guarded
<1>6. Located
  BY <1>1, <1>2, <1>3, <1>4, <1>5, Moved, JobTypes, TablesKept
<1> QED BY <1>6, Unmoved, TablesKept DEF FactorRead, accountVars, factorVars

\* A code that was good is taken, and no longer is.
LEMMA TakesCode ==
  ASSUME LoginInv, NEW r \in Handlers, NEW p \in {"claim", "disable", "codes delete"},
         p = "claim" => statement[r] = "login code",
         NEW c \in Code, ~Spent(c), Spent(c)',
         statement' = [statement EXCEPT ![r] = p], job' = [job EXCEPT ![r].code = c],
         Tables, codes' \subseteq codes,
         UNCHANGED <<accountVars, now, tokens, expired, sessions, made>>
  PROVE  LoginInv'
<1>1. PICK j \in Job : j = [job[r] EXCEPT !.code = c]
  BY JobTypes DEF Job
<1>2. job' = [job EXCEPT ![r] = j]
  BY <1>1
<1>3. p \in Statements
  BY DEF Statements
<1>4. /\ statement'[r] = p /\ job'[r] = j
      /\ \A q \in Handlers : q # r => Same(q)
  BY <1>2, <1>3, Put
<1>5. j.code = c /\ j.token = job[r].token /\ j.upto = job[r].upto
  BY <1>1, JobTypes DEF Job
<1>6. Spends(r)
  BY <1>4, <1>5 DEF Spends, Same
<1>7. Claims(r) /\ Inserts(r)
  BY <1>4 DEF Claims, Inserts
<1>8. p = "claim" => j.token # Nothing
  BY <1>5 DEF LoginInv, ChallengesClaimed
<1>9. Proper(r)
  BY <1>4, <1>5, <1>6, <1>7, <1>8, JobTypes DEF Proper, Decent
<1>10. Dwindle
  BY SameSessions
<1> QED
  BY <1>2, <1>3, <1>4, <1>9, <1>10, PutKeeps, TablesKept DEF accountVars

LEMMA SpendTotpKeeps ==
  ASSUME LoginInv, NEW r \in Handlers, NEW p \in {"claim", "disable", "codes delete"},
         p = "claim" => statement[r] = "login code", NEW n \in Nat, SpendTotp(r, n, p)
  PROVE  LoginInv'
<1>1. PICK e \in totp :
        /\ Counted(e, n)
        /\ job' = [job EXCEPT ![r].code = [kind |-> "TOTP", of |-> e.id, n |-> n]]
  BY DEF SpendTotp, Confirmed
<1>2. e.used < n /\ totp = {e} /\ totp' = {[e EXCEPT !.used = n]}
  BY <1>1, TablesKept DEF Counted
<1>3. e \in Credential /\ n \in Int
  BY TablesKept, Integral
<1>4. PICK d \in Credential : totp' = {d} /\ d.id = e.id /\ d.used = n
  <2>1. PICK d \in Credential : d = [e EXCEPT !.used = n]
    BY <1>3 DEF Credential
  <2> QED BY <1>2, <1>3, <2>1 DEF Credential
<1>5. e.used \in Int /\ e.id \in Nat
  BY <1>3 DEF Credential
<1>6. e.used <= n /\ ~(e.used >= n) /\ n >= n
  BY <1>2, <1>3, <1>5, Below
<1>7. PICK c \in Code : c = [kind |-> "TOTP", of |-> e.id, n |-> n]
  BY <1>5 DEF Code, RecoveryCode
<1>8. statement' = [statement EXCEPT ![r] = p] /\ job' = [job EXCEPT ![r].code = c]
  BY <1>1, <1>7 DEF SpendTotp, GoOn
<1>9. c.kind = "TOTP" /\ c.of = e.id /\ c.n = n
  BY <1>7
<1>10. ~Spent(c)
  BY <1>2, <1>6, <1>9 DEF Spent
<1>11. Spent(c)'
  <2>1. e.id <= made' /\ d.used >= n
    BY <1>4, <1>6 DEF LoginInv, Numbered, SpendTotp
  <2> QED BY <1>4, <1>9, <2>1 DEF Spent
<1>12. UNCHANGED <<accountVars, codes, now, tokens, expired, sessions, made>>
  BY DEF SpendTotp
<1>13. Tables
  BY <1>4, <1>6, <1>12, TablesKept DEF Tables
<1> QED BY <1>8, <1>10, <1>11, <1>12, <1>13, TakesCode

LEMMA SpendRecoveryCodeKeeps ==
  ASSUME LoginInv, NEW r \in Handlers, NEW p \in {"claim", "disable", "codes delete"},
         p = "claim" => statement[r] = "login code", NEW c \in codes, SpendRecoveryCode(r, c, p)
  PROVE  LoginInv'
<1>1. c \in Code /\ c.kind = "RECOVERY"
  BY DEF LoginInv, LoginTypes, Code, RecoveryCode
<1>2. Behind(c) /\ ~Spent(c)
  BY <1>1 DEF LoginInv, Inserting, Spent
<1>3. statement' = [statement EXCEPT ![r] = p] /\ job' = [job EXCEPT ![r].code = c]
  BY DEF SpendRecoveryCode, GoOn
<1>4. codes' = codes \ {c} /\ UNCHANGED <<accountVars, totp, now, tokens, expired, sessions, made>>
  BY DEF SpendRecoveryCode
<1>5. Tables
  BY <1>4, TablesKept DEF Tables
<1>6. Spent(c)'
  <2>1. \A q \in Handlers : statement'[q] = "codes insert" =>
          statement[q] = "codes insert" /\ job'[q].upto = job[q].upto /\ job'[q].left = job[q].left
    BY <1>3 DEF LoginInv, LoginTypes, Job
  <2> QED BY <1>1, <1>2, <1>4, <2>1 DEF Spent, Behind
<1> QED BY <1>1, <1>2, <1>3, <1>4, <1>5, <1>6, TakesCode

LEMMA SpendKeeps ==
  ASSUME LoginInv, NEW r \in Handlers, Spend(r)
  PROVE  LoginInv'
<1> DEFINE Takes(p) == \/ \E n \in 0 .. MaxTime + 1 : SpendTotp(r, n, p)
                       \/ \E c \in codes : SpendRecoveryCode(r, c, p)
<1>1. \/ statement[r] = "login code" /\ Takes("claim")
      \/ Takes("disable")
      \/ Takes("codes delete")
  <2>1. PICK pair \in {<<"login code", "claim">>, <<"disable code", "disable">>,
                        <<"recover code", "codes delete">>} :
          statement[r] = pair[1] /\ Takes(pair[2])
    BY DEF Spend, IsAt
  <2>2. \/ pair[1] = "login code" /\ pair[2] = "claim"
        \/ pair[2] = "disable"
        \/ pair[2] = "codes delete"
    <3>1. \/ pair = <<"login code", "claim">>
          \/ pair = <<"disable code", "disable">>
          \/ pair = <<"recover code", "codes delete">>
      OBVIOUS
    <3>2. CASE pair = <<"login code", "claim">>
      BY <3>2
    <3>3. CASE pair = <<"disable code", "disable">>
      BY <3>3
    <3>4. CASE pair = <<"recover code", "codes delete">>
      BY <3>4
    <3> QED BY <3>1, <3>2, <3>3, <3>4
  <2>3. PICK a, p : a = pair[1] /\ p = pair[2]
    OBVIOUS
  <2>4. statement[r] = a /\ Takes(p)
    BY <2>1, <2>3
  <2> QED BY <2>2, <2>3, <2>4
<1>2. PICK p \in {"claim", "disable", "codes delete"} :
        Takes(p) /\ (p = "claim" => statement[r] = "login code")
  BY <1>1
<1>3. \A n \in 0 .. MaxTime + 1 : n \in Nat
  BY LoginAssumption, Upto
<1> QED BY <1>2, <1>3, SpendTotpKeeps, SpendRecoveryCodeKeeps

LEMMA EndSessionKeeps ==
  ASSUME LoginInv, NEW s \in sessions, EndSession(s)
  PROVE  LoginInv'
<1>1. UNCHANGED <<accountVars, factorVars, tokens, made, statement, job>>
  BY DEF EndSession
<1>2. sessions' = (sessions \ {s}) \union {[s EXCEPT !.active = FALSE]}
  BY DEF EndSession, Revoked
<1>3. PICK u \in Session : u = [s EXCEPT !.active = FALSE]
  BY DEF LoginInv, LoginTypes, Session
<1>4. u.id = s.id /\ u.challenge = s.challenge /\ u.code = s.code /\ u.active = FALSE
  BY <1>3 DEF LoginInv, LoginTypes, Session
<1>5. sessions' = (sessions \ {s}) \union {u}
  BY <1>2, <1>3
<1>6. Dwindle
  BY <1>4, <1>5 DEF Dwindle, LoginInv, LoginTypes, OneRow
<1>7. Tables
  BY <1>1, TablesUnmoved DEF factorVars
<1>8. \A r \in Handlers : Proper(r)
  BY <1>1, SameIsProper DEF Same
<1>9. BatchesApart' /\ ResetHolds'
  BY <1>1 DEF LoginInv, Inserting, ResetHolds, BatchesApart, accountVars
<1> QED
  BY <1>1, <1>6, <1>7, <1>8, <1>9, StepKeeps DEF LoginInv, LoginTypes, accountVars, factorVars

\* A batch of recovery codes that nobody has had before is begun.
LEMMA CodesDeleteKeeps ==
  ASSUME LoginInv, NEW r \in Handlers, CodesDelete(r)
  PROVE  LoginInv'
<1>1. CodesPerBatch \in Int /\ made + 1 \in Nat
  BY LoginAssumption, NextNumber
<1>2. PICK j \in Job : j = [job[r] EXCEPT !.upto = made + 1, !.left = CodesPerBatch]
  BY <1>1, JobTypes DEF Job
<1>3. statement' = [statement EXCEPT ![r] = "codes insert"] /\ job' = [job EXCEPT ![r] = j]
  BY <1>2 DEF CodesDelete, GoOn, LoginInv, LoginTypes
<1>4. "codes insert" \in Statements
  BY DEF Statements
<1>5. /\ statement' \in [Handlers -> Statements] /\ job' \in [Handlers -> Job]
      /\ statement'[r] = "codes insert" /\ job'[r] = j
      /\ \A q \in Handlers : q # r => Same(q) /\ Proper(q)
  BY <1>3, <1>4, Put
<1>6. j.token = job[r].token /\ j.upto = made + 1
  BY <1>2, JobTypes DEF Job
<1>7. made' = made + 1 /\ made' \in Nat /\ made <= made' /\ made' > made /\ made' <= made'
  BY NextNumber DEF CodesDelete
<1>8. j.token # Nothing => j.token.id <= made'
  <2> SUFFICES ASSUME job[r].token # Nothing
               PROVE  job[r].token.id <= made'
    BY <1>6
  <2>1. job[r].token.id \in Nat /\ job[r].token.id <= made /\ made \in Nat
    BY JobTypes, NextNumber DEF Token
  <2> QED BY <1>7, <2>1, AtMost
<1>9. Proper(r)
  BY <1>5, <1>6, <1>7, <1>8 DEF Proper, Decent, Inserts, Claims, Spends, Logins
<1>10. BatchesApart'
  <2>1. ASSUME NEW q \in Handlers, q # r, statement'[q] = "codes insert"
        PROVE  job'[q].upto # made + 1
    <3>1. job'[q] = job[q]
      BY <1>5, <2>1 DEF Same
    <3>2. job[q].upto \in Nat /\ job[q].upto <= made
      BY JobTypes DEF Job
    <3> QED BY <3>1, <3>2, NextNumber, NotAbove
  <2>2. ASSUME NEW q \in Handlers, NEW x \in Handlers, q # x, q # r, x # r,
               statement'[q] = "codes insert", statement'[x] = "codes insert"
        PROVE  job'[q].upto # job'[x].upto
    BY <1>5, <2>2 DEF LoginInv, Inserting, Same
  <2> QED BY <1>5, <1>6, <2>1, <2>2 DEF BatchesApart
<1>11. ResetHolds'
  BY <1>5, TablesKept DEF ResetHolds, Same, CodesDelete, accountVars
<1>12. Tables /\ Dwindle
  BY <1>7, TablesKept, SameSessions DEF Tables, CodesDelete
<1> QED
  BY <1>5, <1>9, <1>10, <1>11, <1>12, StepKeeps, TablesKept DEF CodesDelete, accountVars

LEMMA OneLess == \A n \in Int : n - 1 \in Int /\ n - 1 <= n /\ n > n - 1
OBVIOUS

\* The next code of a batch: the places below it are still to come.
LEMMA CodesInsertKeeps ==
  ASSUME LoginInv, NEW r \in Handlers, CodesInsert(r)
  PROVE  LoginInv'
<1>1. job[r].left \in Int /\ job[r].upto \in Nat /\ statement[r] = "codes insert"
  BY JobTypes DEF Job, CodesInsert, IsAt
<1>2. PICK c \in RecoveryCode :
        codes' = codes \union {c} /\ c.batch = job[r].upto /\ c.no = job[r].left
  <2>1. PICK c \in RecoveryCode :
          c = [kind |-> "RECOVERY", batch |-> job[r].upto, no |-> job[r].left]
    BY <1>1 DEF RecoveryCode
  <2> QED BY <2>1 DEF CodesInsert
<1>3. PICK p \in {"idle", "codes insert"}, j \in Job :
        /\ statement' = [statement EXCEPT ![r] = p] /\ job' = [job EXCEPT ![r] = j]
        /\ p = "idle" => j = NoJob
        /\ p = "codes insert" =>
             j.token = job[r].token /\ j.upto = job[r].upto /\ j.left = job[r].left - 1
  <2>1. CASE End(r)
    BY <2>1, NoJobType DEF End, GoOn
  <2>2. CASE job' = [job EXCEPT ![r].left = @ - 1] /\ statement' = statement
    <3>1. PICK j \in Job : j = [job[r] EXCEPT !.left = @ - 1]
      BY <1>1, JobTypes, OneLess DEF Job
    <3>2. j.token = job[r].token /\ j.upto = job[r].upto /\ j.left = job[r].left - 1
      BY <3>1, JobTypes DEF Job
    <3>3. statement' = [statement EXCEPT ![r] = "codes insert"] /\ job' = [job EXCEPT ![r] = j]
      BY <1>1, <2>2, <3>1 DEF LoginInv, LoginTypes
    <3> QED BY <3>2, <3>3
  <2> QED BY <2>1, <2>2 DEF CodesInsert
<1>4. p \in Statements
  BY DEF Statements
<1>5. /\ statement' \in [Handlers -> Statements] /\ job' \in [Handlers -> Job]
      /\ statement'[r] = p /\ job'[r] = j
      /\ \A q \in Handlers : q # r => Same(q) /\ Proper(q)
  BY <1>3, <1>4, Put
<1>6. UNCHANGED <<accountVars, totp, now, tokens, sessions, made>>
  BY DEF CodesInsert
<1>7. Tables /\ Dwindle
  <2>1. BeingInserted(c)
    BY <1>1, <1>2 DEF BeingInserted
  <2> QED BY <1>2, <1>6, <2>1, TablesKept, SameSessions DEF Tables
<1>8. Proper(r)
  <2>1. CASE p = "idle"
    BY <1>3, <1>5, <1>6, <2>1, FreshJob DEF Proper, Decent, Inserts, Claims, Spends, Logins
  <2>2. CASE p = "codes insert"
    <3>1. j.token = job[r].token /\ j.upto = job[r].upto /\ j.left = job[r].left - 1
      BY <1>3, <2>2
    <3>2. Inserts(r)
      BY <1>1, <1>5, <3>1, OneLess DEF Inserts
    <3> QED
      BY <1>5, <1>6, <2>2, <3>1, <3>2, JobTypes DEF Proper, Decent, Claims, Spends, Logins
  <2> QED BY <2>1, <2>2
<1>9. \A q \in Handlers : Inserts(q)
  BY <1>5, <1>8 DEF Proper, Decent
<1>10. Inserting'
  <2>1. \A d \in codes : Behind(d)'
    <3>1. \A d \in codes : d \in Code /\ d.kind = "RECOVERY" /\ Behind(d)
      BY DEF LoginInv, LoginTypes, Inserting, Code, RecoveryCode
    <3> QED BY <1>5, <1>7, <1>9, <3>1, BehindStays
  <2>2. ASSUME NEW q \in Handlers, statement'[q] = "codes insert"
        PROVE  /\ statement[q] = "codes insert" /\ job'[q].upto = job[q].upto
               /\ q = r => p = "codes insert"
    BY <1>1, <1>3, <1>5, <2>2 DEF Same
  <2>3. Behind(c)'
    <3>1. c.batch <= made'
      BY <1>2, <1>6, JobTypes
    <3>2. ASSUME NEW q \in Handlers, statement'[q] = "codes insert", job'[q].upto = c.batch
          PROVE  c.no > job'[q].left
      <4>1. q = r
        BY <1>1, <1>2, <2>2, <3>2 DEF LoginInv, Inserting
      <4>2. job'[q].left = job[r].left - 1
        BY <1>3, <1>5, <2>2, <3>2, <4>1
      <4> QED BY <1>1, <1>2, <4>2, OneLess
    <3> QED BY <3>1, <3>2 DEF Behind
  <2>4. BatchesApart'
    BY <2>2 DEF LoginInv, Inserting, BatchesApart
  <2> QED BY <1>2, <2>1, <2>3, <2>4 DEF Inserting, BatchesApart
<1>11. ResetHolds'
  BY <1>5, <1>6, TablesKept DEF ResetHolds, Same, accountVars
<1>12. codes' \subseteq RecoveryCode
  BY <1>2 DEF LoginInv, LoginTypes
<1>13. \A q \in Handlers : Proper(q)
  BY <1>5, <1>8
<1> QED
  BY <1>5, <1>6, <1>7, <1>10, <1>11, <1>12, <1>13, StepKeepsButCodes, TablesKept
     DEF accountVars
-----------------------------------------------------------------------------
\* A new session bears a new number, and what it rests on has been claimed and
\* spent.
LEMMA CreateSessionKeeps ==
  ASSUME LoginInv, NEW r \in Handlers, CreateSession(r)
  PROVE  LoginInv'
<1>1. statement[r] = "session" /\ made' = made + 1
      /\ UNCHANGED <<accountVars, factorVars, tokens>>
  BY DEF CreateSession, IsAt
<1>2. PICK u \in Session :
        /\ sessions' = sessions \union {u} /\ u.id = made + 1
        /\ u.challenge = job[r].token /\ u.code = job[r].code
  <2>1. made + 1 \in Nat \ {0}
    BY DEF LoginInv, LoginTypes
  <2>2. PICK u \in Session :
          u = [id |-> made + 1, active |-> TRUE, password |-> job[r].password,
               challenge |-> job[r].token, code |-> job[r].code, secret |-> job[r].secret]
    BY <2>1, JobTypes DEF Session, Job
  <2> QED BY <2>2 DEF CreateSession
<1>3. statement' = [statement EXCEPT ![r] = "idle"] /\ job' = [job EXCEPT ![r] = NoJob]
  BY DEF CreateSession, End, GoOn
<1>4. "idle" \in Statements
  BY DEF Statements
<1>5. /\ statement' \in [Handlers -> Statements] /\ job' \in [Handlers -> Job]
      /\ statement'[r] = "idle" /\ job'[r] = NoJob
      /\ \A q \in Handlers : q # r => Same(q) /\ Proper(q)
  BY <1>3, <1>4, NoJobType, Put
<1>6. NoJob.token = Nothing /\ NoJob.upto <= made'
  BY <1>1, FreshJob, NextNumber
<1>7. \A q \in Handlers : Inserts(q)
  BY <1>5 DEF Proper, Decent, Inserts
<1>8. Tables
  BY <1>1, NextNumber, TablesKept DEF Tables, factorVars
<1>9. Inserting'
  BY <1>1, <1>5, <1>7, <1>8, InsertingStays DEF LoginInv, Inserting, Same, factorVars
<1>10. \A s \in sessions : s.id \in Nat /\ s.id <= made /\ s.id # made + 1
  <2> SUFFICES ASSUME NEW s \in sessions
               PROVE  s.id \in Nat /\ s.id <= made /\ s.id # made + 1
    OBVIOUS
  <2>1. s.id \in Nat /\ s.id <= made
    BY DEF LoginInv, LoginTypes, Session, Numbered
  <2> QED BY <2>1, NextNumber, NotAbove
<1>11. \A s \in sessions' : s.id <= made'
  <2>1. \A s \in sessions : s.id <= made'
    BY <1>1, <1>10, NextNumber, AtMost
  <2> QED BY <1>1, <1>2, <2>1, NextNumber
<1>12. Numbered'
  <2>1. \A q \in Handlers : job'[q] = job[q] \/ job'[q] = NoJob
    BY <1>5 DEF Same
  <2> QED BY <1>6, <1>8, <1>11, <2>1, NumbersStay
<1>13. OneRow'
  BY <1>2, <1>10 DEF LoginInv, OneRow
<1>14. job[r].token # Nothing => job[r].token \in Token /\ Claimed(job[r].token)
  BY <1>1, JobTypes DEF LoginInv, ChallengesClaimed
<1>15. ChallengesClaimed'
  <2>1. ASSUME NEW s \in sessions'
        PROVE  /\ s.challenge # Nothing => Claimed(s.challenge)'
               /\ s.code # Nothing => s.challenge # Nothing
    <3>1. s.challenge # Nothing => s.challenge \in Token /\ Claimed(s.challenge)
      BY <1>2, <1>14 DEF LoginInv, LoginTypes, ChallengesClaimed, Session
    <3>2. s.code # Nothing => s.challenge # Nothing
      BY <1>1, <1>2 DEF LoginInv, ChallengesClaimed
    <3> QED BY <1>8, <3>1, <3>2, ClaimedStays
  <2>2. ASSUME NEW s \in sessions', NEW t \in sessions', s.id # t.id
        PROVE  s.challenge = Nothing \/ s.challenge # t.challenge
    BY <1>1, <1>2, <2>2 DEF LoginInv, ChallengesClaimed
  <2>3. ASSUME NEW q \in Handlers, statement'[q] = "session"
        PROVE  q # r /\ statement[q] = "session" /\ job'[q] = job[q]
    BY <1>5, <2>3 DEF Same
  <2>4. ASSUME NEW q \in Handlers, statement'[q] = "session", job'[q].token # Nothing
        PROVE  Claimed(job[q].token)'
    <3>1. PICK t \in Token : t = job[q].token /\ Claimed(t)
      BY <2>3, <2>4, JobTypes DEF LoginInv, ChallengesClaimed
    <3>2. Claimed(t)' /\ t = job'[q].token
      BY <1>8, <2>3, <2>4, <3>1, ClaimedStays
    <3> QED BY <3>2 DEF Claimed
  <2>5. ASSUME NEW q \in Handlers, statement'[q] = "session"
        PROVE  /\ job'[q].code # Nothing => job'[q].token # Nothing
               /\ \A s \in sessions' : s.challenge = Nothing \/ s.challenge # job'[q].token
               /\ \A x \in Handlers : x # q /\ statement'[x] = "session" =>
                    job'[q].token = Nothing \/ job'[x].token # job'[q].token
    <3>1. \A s \in sessions' : s.challenge = Nothing \/ s.challenge # job[q].token
      BY <1>1, <1>2, <2>3, <2>5 DEF LoginInv, ChallengesClaimed
    <3> QED BY <2>3, <2>5, <3>1 DEF LoginInv, ChallengesClaimed
  <2>6. \A q \in Handlers : statement'[q] \in {"login factor", "login code", "claim"} => job'[q].token # Nothing
    BY <1>5 DEF LoginInv, ChallengesClaimed, Same
  <2> QED BY <2>1, <2>2, <2>4, <2>5, <2>6 DEF ChallengesClaimed
<1>16. CodesSpent'
  <2>1. ASSUME NEW s \in sessions', s.code # Nothing
        PROVE  Spent(s.code)'
    <3>1. s.code \in Code /\ Spent(s.code)
      BY <1>1, <1>2, <2>1, JobTypes DEF LoginInv, LoginTypes, CodesSpent, Session, Job
    <3> QED BY <1>5, <1>7, <1>8, <3>1, SpentStays
  <2>2. ASSUME NEW s \in sessions', NEW t \in sessions', s.id # t.id
        PROVE  s.code = Nothing \/ s.code # t.code
    BY <1>1, <1>2, <2>2 DEF LoginInv, CodesSpent
  <2>3. ASSUME NEW q \in Handlers, statement'[q] \in {"claim", "session"}
        PROVE  q # r /\ statement[q] \in {"claim", "session"} /\ job'[q] = job[q]
    BY <1>5, <2>3 DEF Same
  <2>4. ASSUME NEW q \in Handlers, statement'[q] \in {"claim", "session"}, job'[q].code # Nothing
        PROVE  Spent(job[q].code)'
    <3>1. PICK c \in Code : c = job[q].code /\ Spent(c)
      BY <2>3, <2>4, JobTypes DEF LoginInv, CodesSpent, Job
    <3>2. Spent(c)' /\ c = job'[q].code
      BY <1>5, <1>7, <1>8, <2>3, <2>4, <3>1, SpentStays
    <3> QED BY <3>2 DEF Spent
  <2>5. ASSUME NEW q \in Handlers, statement'[q] \in {"claim", "session"}
        PROVE  /\ \A s \in sessions' : s.code = Nothing \/ s.code # job'[q].code
               /\ \A x \in Handlers : x # q /\ statement'[x] \in {"claim", "session"} =>
                    job'[q].code = Nothing \/ job'[x].code # job'[q].code
    <3>1. \A s \in sessions' : s.code = Nothing \/ s.code # job[q].code
      BY <1>1, <1>2, <2>3, <2>5 DEF LoginInv, CodesSpent
    <3> QED BY <2>3, <2>5, <3>1 DEF LoginInv, CodesSpent
  <2> QED BY <2>1, <2>2, <2>4, <2>5 DEF CodesSpent
<1>17. ResetHolds'
  BY <1>1, <1>5, TablesKept DEF ResetHolds, Same, accountVars
<1>18. ResetsClaimed'
  BY <1>1, <1>8, ResetsStay DEF accountVars
<1>19. Revoking'
  BY <1>1, <1>5, <1>8, RevokingStays DEF accountVars
<1>20. SignedOut'
  <2>1. ASSUME NEW i \in DOMAIN settings
        PROVE  ~(made + 1 <= settings[i].upto)
    <3>1. settings[i].upto \in Nat /\ settings[i].upto <= made /\ made \in Nat
      BY SettingTypes, NextNumber DEF LoginInv, Revoking, Setting
    <3> QED BY <3>1, Beyond
  <2> QED BY <1>1, <1>2, <2>1 DEF LoginInv, SignedOut, Active, accountVars
<1>21. LoginTypes'
  BY <1>1, <1>2, <1>5, <1>8 DEF LoginInv, LoginTypes, Tables, Same, accountVars, factorVars
<1> QED
  BY <1>1, <1>9, <1>12, <1>13, <1>15, <1>16, <1>17, <1>18, <1>19, <1>20, <1>21
     DEF LoginInv, OneCredential, factorVars
-----------------------------------------------------------------------------
\* Whatever is revoked ends; nothing becomes active.
LEMMA RevokedDwindles ==
  ASSUME LoginInv, NEW S \in SUBSET sessions, sessions' = Revoked(S)
  PROVE  Dwindle /\ \A s \in sessions' : s.active => s \in sessions /\ s \notin S
<1>1. \A s \in S : \E u \in Session :
        /\ u = [s EXCEPT !.active = FALSE]
        /\ u.id = s.id /\ u.challenge = s.challenge /\ u.code = s.code /\ u.active = FALSE
  <2> SUFFICES ASSUME NEW s \in Session
               PROVE  \E u \in Session :
                        /\ u = [s EXCEPT !.active = FALSE]
                        /\ u.id = s.id /\ u.challenge = s.challenge /\ u.code = s.code
                        /\ u.active = FALSE
    BY DEF LoginInv, LoginTypes
  <2>1. PICK u \in Session : u = [s EXCEPT !.active = FALSE]
    BY DEF Session
  <2> QED BY <2>1 DEF Session
<1>2. ASSUME NEW s \in sessions'
      PROVE  /\ s \in Session
             /\ \/ s \in sessions /\ s \notin S
                \/ \E u \in S : /\ s = [u EXCEPT !.active = FALSE]
                                /\ s.id = u.id /\ s.challenge = u.challenge
                                /\ s.code = u.code /\ s.active = FALSE
  <2>1. CASE s \in sessions \ S
    BY <2>1 DEF LoginInv, LoginTypes
  <2>2. CASE \E u \in S : s = [u EXCEPT !.active = FALSE]
    BY <1>1, <2>2
  <2> QED BY <2>1, <2>2 DEF Revoked
<1>3. \A s \in sessions' : \E u \in sessions :
        /\ u.id = s.id /\ u.challenge = s.challenge /\ u.code = s.code
        /\ s.active => s = u
  BY <1>2
<1>4. ASSUME NEW s \in sessions', NEW t \in sessions', s.id = t.id
      PROVE  s = t
  <2>1. \A u, v \in sessions : u.id = v.id => u = v
    BY DEF LoginInv, OneRow
  <2>2. CASE s \in sessions /\ s \notin S /\ t \in sessions /\ t \notin S
    BY <1>4, <2>1, <2>2
  <2>3. CASE s \in sessions /\ s \notin S /\ \E v \in S : t.id = v.id
    BY <1>4, <2>1, <2>3
  <2>4. CASE t \in sessions /\ t \notin S /\ \E u \in S : s.id = u.id
    BY <1>4, <2>1, <2>4
  <2>5. CASE \E u, v \in S : /\ s = [u EXCEPT !.active = FALSE] /\ s.id = u.id
                            /\ t = [v EXCEPT !.active = FALSE] /\ t.id = v.id
    BY <1>4, <2>1, <2>5
  <2> QED BY <1>2, <2>2, <2>3, <2>4, <2>5
<1> QED BY <1>2, <1>3, <1>4 DEF Dwindle

\* Revoking the other sessions ends with the one it keeps.
LEMMA RevokeOthersKeeps ==
  ASSUME LoginInv, NEW r \in Handlers, RevokeOthers(r)
  PROVE  LoginInv'
<1> DEFINE Others == {s \in Active : s.id # job[r].session}
           k == job[r].password
<1>1. statement[r] = "revoke others" /\ sessions' = Revoked(Others)
      /\ UNCHANGED <<verified, password, userLock, factorVars, tokens, made>>
  BY DEF RevokeOthers, IsAt
<1>2. Dwindle /\ \A s \in sessions' : s.active => s \in Active /\ s.id = job[r].session
  BY <1>1, RevokedDwindles DEF Active
<1>3. statement' = [statement EXCEPT ![r] = "idle"] /\ job' = [job EXCEPT ![r] = NoJob]
  BY DEF RevokeOthers, End, GoOn
<1>4. "idle" \in Statements
  BY DEF Statements
<1>5. /\ statement' \in [Handlers -> Statements] /\ job' \in [Handlers -> Job]
      /\ statement'[r] = "idle" /\ job'[r] = NoJob
      /\ \A q \in Handlers : q # r => Same(q) /\ Proper(q)
  BY <1>3, <1>4, NoJobType, Put
<1>6. Tables
  BY <1>1, TablesUnmoved DEF factorVars
<1>7. \A q \in Handlers : Decent(q)
  BY <1>1, <1>5, FreshJob DEF Proper, Decent, Inserts, Claims, Spends, Logins
<1>8. /\ Numbered' /\ OneCredential' /\ OneRow'
      /\ ChallengesClaimed' /\ CodesSpent'
  BY <1>2, <1>5, <1>6, <1>7, RestKeeps
<1>9. Inserting'
  BY <1>1, <1>5, <1>6, <1>7, InsertingStays DEF LoginInv, Inserting, Same, Decent, factorVars
<1>10. ResetHolds'
  BY <1>1, <1>5, TablesKept DEF ResetHolds, Same
<1>11. /\ settings' \in Seq(Setting) /\ DOMAIN settings' = DOMAIN settings
       /\ Len(settings') = Len(settings)
       /\ \A i \in DOMAIN settings :
            /\ settings'[i].kind = settings[i].kind /\ settings'[i].token = settings[i].token
            /\ settings'[i].keep = settings[i].keep
            /\ \/ settings'[i].upto = settings[i].upto
               \/ settings'[i].upto = made /\ settings[i].keep = job[r].session
  <2>0. settings \in Seq(Setting) /\ made \in Nat
    BY DEF LoginInv, LoginTypes
  <2>1. CASE k = 0
    BY <2>0, <2>1 DEF RevokeOthers
  <2>2. CASE k # 0
    <3>1. k \in DOMAIN settings /\ settings[k].keep = job[r].session
      BY <1>1, <2>2 DEF LoginInv, Revoking
    <3>2. settings[k] \in Setting
      BY <3>1, SettingTypes DEF LoginInv
    <3>3. PICK e \in Setting : e = [settings[k] EXCEPT !.upto = made]
      BY <2>0, <3>2 DEF Setting
    <3>4. /\ e.kind = settings[k].kind /\ e.token = settings[k].token
          /\ e.keep = settings[k].keep /\ e.upto = made
      BY <3>2, <3>3 DEF Setting
    <3>5. settings' = [settings EXCEPT ![k] = e]
      BY <2>2, <3>3 DEF RevokeOthers
    <3>6. settings' \in Seq(Setting) /\ Len(settings') = Len(settings)
          /\ DOMAIN settings' = DOMAIN settings
      BY <2>0, <3>1, <3>5
    <3>7. \A i \in DOMAIN settings : settings'[i] = IF i = k THEN e ELSE settings[i]
      BY <2>0, <3>5
    <3> QED BY <3>1, <3>4, <3>6, <3>7
  <2> QED BY <2>1, <2>2
<1>12. LoginTypes'
  BY <1>1, <1>2, <1>5, <1>11 DEF LoginInv, LoginTypes, Dwindle, Same, factorVars
<1>13. ResetsClaimed'
  <2>1. \A t \in Token : Claimed(t) => Claimed(t)'
    BY <1>6, ClaimedStays
  <2>2. ASSUME NEW i \in DOMAIN settings
        PROVE  /\ settings'[i].kind = "RESET" => settings'[i].token \in Token
               /\ settings'[i].kind = "CHANGE" => settings'[i].token = Nothing
    BY <1>11, <2>1 DEF LoginInv, ResetsClaimed
  <2>3. ASSUME NEW i \in DOMAIN settings, settings'[i].kind = "RESET"
        PROVE  Claimed(settings[i].token)'
    BY <1>11, <2>1, <2>3 DEF LoginInv, ResetsClaimed
  <2> QED BY <1>11, <2>2, <2>3 DEF LoginInv, ResetsClaimed
<1>14. Revoking'
  <2>1. made <= made
    BY TablesKept
  <2>2. \A i \in DOMAIN settings' : settings'[i].upto <= made'
    BY <1>1, <1>11, <2>1 DEF LoginInv, Revoking
  <2>3. ASSUME NEW q \in Handlers, statement'[q] = "revoke others", job'[q].password # 0
        PROVE  /\ job'[q].password \in DOMAIN settings'
               /\ settings'[job'[q].password].keep = job'[q].session
    <3>1. statement[q] = "revoke others" /\ job'[q] = job[q]
      BY <1>5, <2>3 DEF Same
    <3>2. PICK i \in DOMAIN settings : i = job[q].password /\ settings[i].keep = job[q].session
      BY <2>3, <3>1 DEF LoginInv, Revoking
    <3> QED BY <1>11, <3>1, <3>2
  <2> QED BY <2>2, <2>3 DEF Revoking
<1>15. SignedOut'
  <2> SUFFICES ASSUME NEW s \in sessions', s.active, NEW i \in DOMAIN settings,
                      s.id <= settings'[i].upto
               PROVE  s.id = settings'[i].keep
    BY <1>11 DEF SignedOut, Active
  <2>1. s \in Active /\ s.id = job[r].session
    BY <1>2
  <2> QED BY <1>11, <2>1 DEF LoginInv, SignedOut
<1> QED
  BY <1>8, <1>9, <1>10, <1>12, <1>13, <1>14, <1>15 DEF LoginInv

\* One more password.
LEMMA Appended ==
  ASSUME LoginInv, NEW e \in Setting, settings' = Append(settings, e)
  PROVE  /\ settings' \in Seq(Setting) /\ Len(settings') = password + 1
         /\ password + 1 \in DOMAIN settings' /\ settings'[password + 1] = e
         /\ \A i \in DOMAIN settings :
              i \in DOMAIN settings' /\ settings'[i] = settings[i] /\ i # password + 1
         /\ \A i \in DOMAIN settings' : i \in DOMAIN settings \/ i = password + 1
<1>1. settings \in Seq(Setting) /\ Len(settings) = password /\ password \in Nat
  BY DEF LoginInv, LoginTypes
<1> QED BY <1>1

LEMMA SetPasswordKeeps ==
  ASSUME LoginInv, Tables, Dwindle, codes' \subseteq codes, now' \in Nat,
         password' = password + 1, NEW e \in Setting, settings' = Append(settings, e),
         statement' \in [Handlers -> Statements], job' \in [Handlers -> Job],
         \A r \in Handlers : Decent(r), BatchesApart', ResetHolds',
         e.kind = "RESET" => e.token \in tokens /\ e.token \notin tokens',
         e.kind = "CHANGE" => e.token = Nothing,
         e.upto <= made, \A s \in sessions' : s.active => ~(s.id <= e.upto),
         \A r \in Handlers : statement'[r] = "revoke others" =>
           \/ Same(r)
           \/ job'[r].password = password + 1 /\ job'[r].session = e.keep
  PROVE  LoginInv'
<1>1. made \in Nat /\ made' \in Nat /\ made <= made' /\ password \in Nat
  BY DEF LoginInv, LoginTypes, Tables
<1>2. /\ Numbered' /\ OneCredential' /\ OneRow'
      /\ ChallengesClaimed' /\ CodesSpent'
  BY RestKeeps
<1>3. Inserting'
  BY InsertingStays DEF Decent, BatchesApart
<1>4. /\ settings' \in Seq(Setting) /\ Len(settings') = password + 1
      /\ password + 1 \in DOMAIN settings' /\ settings'[password + 1] = e
      /\ \A i \in DOMAIN settings :
           i \in DOMAIN settings' /\ settings'[i] = settings[i] /\ i # password + 1
      /\ \A i \in DOMAIN settings' : i \in DOMAIN settings \/ i = password + 1
  BY Appended
<1>5. LoginTypes'
  <2>1. password' \in Nat /\ settings' \in Seq(Setting) /\ Len(settings') = password'
    <3>1. password + 1 \in Nat
      BY <1>1, Successor
    <3> QED BY <1>4, <3>1, Zenon
  <2>2. \A r \in Handlers : statement'[r] = "idle" => job'[r] = NoJob
    BY DEF Decent
  <2> QED BY <2>1, <2>2 DEF LoginInv, LoginTypes, Tables, Dwindle
<1>6. ResetsClaimed'
  <2>1. e.kind = "RESET" => e.token \in Token /\ Claimed(e.token)'
    <3> SUFFICES ASSUME NEW t \in tokens, t \notin tokens'
                 PROVE  t \in Token /\ Claimed(t)'
      BY DEF Claimed
    <3>1. t \in Token /\ t.id \in Nat /\ t.id <= made
      BY DEF LoginInv, LoginTypes, Numbered, Token
    <3> QED BY <1>1, <3>1, AtMost DEF Claimed
  <2>2. \A i \in DOMAIN settings : settings[i].kind = "RESET" =>
          settings[i].token \in Token /\ settings[i].token \notin tokens
    BY DEF LoginInv, ResetsClaimed, Claimed
  <2>3. \A t \in Token : Claimed(t) => Claimed(t)'
    BY ClaimedStays
  <2>4. ASSUME NEW i \in DOMAIN settings'
        PROVE  settings'[i].kind = "CHANGE" => settings'[i].token = Nothing
    <3>1. CASE i = password + 1
      BY <1>4, <3>1
    <3>2. CASE i \in DOMAIN settings
      <4>1. settings'[i] = settings[i]
        BY <1>4, <3>2
      <4> QED BY <3>2, <4>1 DEF LoginInv, ResetsClaimed
    <3> QED BY <1>4, <3>1, <3>2
  <2>5. ASSUME NEW i \in DOMAIN settings', settings'[i].kind = "RESET"
        PROVE  \E t \in Token : t = settings'[i].token /\ Claimed(t)'
    <3>1. CASE i = password + 1
      BY <1>4, <2>1, <2>5, <3>1
    <3>2. CASE i \in DOMAIN settings
      BY <1>4, <2>3, <2>5, <3>2 DEF LoginInv, ResetsClaimed
    <3> QED BY <1>4, <3>1, <3>2
  <2>6. ASSUME NEW i \in DOMAIN settings', NEW j \in DOMAIN settings', i # j,
               settings'[i].kind = "RESET"
        PROVE  settings'[i].token # settings'[j].token
    <3>1. CASE i \in DOMAIN settings /\ j \in DOMAIN settings
      <4>1. settings'[i] = settings[i] /\ settings'[j] = settings[j]
        BY <1>4, <3>1
      <4> QED BY <2>6, <3>1, <4>1 DEF LoginInv, ResetsClaimed
    <3>2. settings[j].kind \in {"CHANGE", "RESET"} \/ j \notin DOMAIN settings
      BY SettingTypes DEF LoginInv, Setting
    <3>3. CASE i = password + 1 /\ j \in DOMAIN settings
      <4>1. settings'[i] = e /\ settings'[j] = settings[j] /\ e.token \in tokens
        BY <1>4, <2>6, <3>3
      <4>2. settings[j].token = Nothing \/ settings[j].token \notin tokens
        BY <2>2, <3>2, <3>3 DEF LoginInv, ResetsClaimed
      <4> QED BY <4>1, <4>2, NoneTypes DEF LoginInv, LoginTypes
    <3>4. CASE i \in DOMAIN settings /\ j = password + 1
      <4>1. settings'[i] = settings[i] /\ settings'[j] = e
        BY <1>4, <3>4
      <4>2. settings[i].token \in Token /\ settings[i].token \notin tokens
        BY <2>2, <2>6, <3>4, <4>1
      <4>3. e.token = Nothing \/ e.token \in tokens
        BY DEF Setting
      <4> QED BY <4>1, <4>2, <4>3, NoneTypes
    <3> QED BY <1>4, <2>6, <3>1, <3>3, <3>4
  <2> QED BY <2>4, <2>5, <2>6 DEF ResetsClaimed, Claimed
<1>7. Revoking'
  <2>1. ASSUME NEW i \in DOMAIN settings'
        PROVE  settings'[i].upto <= made'
    <3>1. PICK f \in Setting : f = settings'[i] /\ f.upto <= made
      BY <1>4, SettingTypes DEF LoginInv, Revoking
    <3>2. f.upto \in Nat
      BY DEF Setting
    <3> QED BY <1>1, <3>1, <3>2, AtMost
  <2>2. ASSUME NEW r \in Handlers, statement'[r] = "revoke others", job'[r].password # 0
        PROVE  /\ job'[r].password \in DOMAIN settings'
               /\ settings'[job'[r].password].keep = job'[r].session
    <3>1. CASE Same(r)
      <4>1. statement[r] = "revoke others" /\ job'[r] = job[r]
        BY <2>2, <3>1 DEF Same
      <4>2. PICK i \in DOMAIN settings :
              i = job[r].password /\ settings[i].keep = job[r].session
        BY <2>2, <4>1 DEF LoginInv, Revoking
      <4> QED BY <1>4, <4>1, <4>2
    <3>2. CASE job'[r].password = password + 1 /\ job'[r].session = e.keep
      BY <1>4, <3>2
    <3> QED BY <2>2, <3>1, <3>2
  <2> QED BY <2>1, <2>2 DEF Revoking
<1>8. SignedOut'
  <2> SUFFICES ASSUME NEW s \in sessions', s.active, NEW i \in DOMAIN settings',
                      s.id <= settings'[i].upto
               PROVE  s.id = settings'[i].keep
    BY DEF SignedOut, Active
  <2>1. s \in sessions
    BY DEF Dwindle
  <2>2. i \in DOMAIN settings /\ settings'[i] = settings[i]
    BY <1>4
  <2> QED BY <2>1, <2>2 DEF LoginInv, SignedOut, Active
<1> QED
  BY <1>2, <1>3, <1>5, <1>6, <1>7, <1>8 DEF LoginInv

\* A change of the password: nothing is revoked yet, and the request knows which
\* change it has made.
LEMMA ChangeWriteKeeps ==
  ASSUME LoginInv, NEW r \in Handlers, ChangeWrite(r)
  PROVE  LoginInv'
<1>1. /\ userLock = Nothing /\ password' = password + 1
      /\ UNCHANGED <<verified, userLock, factorVars, tokens, expired, sessions, made>>
  BY DEF ChangeWrite
<1>2. PICK e \in Setting :
        /\ settings' = Append(settings, e) /\ e.kind = "CHANGE" /\ e.token = Nothing
        /\ e.keep = job[r].session /\ e.upto = 0
  <2>1. PICK e \in Setting :
          e = [kind |-> "CHANGE", token |-> Nothing, keep |-> job[r].session, upto |-> 0]
    BY JobTypes DEF Setting, Job
  <2> QED BY <2>1 DEF ChangeWrite
<1>3. PICK j \in Job : j = [job[r] EXCEPT !.password = password + 1]
  <2>1. password + 1 \in Nat
    BY DEF LoginInv, LoginTypes
  <2> QED BY <2>1, JobTypes DEF Job
<1>4. /\ j.token = job[r].token /\ j.upto = job[r].upto
      /\ j.session = job[r].session /\ j.password = password + 1
  BY <1>3, JobTypes DEF Job
<1>5. statement' = [statement EXCEPT ![r] = "revoke others"] /\ job' = [job EXCEPT ![r] = j]
  BY <1>3 DEF ChangeWrite, GoOn
<1>6. "revoke others" \in Statements
  BY DEF Statements
<1>7. /\ statement' \in [Handlers -> Statements] /\ job' \in [Handlers -> Job]
      /\ statement'[r] = "revoke others" /\ job'[r] = j
      /\ \A q \in Handlers : q # r => Same(q) /\ Proper(q)
  BY <1>5, <1>6, Put
<1>8. \A q \in Handlers : Decent(q)
  BY <1>1, <1>4, <1>7, JobTypes DEF Proper, Decent, Inserts, Claims, Spends, Logins
<1>9. BatchesApart'
  BY <1>7 DEF LoginInv, Inserting, BatchesApart, Same
<1>10. ResetHolds'
  BY <1>1, <1>7, TablesKept DEF ResetHolds, Same
<1>11. Tables /\ Dwindle
  BY <1>1, TablesUnmoved, SameSessions DEF factorVars
<1>12. e.upto <= made
  BY <1>2, FreshJob
<1>13. ASSUME NEW s \in sessions
       PROVE  ~(s.id <= e.upto)
  <2>1. s.id \in Nat \ {0}
    BY DEF LoginInv, LoginTypes, Session
  <2> QED BY <1>2, <2>1, Positive
<1>14. \A q \in Handlers : statement'[q] = "revoke others" =>
         Same(q) \/ (job'[q].password = password + 1 /\ job'[q].session = e.keep)
  BY <1>2, <1>4, <1>7
<1> QED
  BY <1>1, <1>2, <1>7, <1>8, <1>9, <1>10, <1>11, <1>12, <1>13, <1>14,
     SetPasswordKeeps, TablesKept DEF factorVars

\* The commit of a reset: the sessions it has seen end, and the token, which
\* nobody could claim since, is gone.
LEMMA ResetCommitKeeps ==
  ASSUME LoginInv, NEW r \in Handlers, ResetCommit(r)
  PROVE  LoginInv'
<1> DEFINE Seen == {s \in Active : s.id <= job[r].upto}
<1>1. /\ statement[r] = "reset locked" /\ password' = password + 1
      /\ tokens' = tokens \ {job[r].token} /\ sessions' = Revoked(Seen)
      /\ UNCHANGED <<verified, factorVars, expired, made>>
  BY DEF ResetCommit, IsAt
<1>2. userLock = r /\ job[r].token \in tokens
  BY <1>1, TablesKept
<1>3. PICK e \in Setting :
        /\ settings' = Append(settings, e) /\ e.kind = "RESET" /\ e.token = job[r].token
        /\ e.upto = job[r].upto
  <2>1. PICK e \in Setting :
          e = [kind |-> "RESET", token |-> job[r].token, keep |-> Nothing,
               upto |-> job[r].upto]
    BY JobTypes DEF Setting, Job
  <2> QED BY <2>1 DEF ResetCommit
<1>4. statement' = [statement EXCEPT ![r] = "idle"] /\ job' = [job EXCEPT ![r] = NoJob]
  BY DEF ResetCommit, End, GoOn
<1>5. "idle" \in Statements
  BY DEF Statements
<1>6. /\ statement' \in [Handlers -> Statements] /\ job' \in [Handlers -> Job]
      /\ statement'[r] = "idle" /\ job'[r] = NoJob
      /\ \A q \in Handlers : q # r => Same(q) /\ Proper(q)
  BY <1>4, <1>5, NoJobType, Put
<1>7. \A q \in Handlers : Decent(q)
  BY <1>1, <1>6, FreshJob DEF Proper, Decent, Inserts, Claims, Spends, Logins
<1>8. BatchesApart'
  BY <1>6 DEF LoginInv, Inserting, BatchesApart, Same
<1>9. ResetHolds'
  BY <1>2, <1>6, TablesKept DEF ResetHolds, Same
<1>10. Tables
  BY <1>1, TablesUnmoved DEF factorVars
<1>11. Dwindle /\ \A s \in sessions' : s.active => s \in Active /\ s \notin Seen
  BY <1>1, RevokedDwindles DEF Active
<1>12. e.upto <= made
  BY <1>3, JobTypes
<1>13. \A s \in sessions' : s.active => ~(s.id <= e.upto)
  BY <1>3, <1>11
<1>14. \A q \in Handlers : statement'[q] = "revoke others" => Same(q)
  BY <1>6
<1> QED
  BY <1>1, <1>2, <1>3, <1>6, <1>7, <1>8, <1>9, <1>10, <1>11, <1>12, <1>13, <1>14,
     SetPasswordKeeps, TablesKept DEF factorVars
-----------------------------------------------------------------------------
(***************************************************************************)
(* The invariant, and the properties it is there for.                      *)
(***************************************************************************)

LEMMA StepKeepsInv ==
  ASSUME LoginInv, NEW r \in Handlers, LoginStep(r)
  PROVE  LoginInv'
<1>1. ASSUME NEW kind \in {"VERIFY", "RESET"}, IssueToken(r, kind)
      PROVE  LoginInv'
  BY <1>1, IssueKeeps
<1>2. ASSUME NEW t \in tokens, VerifyBegin(r, t) \/ ResetBegin(r, t) \/ LoginChallenge(r, t)
      PROVE  LoginInv'
  <2>1. PICK p \in {"verify", "reset", "login factor"} : ReadToken(r, t, p)
    BY <1>2 DEF VerifyBegin, ResetBegin, LoginChallenge
  <2>2. UNCHANGED <<accountVars, factorVars, tokens, sessions, made>>
    BY <1>2 DEF VerifyBegin, ResetBegin, LoginChallenge
  <2>3. p \in Statements \ Guarded /\ p # "idle"
    BY DEF Statements, Guarded
  <2> QED BY <2>1, <2>2, <2>3, ReadKeeps
<1>3. ASSUME NEW s \in sessions,
             NEW p \in {"change", "revoke others", "setup", "confirm", "disable read",
                        "recover read"},
             WithSession(r, s, p)
      PROVE  LoginInv'
  BY <1>3, WithSessionKeeps
<1>4. CASE Verify(r) \/ ResetWrite(r) \/ ResetCommit(r) \/ ClaimRefused(r) \/ Fail(r)
  BY <1>4, VerifyKeeps, ResetWriteKeeps, ResetCommitKeeps, RefuseKeeps
<1>5. CASE LoginRead(r) \/ Challenge(r) \/ Spend(r) \/ ClaimChallenge(r) \/ CreateSession(r)
  BY <1>5, LoginReadKeeps, ChallengeKeeps, SpendKeeps, ClaimChallengeKeeps, CreateSessionKeeps
<1>6. CASE ChangeRead(r) \/ ChangeWrite(r) \/ RevokeOthers(r) \/ ConfirmRead(r)
  BY <1>6, JobReadKeeps, ChangeWriteKeeps, RevokeOthersKeeps
<1>7. CASE SetupRead(r) \/ SetupDelete(r) \/ SetupInsert(r) \/ ConfirmWrite(r) \/ DisableTotp(r)
  BY <1>7, SetupReadKeeps, SetupInsertKeeps, CredentialKeeps
<1>8. CASE CodesDelete(r) \/ CodesInsert(r) \/ DisableCodes(r)
  BY <1>8, CodesDeleteKeeps, CodesInsertKeeps, DisableCodesKeeps
<1>9. CASE \/ FactorRead(r, "login factor", "login code")
           \/ FactorRead(r, "disable read", "disable code")
           \/ FactorRead(r, "recover read", "recover code")
  BY <1>9, FactorReadKeeps
<1> QED BY <1>1, <1>2, <1>3, <1>4, <1>5, <1>6, <1>7, <1>8, <1>9 DEF LoginStep

LEMMA InitKnown == LoginInit => LoginInv
<1> SUFFICES ASSUME LoginInit
             PROVE  LoginInv
  OBVIOUS
<1>1. NoJob \in Job /\ NoJob.token = Nothing /\ NoJob.upto = 0
  BY NoJobType DEF NoJob
<1>2. "idle" \in Statements
  BY DEF Statements
<1>3. /\ statement \in [Handlers -> Statements] /\ job \in [Handlers -> Job]
      /\ \A r \in Handlers : statement[r] = "idle" /\ job[r] = NoJob
  BY <1>1, <1>2 DEF LoginInit
<1>4. totp \subseteq Credential /\ (\A c \in totp : c.id <= made) /\ OneCredential
  <2>1. [id |-> 1, confirmed |-> TRUE, used |-> -1] \in Credential
    BY DEF Credential
  <2>2. [id |-> 1, confirmed |-> TRUE, used |-> -1].id = 1
    OBVIOUS
  <2>3. PICK c \in Credential : c.id = 1 /\ totp \in {{}, {c}}
    BY <2>1, <2>2 DEF LoginInit
  <2>4. made = 1 /\ 1 <= 1
    BY DEF LoginInit
  <2> QED BY <2>3, <2>4 DEF OneCredential
<1>5. codes \subseteq RecoveryCode /\ \A c \in codes : c.batch <= made
  BY DEF LoginInit, Batch, RecoveryCode
<1>6. /\ settings = <<>> /\ password = 0 /\ made = 1 /\ made \in Nat /\ now \in Nat
      /\ 0 <= made /\ 1 <= made
  BY DEF LoginInit
<1>7. PICK u \in Session : /\ sessions \in {{}, {u}} /\ u.id = 1
                           /\ u.challenge = Nothing /\ u.code = Nothing
  <2>1. PICK u \in Session :
          u = [id |-> 1, active |-> TRUE, password |-> 0, challenge |-> Nothing,
               code |-> Nothing, secret |-> Nothing]
    <3>1. 1 \in Nat \ {0} /\ 0 \in Nat
      OBVIOUS
    <3> QED BY <3>1, Zenon DEF Session
  <2> QED BY <2>1 DEF LoginInit
<1>8. PICK t \in Token : tokens \in {{}, {t}} /\ t.id = 1
  <2>1. PICK t \in Token : t = [kind |-> "CHALLENGE", id |-> 1]
    BY DEF Token
  <2> QED BY <2>1 DEF LoginInit
<1>9. LoginTypes
  BY <1>3, <1>4, <1>5, <1>6, <1>7, <1>8 DEF LoginTypes
<1>10. Numbered
  BY <1>1, <1>3, <1>4, <1>6, <1>7, <1>8 DEF Numbered
<1>11. ChallengesClaimed /\ CodesSpent /\ ResetHolds /\ OneRow
  BY <1>3, <1>7 DEF ChallengesClaimed, CodesSpent, ResetHolds, OneRow
<1>12. Inserting
  BY <1>3, <1>5 DEF Inserting, Behind
<1>13. DOMAIN settings = {}
  BY <1>6
<1>14. ResetsClaimed /\ Revoking /\ SignedOut
  BY <1>3, <1>13 DEF ResetsClaimed, Revoking, SignedOut
<1> QED
  BY <1>4, <1>9, <1>10, <1>11, <1>12, <1>14 DEF LoginInv

LEMMA StutterKeeps ==
  ASSUME LoginInv, UNCHANGED loginVars
  PROVE  LoginInv'
<1>1. Located
  BY DEF LoginInv, LoginTypes, loginVars, Located, Harmless, ResetHolds, accountVars
<1> QED BY <1>1, Unmoved, TablesKept DEF loginVars, accountVars, factorVars

\* The inductive invariant of the account: whatever was given out bears a number
\* that has been reached, and what was claimed or spent is gone for good.
THEOREM LoginInvariant == LoginSpec => []LoginInv
<1>1. LoginInv /\ [LoginNext]_loginVars => LoginInv'
  <2> SUFFICES ASSUME LoginInv, [LoginNext]_loginVars
               PROVE  LoginInv'
    OBVIOUS
  <2>1. CASE \E r \in Handlers : LoginStep(r)
    BY <2>1, StepKeepsInv
  <2>2. CASE \E s \in sessions : EndSession(s)
    BY <2>2, EndSessionKeeps
  <2>3. CASE ProcessDies \/ Tick \/ \E t \in tokens : Expire(t)
    BY <2>3, ProcessDiesKeeps, TimeKeeps
  <2>4. CASE UNCHANGED loginVars
    BY <2>4, StutterKeeps
  <2> QED BY <2>1, <2>2, <2>3, <2>4 DEF LoginNext
<1> QED BY <1>1, InitKnown, PTL DEF LoginSpec

\* docs/IDENTITY_SECURITY.md:13 for any number of handlers that overlap and stop
\* anywhere: no two logins rest on the same challenge, recovery code or code of
\* the authenticator (one of a secret that was replaced between its being read
\* and the UPDATE excepted), and no two passwords on the same reset token.
THEOREM CodesUsedOnce == LoginSpec => []UsedOnce
<1>1. LoginInv => UsedOnce
  <2> SUFFICES ASSUME LoginInv
               PROVE  UsedOnce
    OBVIOUS
  <2>1. ASSUME NEW s \in sessions, NEW t \in sessions, s # t, s.code # Nothing
        PROVE  /\ s.challenge # t.challenge
               /\ t.code # Nothing /\ Typed(s) = Typed(t) => Replaced(s) \/ Replaced(t)
    <3>1. s.id # t.id
      BY <2>1 DEF LoginInv, OneRow
    <3>2. s.challenge # Nothing
      BY <2>1 DEF LoginInv, ChallengesClaimed
    <3>3. s.challenge # t.challenge /\ s.code # t.code
      BY <2>1, <3>1, <3>2 DEF LoginInv, ChallengesClaimed, CodesSpent
    <3>4. ASSUME NEW u \in sessions, u.code # Nothing, ~Replaced(u)
          PROVE  Typed(u) = u.code
      <4>1. u.code \in Code
        BY <3>4 DEF LoginInv, LoginTypes, Session
      <4>2. CASE u.code.kind = "TOTP"
        <5>1. u.code \in [kind : {"TOTP"}, of : Nat, n : Nat] /\ u.code.of = u.secret
          BY <3>4, <4>1, <4>2 DEF Replaced, Code, RecoveryCode
        <5>2. [u.code EXCEPT !.of = u.secret] = u.code
          BY <5>1
        <5> QED BY <4>2, <5>2 DEF Typed
      <4> QED BY <4>2 DEF Typed
    <3> QED BY <2>1, <3>3, <3>4
  <2> QED BY <2>1 DEF UsedOnce, LoginInv, ResetsClaimed
<1> QED BY <1>1, LoginInvariant, PTL

\* docs/IDENTITY_SECURITY.md:29 for any number of logins, changes and resets on
\* their way: no session that was there when the others were revoked is active
\* again, but the one the password was changed from.
THEOREM SessionsSignedOut == LoginSpec => []SignedOut
<1>1. LoginInv => SignedOut
  BY DEF LoginInv
<1> QED BY <1>1, LoginInvariant, PTL

-----------------------------------------------------------------------------
(***************************************************************************)
(* The members of a tenant, and the audit trail.                           *)
(***************************************************************************)

Phases ==
  AuditPhases \union {"idle", "tx queued", "tx begun", "tx locked", "tx read",
                      "inner queued", "inner begun"}

\* The connections a request has checked out follow from where it is.
Holding(p) ==
  IF p \in {"idle", "tx queued", "audit queued"} THEN 0
  ELSE IF p = "inner begun" THEN 2 ELSE 1

Connected ==
  /\ phase \in [Requests -> Phases]
  /\ held \in [Requests -> Nat]
  /\ \A r \in Requests : held[r] = Holding(phase[r])

TypeInv ==
  /\ advisory \in Requests \union {None}
  /\ clock \in Nat
  /\ begun \in [Requests -> Nat]
  /\ row \in [Requests -> Nat]
  /\ trail \subseteq AuditEvent
  /\ status \in [Users -> Statuses \union {"NONE"}]
  /\ roles \in [Users -> SUBSET Roles]
  /\ stranded \in BOOLEAN
  /\ tenantLock \in Requests \union {None}
  /\ op \in [Requests -> Operation \union {None}]

\* There is a newest event, so Newest says which.
SomeNewest == \E t \in Times(trail) : \A u \in Times(trail) : u <= t

\* A request under way knows what it is asked for; one that waits for a second
\* connection is an import.
OpKnown ==
  \A r \in Requests :
    /\ phase[r] # "idle" => op[r] \in Operation
    /\ phase[r] \in {"inner queued", "inner begun"} => op[r].kind = "IMPORT"

Writing == {"audit locked", "audit begun", "audit inserted"}

\* The advisory lock lets one request write at a time.
OneWriter == \A r \in Requests : phase[r] \in Writing => advisory = r

\* What has been committed is older than what is being written, and what is
\* being written refers to the newest of it.
WriterIsNewest ==
  /\ \A e \in trail : e.time <= clock
  /\ \A r \in Requests :
       phase[r] \in {"audit begun", "audit inserted"} =>
         /\ begun[r] <= clock
         /\ \A e \in trail : e.time < begun[r]
  /\ \A r \in Requests : phase[r] = "audit inserted" => row[r] = Newest(trail)

\* Each event refers to the one before, and is stored as the column spells it.
Chained ==
  \A e \in trail : Linked(e) /\ e.object = Stored(e.hashed)

InTenantLock(r) ==
  phase[r] = "tx locked" \/ (phase[r] = "tx read" /\ Locks(op[r]))

\* The tenant's row lets one request at a time count the Owners and write.
OneCounter == \A r \in Requests : InTenantLock(r) => tenantLock = r

\* The operations that may take an Owner away.
Takes(o) ==
  \/ o.kind = "REMOVE"
  \/ o.kind = "STATUS" /\ o.status # "ACTIVE" /\ o.status # "INVITED"
  \/ o.kind = "REVOKE" /\ o.role = "Owner"

\* The other Owner a request has found is still there when it writes.
OthersRemain ==
  \A r \in Requests :
    phase[r] = "tx read" /\ Takes(op[r]) =>
      stranded \/ ActiveOwners \ {op[r].user} # {}

AccessInv ==
  /\ Connected /\ TypeInv /\ SomeNewest /\ OpKnown
  /\ OneWriter /\ WriterIsNewest /\ Chained
  /\ OneCounter /\ OthersRemain /\ LastOwnerKept
-----------------------------------------------------------------------------
(***************************************************************************)
(* Types.                                                                  *)
(***************************************************************************)

LEMMA NewestIsNat ==
  ASSUME TypeInv, SomeNewest
  PROVE  Newest(trail) \in Nat
<1>1. Times(trail) \subseteq Nat
  BY DEF TypeInv, Times, AuditEvent
<1>2. Newest(trail) \in Times(trail)
  BY DEF SomeNewest, Newest
<1>. QED
  BY <1>1, <1>2

LEMMA OperationFields ==
  ASSUME NEW o \in Operation
  PROVE  /\ o.kind \in {"STATUS", "ADD", "ASSIGN", "REVOKE", "REMOVE", "IMPORT", "CHANGE"}
         /\ o.kind \notin {"IMPORT", "CHANGE"} => o.user \in Users
         /\ o.kind = "STATUS" => o.status \in Statuses
         /\ o.kind \in {"ADD", "ASSIGN", "REVOKE"} => o.role \in Roles
BY DEF Operation

\* What an operation writes.
LEMMA WriteType ==
  ASSUME TypeInv, NEW o \in Operation, Write(o)
  PROVE  /\ status' \in [Users -> Statuses \union {"NONE"}]
         /\ roles' \in [Users -> SUBSET Roles]
<1> USE OperationFields DEF TypeInv, Write
<1>1. CASE o.kind = "STATUS"
  BY <1>1
<1>2. CASE o.kind = "REMOVE"
  BY <1>2 DEF Statuses
<1>3. CASE o.kind = "ADD"
  BY <1>3 DEF IsMember, Statuses
<1>4. CASE o.kind = "ASSIGN"
  BY <1>4
<1>5. CASE o.kind = "REVOKE"
  BY <1>5
<1>6. CASE o.kind \in {"IMPORT", "CHANGE"}
  BY <1>6
<1>. QED
  BY <1>1, <1>2, <1>3, <1>4, <1>5, <1>6

\* A request that goes somewhere holds what it then should.
LEMMA Moves ==
  ASSUME Connected, NEW r \in Requests, NEW q \in Phases,
         phase' = [phase EXCEPT ![r] = q],
         held' = [held EXCEPT ![r] = Holding(q)]
  PROVE  Connected'
<1>1. Holding(q) \in Nat
  BY DEF Holding
<1>. QED
  BY <1>1 DEF Connected

\* What a phase holds.
LEMMA HoldingOf ==
  /\ {"idle", "tx queued", "tx begun", "tx locked", "tx read", "inner queued",
      "inner begun"} \subseteq Phases
  /\ AuditPhases \subseteq Phases
  /\ \A p \in {"idle", "tx queued", "audit queued"} : Holding(p) = 0
  /\ \A p \in {"tx begun", "tx locked", "tx read", "inner queued",
               "audit connected", "audit locked", "audit begun",
               "audit inserted"} : Holding(p) = 1
  /\ Holding("inner begun") = 2
<1>1. AuditPhases \subseteq Phases
  BY DEF Phases
<1>. QED
  BY <1>1 DEF Phases, Holding

LEMMA ConnectedStep ==
  ASSUME Connected, OpKnown, [Next]_vars
  PROVE  Connected'
<1>a. ASSUME NEW r \in Requests, NEW p \in Phases, NEW q \in Phases,
             At(r, p), GoTo(r, q), UNCHANGED held, Holding(p) = Holding(q)
      PROVE  Connected'
  BY <1>a DEF Connected, At, GoTo
<1>b. ASSUME NEW r \in Requests, NEW p \in Phases, NEW q \in Phases,
             At(r, p), GoTo(r, q), held' = [held EXCEPT ![r] = @ + 1],
             <<Holding(p), Holding(q)>> \in {<<0, 1>>, <<1, 2>>}
      PROVE  Connected'
  <2>1. held[r] = Holding(p)
    BY <1>b DEF Connected, At
  <2>2. held[r] + 1 = Holding(q)
    <3>1. CASE Holding(p) = 0 /\ Holding(q) = 1
      BY <2>1, <3>1
    <3>2. CASE Holding(p) = 1 /\ Holding(q) = 2
      BY <2>1, <3>2
    <3>. QED
      BY <1>b, <3>1, <3>2
  <2>3. held' = [held EXCEPT ![r] = Holding(q)]
    BY <1>b, <2>2
  <2>. QED
    BY <1>b, <2>3, Moves DEF GoTo
<1>c. ASSUME NEW r \in Requests, NEW p \in Phases, NEW q \in Phases,
             At(r, p), GoTo(r, q), held' = [held EXCEPT ![r] = @ - 1],
             <<Holding(p), Holding(q)>> \in {<<1, 0>>, <<2, 1>>}
      PROVE  Connected'
  <2>1. held[r] = Holding(p)
    BY <1>c DEF Connected, At
  <2>2. held[r] - 1 = Holding(q)
    <3>1. CASE Holding(p) = 1 /\ Holding(q) = 0
      BY <2>1, <3>1
    <3>2. CASE Holding(p) = 2 /\ Holding(q) = 1
      BY <2>1, <3>2
    <3>. QED
      BY <1>c, <3>1, <3>2
  <2>3. held' = [held EXCEPT ![r] = Holding(q)]
    BY <1>c, <2>2
  <2>. QED
    BY <1>c, <2>3, Moves DEF GoTo
<1>d. ASSUME NEW r \in Requests, NEW p \in Phases, TimeOut(r, p)
      PROVE  Connected'
  <2>1. "idle" \in Phases /\ Holding("idle") = 0
    BY HoldingOf
  <2>. QED
    BY <1>d, <2>1, Moves DEF Connected, TimeOut, GoTo
<1> USE HoldingOf
<1>1. ASSUME NEW r \in Requests, NEW o \in Operation, Enter(r, o)
      PROVE  Connected'
  BY <1>1, <1>a DEF Enter
<1>2. ASSUME NEW r \in Requests, TxConnect(r)
      PROVE  Connected'
  BY <1>2, <1>b DEF TxConnect, CheckOut
<1>3. ASSUME NEW r \in Requests, TxTimeOut(r)
      PROVE  Connected'
  BY <1>3, <1>d DEF TxTimeOut
<1>4. ASSUME NEW r \in Requests, TxLock(r)
      PROVE  Connected'
  BY <1>4, <1>a DEF TxLock
<1>5. ASSUME NEW r \in Requests, TxRead(r)
      PROVE  Connected'
  BY <1>5, <1>a DEF TxRead
<1>6. ASSUME NEW r \in Requests, TxRefuse(r)
      PROVE  Connected'
  BY <1>6, <1>c DEF TxRefuse
<1>7. ASSUME NEW r \in Requests, TxCommit(r)
      PROVE  Connected'
  <2>1. /\ At(r, "tx read") /\ GoTo(r, "audit queued")
        /\ held' = [held EXCEPT ![r] = @ - 1]
    BY <1>7 DEF TxCommit
  <2>. QED
    BY <2>1, <1>c DEF AuditPhases
<1>8. ASSUME NEW r \in Requests, InnerConnect(r)
      PROVE  Connected'
  BY <1>8, <1>b DEF InnerConnect, CheckOut
<1>9. ASSUME NEW r \in Requests, InnerTimeOut(r)
      PROVE  Connected'
  BY <1>9, <1>d DEF InnerTimeOut
<1>10. ASSUME NEW r \in Requests, InnerCommit(r)
      PROVE  Connected'
  BY <1>10, <1>c DEF InnerCommit
<1>11. ASSUME NEW r \in Requests, NEW id, AuditNext(r, id)
      PROVE  Connected'
  <2>1. CASE AuditConnect(r)
    BY <2>1, <1>b DEF AuditConnect, CheckOut, AuditPhases
  <2>2. CASE AuditTimeOut(r)
    BY <2>2, <1>d DEF AuditTimeOut, AuditPhases
  <2>3. CASE AuditLock(r)
    BY <2>3, <1>a DEF AuditLock, AuditPhases
  <2>4. CASE AuditBegin(r)
    BY <2>4, <1>a DEF AuditBegin, AuditPhases
  <2>5. CASE AuditInsert(r)
    BY <2>5, <1>a DEF AuditInsert, AuditPhases
  <2>6. CASE AuditCommit(r, id)
    BY <2>6, <1>c DEF AuditCommit, AuditPhases
  <2>7. CASE AuditFail(r)
    <3>1. PICK p \in {"audit connected", "audit locked", "audit begun", "audit inserted"} :
            At(r, p)
      BY <2>7 DEF AuditFail, AuditPhases, At
    <3>. QED
      BY <2>7, <3>1, <1>c DEF AuditFail, AuditPhases
  <2>. QED
    BY <1>11, <2>1, <2>2, <2>3, <2>4, <2>5, <2>6, <2>7 DEF AuditNext
<1>12. CASE Crash
  BY <1>12 DEF Crash, AuditCrash, Connected
<1>13. CASE UNCHANGED vars
  BY <1>13 DEF vars, auditVars, Connected
<1>. QED
  BY <1>1, <1>2, <1>3, <1>4, <1>5, <1>6, <1>7, <1>8,
     <1>9, <1>10, <1>11, <1>12, <1>13 DEF Next, Step, AuditStep

\* The tables and the requests keep their types.
LEMMA TypeStep ==
  ASSUME TypeInv, SomeNewest, OpKnown, Connected, [Next]_vars
  PROVE  TypeInv'
<1> USE AuditAssumption DEF TypeInv, TimeOut, CheckOut, memberVars, tenantVars
<1>1. ASSUME NEW r \in Requests, NEW o \in Operation, Enter(r, o)
      PROVE  TypeInv'
  BY <1>1 DEF Enter
<1>2. ASSUME NEW r \in Requests, TxConnect(r)
      PROVE  TypeInv'
  BY <1>2 DEF TxConnect
<1>3. ASSUME NEW r \in Requests, TxTimeOut(r)
      PROVE  TypeInv'
  BY <1>3 DEF TxTimeOut
<1>4. ASSUME NEW r \in Requests, TxLock(r)
      PROVE  TypeInv'
  BY <1>4 DEF TxLock
<1>5. ASSUME NEW r \in Requests, TxRead(r)
      PROVE  TypeInv'
  BY <1>5 DEF TxRead
<1>6. ASSUME NEW r \in Requests, TxRefuse(r)
      PROVE  TypeInv'
  BY <1>6 DEF TxRefuse
<1>7. ASSUME NEW r \in Requests, TxCommit(r)
      PROVE  TypeInv'
  <2>1. op[r] \in Operation
    BY <1>7 DEF TxCommit, OpKnown, At
  <2>2. /\ status' \in [Users -> Statuses \union {"NONE"}]
        /\ roles' \in [Users -> SUBSET Roles]
    BY <1>7, <2>1, WriteType DEF TxCommit
  <2>3. stranded' \in BOOLEAN
    BY <1>7 DEF TxCommit
  <2>. QED
    BY <1>7, <2>2, <2>3 DEF TxCommit
<1>8. ASSUME NEW r \in Requests, InnerConnect(r)
      PROVE  TypeInv'
  BY <1>8 DEF InnerConnect
<1>9. ASSUME NEW r \in Requests, InnerTimeOut(r)
      PROVE  TypeInv'
  BY <1>9 DEF InnerTimeOut
<1>10. ASSUME NEW r \in Requests, InnerCommit(r)
      PROVE  TypeInv'
  BY <1>10 DEF InnerCommit
<1>11. ASSUME NEW r \in Requests, AuditStep(r)
      PROVE  TypeInv'
  <2>0. /\ op' \in [Requests -> Operation \union {None}]
        /\ UNCHANGED <<status, roles, stranded, tenantLock>>
    BY <1>11 DEF AuditStep
  <2>1. advisory' \in Requests \union {None}
    <3>1. advisory' \in {advisory, r, None}
      BY <1>11 DEF AuditStep, AuditNext, AuditConnect, AuditTimeOut, AuditLock,
       AuditBegin, AuditInsert, AuditCommit, AuditFail
    <3>. QED
      BY <3>1
  <2>2. clock' \in Nat /\ begun' \in [Requests -> Nat]
    <3>1. clock' = clock \/ clock' = clock + 1
      BY <1>11 DEF AuditStep, AuditNext, AuditConnect, AuditTimeOut, AuditLock,
       AuditBegin, AuditInsert, AuditCommit, AuditFail
    <3>2. \/ UNCHANGED begun
          \/ begun' = [begun EXCEPT ![r] = 0]
          \/ begun' = [begun EXCEPT ![r] = clock + 1]
      BY <1>11 DEF AuditStep, AuditNext, AuditConnect, AuditTimeOut, AuditLock,
       AuditBegin, AuditInsert, AuditCommit, AuditFail
    <3>. QED
      BY <3>1, <3>2
  <2>4. row' \in [Requests -> Nat]
    <3>1. \/ UNCHANGED row
          \/ row' = [row EXCEPT ![r] = 0]
          \/ row' = [row EXCEPT ![r] = Newest(trail)]
      BY <1>11 DEF AuditStep, AuditNext, AuditConnect, AuditTimeOut, AuditLock,
       AuditBegin, AuditInsert, AuditCommit, AuditFail
    <3>. QED
      BY <3>1, NewestIsNat
  <2>3. trail' \subseteq AuditEvent
    <3>1. [time |-> begun[r], prev |-> row[r], object |-> Stored(ObjectOf(op[r])),
           hashed |-> ObjectOf(op[r])] \in AuditEvent
      <4>1. ObjectOf(op[r]) \in Ids /\ Stored(ObjectOf(op[r])) \in Ids
        BY DEF ObjectOf, Stored, Ids
      <4>. QED
        BY <4>1 DEF AuditEvent
    <3>. QED
      BY <1>11, <3>1 DEF AuditStep, AuditNext, AuditConnect, AuditTimeOut,
         AuditLock, AuditBegin, AuditInsert, AuditCommit, AuditFail
  <2>. QED
    BY <2>0, <2>1, <2>2, <2>3, <2>4
<1>12. CASE Crash
  BY <1>12 DEF Crash, AuditCrash
<1>13. CASE UNCHANGED vars
  BY <1>13 DEF vars, auditVars
<1>. QED
  BY <1>1, <1>2, <1>3, <1>4, <1>5, <1>6, <1>7,
     <1>8, <1>9, <1>10, <1>11, <1>12, <1>13 DEF Next, Step

\* A request knows what it does until it is idle again.
LEMMA KnownStep ==
  ASSUME OpKnown, Connected, TypeInv, [Next]_vars
  PROVE  OpKnown'
<1> USE DEF OpKnown, Connected, At, GoTo, TimeOut, CheckOut, memberVars, tenantVars
<1>1. ASSUME NEW r \in Requests, NEW o \in Operation, Enter(r, o)
      PROVE  OpKnown'
  BY <1>1 DEF Enter, TypeInv
<1>2. ASSUME NEW r \in Requests, TxConnect(r)
      PROVE  OpKnown'
  BY <1>2 DEF TxConnect, TypeInv
<1>3. ASSUME NEW r \in Requests, TxTimeOut(r)
      PROVE  OpKnown'
  BY <1>3 DEF TxTimeOut, TypeInv
<1>4. ASSUME NEW r \in Requests, TxLock(r)
      PROVE  OpKnown'
  BY <1>4 DEF TxLock, TypeInv
<1>5. ASSUME NEW r \in Requests, TxRead(r)
      PROVE  OpKnown'
  BY <1>5 DEF TxRead, TypeInv
<1>6. ASSUME NEW r \in Requests, TxRefuse(r)
      PROVE  OpKnown'
  BY <1>6 DEF TxRefuse, TypeInv
<1>7. ASSUME NEW r \in Requests, TxCommit(r)
      PROVE  OpKnown'
  BY <1>7 DEF TxCommit, TypeInv
<1>8. ASSUME NEW r \in Requests, InnerConnect(r)
      PROVE  OpKnown'
  BY <1>8 DEF InnerConnect, TypeInv
<1>9. ASSUME NEW r \in Requests, InnerTimeOut(r)
      PROVE  OpKnown'
  BY <1>9 DEF InnerTimeOut, TypeInv
<1>10. ASSUME NEW r \in Requests, InnerCommit(r)
      PROVE  OpKnown'
  BY <1>10 DEF InnerCommit, TypeInv
<1>11. ASSUME NEW r \in Requests, AuditStep(r)
      PROVE  OpKnown'
  <2>1. At(r, "idle")' \/ phase'[r] \in AuditPhases
    BY <1>11 DEF AuditStep, AuditNext, AuditConnect, AuditTimeOut, AuditLock,
       AuditBegin, AuditInsert, AuditCommit, AuditFail, AuditPhases
  <2>2. phase[r] # "idle"
    BY <1>11 DEF AuditStep, AuditNext, AuditConnect, AuditTimeOut, AuditLock,
       AuditBegin, AuditInsert, AuditCommit, AuditFail, AuditPhases
  <2>3. \A x \in Requests \ {r} : phase'[x] = phase[x]
    BY <1>11 DEF AuditStep, AuditNext, AuditConnect, AuditTimeOut, AuditLock,
       AuditBegin, AuditInsert, AuditCommit, AuditFail
  <2>4. CASE At(r, "idle")'
    BY <1>11, <2>3, <2>4 DEF AuditStep, TypeInv
  <2>5. CASE phase'[r] \in AuditPhases /\ ~At(r, "idle")'
    BY <1>11, <2>2, <2>3, <2>5 DEF AuditStep, AuditPhases
  <2>. QED
    BY <2>1, <2>4, <2>5
<1>12. CASE Crash
  BY <1>12 DEF Crash, AuditCrash, TypeInv
<1>13. CASE UNCHANGED vars
  BY <1>13 DEF vars, auditVars, TypeInv
<1>. QED
  BY <1>1, <1>2, <1>3, <1>4, <1>5, <1>6, <1>7,
     <1>8, <1>9, <1>10, <1>11, <1>12, <1>13 DEF Next, Step

\* What a request that does not write the trail leaves as it is.
Quiet(r) ==
  /\ \E q \in Phases \ Writing : GoTo(r, q)
  /\ UNCHANGED <<advisory, clock, begun, row, trail>>

LEMMA QuietSteps ==
  ASSUME NEW r \in Requests, Step(r), ~AuditStep(r)
  PROVE  Quiet(r)
<1> USE DEF Phases, Writing, TimeOut, CheckOut
<1>1. "idle" \in Phases \ Writing
  OBVIOUS
<1>2. CASE TxConnect(r)
  BY <1>2 DEF TxConnect, Quiet
<1>3. CASE TxTimeOut(r) \/ InnerTimeOut(r)
  BY <1>1, <1>3 DEF TxTimeOut, InnerTimeOut, Quiet
<1>4. CASE TxLock(r) \/ TxRead(r) \/ TxRefuse(r)
  BY <1>4 DEF TxLock, TxRead, TxRefuse, Quiet
<1>5. CASE TxCommit(r)
  <2>1. GoTo(r, "audit queued") /\ UNCHANGED <<advisory, clock, begun, row, trail>>
    BY <1>5 DEF TxCommit
  <2>. QED
    BY <2>1 DEF Quiet, AuditPhases
<1>6. CASE InnerConnect(r) \/ InnerCommit(r)
  BY <1>6 DEF InnerConnect, InnerCommit, Quiet
<1>. QED
  BY <1>2, <1>3, <1>4, <1>5, <1>6 DEF Step

Trailing == SomeNewest /\ OneWriter /\ WriterIsNewest /\ Chained

LEMMA QuietKeeps ==
  ASSUME Trailing, Connected, NEW r \in Requests, Quiet(r)
  PROVE  Trailing'
<1>1. PICK q \in Phases \ Writing : GoTo(r, q)
  BY DEF Quiet
<1>2. \A x \in Requests : phase'[x] \in Writing => phase'[x] = phase[x]
  BY <1>1 DEF GoTo, Connected
<1>3. UNCHANGED <<advisory, clock, begun, row, trail>>
  BY DEF Quiet
<1>4. SomeNewest' /\ Chained'
  BY <1>3 DEF Trailing, SomeNewest, Chained, Linked, Times, Newest
<1>5. OneWriter'
  BY <1>2, <1>3 DEF Trailing, OneWriter
<1>6. WriterIsNewest'
  BY <1>2, <1>3 DEF Trailing, WriterIsNewest, Writing, Newest, Times
<1>. QED
  BY <1>4, <1>5, <1>6 DEF Trailing

\* One writer's step: the others do not write meanwhile.
LEMMA WritingKeeps ==
  ASSUME Trailing, Connected, TypeInv, NEW r \in Requests, NEW id, AuditNext(r, id)
  PROVE  Trailing'
<1> USE DEF Connected, TypeInv, At, GoTo, CheckOut, TimeOut
<1>1. CASE AuditConnect(r) \/ AuditTimeOut(r)
  <2>1. Quiet(r)
    BY <1>1 DEF AuditConnect, AuditTimeOut, Quiet, Phases, AuditPhases, Writing
  <2>. QED
    BY <2>1, QuietKeeps
<1>a. ASSUME phase[r] \in Writing
      PROVE  \A x \in Requests \ {r} : phase[x] \notin Writing
  BY <1>a DEF Trailing, OneWriter
<1>2. CASE AuditLock(r)
  <2>1. \A x \in Requests : phase[x] \notin Writing
    BY <1>2, AuditAssumption DEF AuditLock, Trailing, OneWriter
  <2>2. OneWriter'
    BY <1>2, <2>1 DEF AuditLock, OneWriter, Writing
  <2>3. SomeNewest' /\ Chained'
    BY <1>2 DEF AuditLock, Trailing, SomeNewest, Chained, Linked, Times, Newest
  <2>4. WriterIsNewest'
    BY <1>2 DEF AuditLock, Trailing, WriterIsNewest, Newest, Times
  <2>. QED
    BY <2>2, <2>3, <2>4 DEF Trailing
<1>3. CASE AuditBegin(r)
  <2>1. phase[r] = "audit locked" /\ advisory = r
    BY <1>3 DEF AuditBegin, Trailing, OneWriter, Writing
  <2>2. OneWriter'
    BY <1>3, <2>1 DEF AuditBegin, Trailing, OneWriter, Writing
  <2>3. SomeNewest' /\ Chained'
    BY <1>3 DEF AuditBegin, Trailing, SomeNewest, Chained, Linked, Times, Newest
  <2>4. \A x \in Requests \ {r} : phase'[x] \notin Writing
    BY <1>3, <2>1, <1>a DEF AuditBegin, Writing
  <2>5. \A e \in trail : e.time \in Nat /\ e.time <= clock
    BY DEF Trailing, WriterIsNewest, AuditEvent
  <2>6. /\ begun'[r] = clock + 1 /\ clock' = clock + 1
        /\ phase'[r] = "audit begun" /\ UNCHANGED trail
    BY <1>3 DEF AuditBegin
  <2>7. /\ \A e \in trail' : e.time <= clock'
        /\ begun'[r] <= clock' /\ \A e \in trail' : e.time < begun'[r]
    <3>1. \A e \in trail : e.time <= clock + 1 /\ e.time < clock + 1
      BY <2>5
    <3>2. clock + 1 <= clock + 1
      OBVIOUS
    <3>. QED
      BY <2>6, <3>1, <3>2
  <2>8. WriterIsNewest'
    BY <2>4, <2>6, <2>7 DEF WriterIsNewest, Writing
  <2>. QED
    BY <2>2, <2>3, <2>8 DEF Trailing
<1>4. CASE AuditInsert(r)
  <2>1. phase[r] = "audit begun"
    BY <1>4 DEF AuditInsert
  <2>2. OneWriter'
    BY <1>4 DEF AuditInsert, Trailing, OneWriter, Writing
  <2>3. SomeNewest' /\ Chained'
    BY <1>4 DEF AuditInsert, Trailing, SomeNewest, Chained, Linked, Times, Newest
  <2>4. UNCHANGED <<clock, begun, trail>> /\ row'[r] = Newest(trail)
    BY <1>4 DEF AuditInsert
  <2>5. \A x \in Requests \ {r} : phase'[x] = phase[x] /\ row'[x] = row[x]
    BY <1>4 DEF AuditInsert
  <2>6. Newest(trail)' = Newest(trail)
    BY <2>4 DEF Newest, Times
  <2>7. WriterIsNewest'
    BY <2>1, <2>4, <2>5, <2>6 DEF Trailing, WriterIsNewest
  <2>. QED
    BY <2>2, <2>3, <2>7 DEF Trailing
<1>5. CASE AuditCommit(r, id)
  <2>. DEFINE e == [time |-> begun[r], prev |-> row[r], object |-> Stored(id), hashed |-> id]
  <2>1. /\ phase[r] = "audit inserted" /\ row[r] = Newest(trail)
        /\ begun[r] \in Nat /\ begun[r] <= clock
        /\ \A f \in trail : f.time < begun[r]
    BY <1>5 DEF AuditCommit, Trailing, WriterIsNewest
  <2>2. trail' = trail \union {e} /\ UNCHANGED clock
    BY <1>5 DEF AuditCommit
  <2>3. \A x \in Requests : phase'[x] \notin Writing
    BY <1>5, <1>a DEF AuditCommit, Writing
  <2>4. e.time \in Nat /\ e.time = begun[r] /\ e.prev = Newest(trail)
        /\ e.object = Stored(e.hashed)
    BY <2>1
  <2>5. \A f \in trail : f.time \in Nat /\ f.time < e.time
    BY <2>1, <2>4 DEF AuditEvent
  <2>. HIDE DEF e
  <2>6. SomeNewest'
    <3>1. e.time \in Times(trail')
      BY <2>2 DEF Times
    <3>2. \A u \in Times(trail') : u <= e.time
      <4>1. ASSUME NEW f \in trail' PROVE f.time <= e.time
        <5>1. CASE f = e
          BY <2>4, <5>1
        <5>2. CASE f \in trail
          BY <2>4, <2>5, <5>2
        <5>. QED
          BY <2>2, <5>1, <5>2
      <4>. QED
        BY <2>4, <4>1 DEF Times
    <3>. QED
      BY <3>1, <3>2 DEF SomeNewest, Times
  <2>7. OneWriter' /\ WriterIsNewest'
    <3>1. \A f \in trail' : f.time <= clock'
      BY <2>1, <2>2, <2>4 DEF Trailing, WriterIsNewest
    <3>. QED
      BY <2>3, <3>1 DEF OneWriter, WriterIsNewest, Writing
  <2>8. {f \in trail' : f.time < e.time} = trail
    <3>1. ~(e.time < e.time)
      BY <2>4
    <3>. QED
      BY <2>2, <2>5, <3>1
  <2>9. \A g \in trail : {f \in trail' : f.time < g.time} = {f \in trail : f.time < g.time}
    <3>1. ASSUME NEW g \in trail PROVE ~(e.time < g.time)
      <4>1. g.time \in Nat /\ g.time < e.time
        BY <2>5
      <4>. QED
        BY <2>4, <4>1
    <3>. QED
      BY <2>2, <3>1
  <2>10. Chained'
    BY <2>2, <2>4, <2>8, <2>9 DEF Chained, Linked, Trailing
  <2>. QED
    BY <2>6, <2>7, <2>10 DEF Trailing
<1>6. CASE AuditFail(r)
  <2>1. /\ phase'[r] = "idle" /\ UNCHANGED <<clock, trail>>
        /\ \A x \in Requests \ {r} :
             phase'[x] = phase[x] /\ begun'[x] = begun[x] /\ row'[x] = row[x]
        /\ \A x \in Requests \ {r} : advisory = x => advisory' = x
    BY <1>6, AuditAssumption DEF AuditFail
  <2>2. OneWriter'
    BY <2>1 DEF Trailing, OneWriter, Writing
  <2>3. SomeNewest' /\ Chained'
    BY <2>1 DEF Trailing, SomeNewest, Chained, Linked, Times, Newest
  <2>4. Newest(trail)' = Newest(trail)
    BY <2>1 DEF Newest, Times
  <2>5. WriterIsNewest'
    BY <2>1, <2>4 DEF Trailing, WriterIsNewest
  <2>. QED
    BY <2>2, <2>3, <2>5 DEF Trailing
<1>. QED
  BY <1>1, <1>2, <1>3, <1>4, <1>5, <1>6 DEF AuditNext

LEMMA TrailingStep ==
  ASSUME Trailing, Connected, TypeInv, [Next]_vars
  PROVE  Trailing'
<1>1. ASSUME NEW r \in Requests, NEW o \in Operation, Enter(r, o)
      PROVE  Trailing'
  <2>1. Quiet(r)
    BY <1>1 DEF Enter, Quiet, Phases, Writing
  <2>. QED
    BY <2>1, QuietKeeps
<1>2. ASSUME NEW r \in Requests, Step(r)
      PROVE  Trailing'
  BY <1>2, QuietSteps, QuietKeeps, WritingKeeps DEF AuditStep
<1>3. CASE Crash
  <2>1. \A x \in Requests : phase'[x] \notin Writing
    BY <1>3 DEF Crash, AuditCrash, Writing
  <2>2. UNCHANGED <<clock, trail>>
    BY <1>3 DEF Crash, AuditCrash
  <2>. QED
    BY <2>1, <2>2 DEF Trailing, SomeNewest, OneWriter, WriterIsNewest, Writing,
                      Chained, Linked, Times, Newest
<1>4. CASE UNCHANGED vars
  BY <1>4 DEF vars, auditVars, Trailing, SomeNewest, OneWriter, WriterIsNewest,
              Chained, Linked, Times, Newest
<1>. QED
  BY <1>1, <1>2, <1>3, <1>4 DEF Next

-----------------------------------------------------------------------------
(***************************************************************************)
(* The Owners.                                                             *)
(***************************************************************************)
Owned == OneCounter /\ OthersRemain /\ LastOwnerKept

\* What a request that does not write leaves as it is.
Aside(r) ==
  /\ UNCHANGED <<status, roles, stranded>>
  /\ \A x \in Requests \ {r} : phase'[x] = phase[x] /\ op'[x] = op[x]
  /\ \A x \in Requests \ {r} : tenantLock = x => tenantLock' = x

LEMMA AsideKeeps ==
  ASSUME Owned, NEW r \in Requests, Aside(r),
         InTenantLock(r)' => tenantLock' = r,
         phase'[r] = "tx read" /\ Takes(op'[r]) =>
           stranded \/ ActiveOwners \ {op'[r].user} # {}
  PROVE  Owned'
<1>1. ActiveOwners' = ActiveOwners
  BY DEF Aside, ActiveOwners
<1>2. OneCounter'
  <2>1. ASSUME NEW x \in Requests, x # r, InTenantLock(x)'
        PROVE  tenantLock' = x
    BY <2>1 DEF Aside, Owned, OneCounter, InTenantLock
  <2>. QED
    BY <2>1 DEF OneCounter
<1>3. OthersRemain'
  <2>1. ASSUME NEW x \in Requests, x # r, phase'[x] = "tx read", Takes(op'[x])
        PROVE  stranded' \/ ActiveOwners' \ {op'[x].user} # {}
    <3>1. op'[x] = op[x] /\ phase[x] = "tx read" /\ stranded' = stranded
      BY <2>1 DEF Aside
    <3>2. Takes(op[x])
      BY <2>1, <3>1
    <3>. QED
      BY <1>1, <3>1, <3>2 DEF Owned, OthersRemain
  <2>2. stranded' = stranded
    BY DEF Aside
  <2>. QED
    BY <1>1, <2>1, <2>2 DEF OthersRemain
<1>4. LastOwnerKept'
  BY <1>1 DEF Aside, Owned, LastOwnerKept
<1>. QED
  BY <1>2, <1>3, <1>4 DEF Owned

\* What the count of the other Owners, made under the lock, is worth.
LEMMA ReadFindsOwner ==
  ASSUME Owned, NEW o \in Operation, Takes(o), Allowed(o)
  PROVE  stranded \/ ActiveOwners \ {o.user} # {}
<1>1. CASE AsksForOwners(o)
  BY <1>1 DEF Allowed
<1>2. CASE ~AsksForOwners(o)
  <2>1. o.kind = "STATUS" => o.status \in Statuses
    BY OperationFields
  <2>2. "Owner" \notin roles[o.user]
    BY <1>2, <2>1 DEF AsksForOwners, Takes, Statuses
  <2>3. o.user \notin ActiveOwners
    BY <2>2 DEF ActiveOwners
  <2>. QED
    BY <2>3 DEF Owned, LastOwnerKept
<1>. QED
  BY <1>1, <1>2

\* A commit leaves an Owner, or notes that it does not.
LEMMA CommitLeavesOwner ==
  ASSUME Owned, TypeInv, OpKnown, NEW r \in Requests, TxCommit(r)
  PROVE  LastOwnerKept'
<1>1. op[r] \in Operation /\ phase[r] = "tx read" /\ Write(op[r])
  BY DEF TxCommit, OpKnown, At
<1>2. CASE stranded
  BY <1>2 DEF TxCommit, LastOwnerKept
<1>3. CASE ~stranded /\ InvitesLastOwner(op[r])
  BY <1>3 DEF TxCommit, LastOwnerKept
<1>4. CASE ~stranded /\ ~InvitesLastOwner(op[r])
  <2>1. ASSUME NEW u \in ActiveOwners, u # op[r].user \/ op[r].kind = "IMPORT"
        PROVE  u \in ActiveOwners'
    <3>1. u \in Users /\ status[u] = "ACTIVE" /\ "Owner" \in roles[u]
      BY DEF ActiveOwners
    <3>2. status'[u] = status[u] /\ roles'[u] = roles[u]
      BY <1>1, <2>1, <3>1 DEF Write, TypeInv
    <3>. QED
      BY <3>1, <3>2 DEF ActiveOwners
  <2>2. ActiveOwners # {}
    BY <1>4 DEF Owned, LastOwnerKept
  <2>3. CASE Takes(op[r])
    BY <1>1, <1>4, <2>1, <2>3 DEF Owned, OthersRemain, LastOwnerKept
  <2>4. CASE op[r].kind = "STATUS" /\ op[r].status = "INVITED"
    BY <1>4, <2>1, <2>4 DEF InvitesLastOwner, LastOwnerKept
  <2>5. CASE ~Takes(op[r]) /\ ~(op[r].kind = "STATUS" /\ op[r].status = "INVITED")
    <3>1. PICK u \in ActiveOwners : TRUE
      BY <2>2
    <3>2. u \in Users /\ status[u] = "ACTIVE" /\ "Owner" \in roles[u]
      BY DEF ActiveOwners
    <3>3. status'[u] = "ACTIVE"
      BY <1>1, <2>5, <3>2 DEF Write, Takes, TypeInv, IsMember
    <3>4. "Owner" \in roles'[u]
      BY <1>1, <2>5, <3>2 DEF Write, Takes, TypeInv, IsMember
    <3>5. u \in ActiveOwners'
      BY <3>2, <3>3, <3>4 DEF ActiveOwners
    <3>. QED
      BY <3>5 DEF LastOwnerKept
  <2>. QED
    BY <2>3, <2>4, <2>5
<1>. QED
  BY <1>2, <1>3, <1>4

\* Only roles assigned without the lock are written while another has counted.
LEMMA CommitKeepsOthers ==
  ASSUME Owned, TypeInv, OpKnown, Connected, NEW r \in Requests, TxCommit(r),
         NEW x \in Requests, x # r, phase[x] = "tx read", Takes(op[x])
  PROVE  stranded' \/ ActiveOwners' \ {op[x].user} # {}
<1>1. op[r] \in Operation /\ phase[r] = "tx read" /\ Write(op[r])
  BY DEF TxCommit, OpKnown, At
<1>2. Locks(op[x])
  BY DEF Takes, Locks
<1>3. ~Locks(op[r])
  BY <1>1, <1>2 DEF Owned, OneCounter, InTenantLock
<1>4. ActiveOwners \subseteq ActiveOwners'
  <2>1. ASSUME NEW u \in ActiveOwners
        PROVE  u \in ActiveOwners'
    <3>1. u \in Users /\ status[u] = "ACTIVE" /\ "Owner" \in roles[u]
      BY DEF ActiveOwners
    <3>2. status'[u] = "ACTIVE"
      BY <1>1, <1>3, <3>1 DEF Write, Locks, TypeInv
    <3>3. "Owner" \in roles'[u]
      BY <1>1, <1>3, <3>1 DEF Write, Locks, TypeInv
    <3>. QED
      BY <3>1, <3>2, <3>3 DEF ActiveOwners
  <2>. QED
    BY <2>1
<1>5. stranded => stranded'
  BY DEF TxCommit
<1>. QED
  BY <1>4, <1>5 DEF Owned, OthersRemain

LEMMA OwnedStep ==
  ASSUME Owned, TypeInv, OpKnown, Connected, [Next]_vars
  PROVE  Owned'
<1> USE DEF Connected, TypeInv, At, GoTo, CheckOut, TimeOut, memberVars
<1>1. ASSUME NEW r \in Requests, NEW o \in Operation, Enter(r, o)
      PROVE  Owned'
  <2>1. Aside(r) /\ phase'[r] = "tx queued"
    BY <1>1 DEF Enter, Aside
  <2>. QED
    BY <2>1, AsideKeeps DEF InTenantLock
<1>2. ASSUME NEW r \in Requests,
             TxConnect(r) \/ TxTimeOut(r) \/ InnerConnect(r) \/ InnerTimeOut(r)
      PROVE  Owned'
  <2>1. Aside(r) /\ phase'[r] \notin {"tx locked", "tx read"}
    BY <1>2 DEF TxConnect, TxTimeOut, InnerConnect, InnerTimeOut, Aside, tenantVars
  <2>. QED
    BY <2>1, AsideKeeps DEF InTenantLock
<1>3. ASSUME NEW r \in Requests, TxLock(r)
      PROVE  Owned'
  <2>1. phase'[r] = "tx locked" /\ tenantLock' = r
    BY <1>3 DEF TxLock
  <2>2. Aside(r)
    BY <1>3, AuditAssumption DEF TxLock, Aside
  <2>. QED
    BY <2>1, <2>2, AsideKeeps
<1>4. ASSUME NEW r \in Requests, TxRead(r)
      PROVE  Owned'
  <2>1. Aside(r) /\ phase'[r] = "tx read" /\ op' = op /\ tenantLock' = tenantLock
    BY <1>4 DEF TxRead, Aside, tenantVars
  <2>2. op[r] \in Operation /\ Allowed(op[r])
    BY <1>4 DEF TxRead, OpKnown
  <2>3. InTenantLock(r)' => tenantLock' = r
    BY <1>4, <2>1 DEF TxRead, InTenantLock, Owned, OneCounter, Locks
  <2>4. Takes(op'[r]) => stranded \/ ActiveOwners \ {op'[r].user} # {}
    BY <2>1, <2>2, ReadFindsOwner
  <2>. QED
    BY <2>1, <2>3, <2>4, AsideKeeps
<1>5. ASSUME NEW r \in Requests, TxRefuse(r)
      PROVE  Owned'
  <2>1. Aside(r) /\ phase'[r] = "idle"
    BY <1>5 DEF TxRefuse, Aside
  <2>. QED
    BY <2>1, AsideKeeps DEF InTenantLock
<1>6. ASSUME NEW r \in Requests, TxCommit(r)
      PROVE  Owned'
  <2>1. /\ op' = op /\ phase'[r] = "audit queued"
        /\ \A x \in Requests \ {r} : phase'[x] = phase[x]
        /\ \A x \in Requests \ {r} : tenantLock = x => tenantLock' = x
    BY <1>6 DEF TxCommit
  <2>2. OneCounter'
    <3>1. ASSUME NEW x \in Requests, InTenantLock(x)'
          PROVE  tenantLock' = x
      BY <2>1, <3>1 DEF Owned, OneCounter, InTenantLock, Locks
    <3>. QED
      BY <3>1 DEF OneCounter
  <2>3. OthersRemain'
    <3>1. ASSUME NEW x \in Requests, phase'[x] = "tx read", Takes(op'[x])
          PROVE  stranded' \/ ActiveOwners' \ {op'[x].user} # {}
      <4>1. x # r /\ phase[x] = "tx read" /\ op'[x] = op[x] /\ Takes(op[x])
        BY <2>1, <3>1
      <4>. QED
        BY <1>6, <4>1, CommitKeepsOthers
    <3>. QED
      BY <3>1 DEF OthersRemain
  <2>. QED
    BY <1>6, <2>2, <2>3, CommitLeavesOwner DEF Owned
<1>7. ASSUME NEW r \in Requests, InnerCommit(r)
      PROVE  Owned'
  <2>1. /\ Aside(r) /\ phase'[r] = "tx read" /\ op'[r].kind = "IMPORT"
    BY <1>7 DEF InnerCommit, Aside, OpKnown, tenantVars
  <2>. QED
    BY <2>1, AsideKeeps DEF InTenantLock, Locks, Takes
<1>8. ASSUME NEW r \in Requests, AuditStep(r)
      PROVE  Owned'
  <2>1. phase'[r] \notin {"tx locked", "tx read"} /\ \A x \in Requests \ {r} : phase'[x] = phase[x]
    BY <1>8 DEF AuditStep, AuditNext, AuditConnect, AuditTimeOut, AuditLock,
       AuditBegin, AuditInsert, AuditCommit, AuditFail
  <2>2. Aside(r)
    BY <1>8, <2>1 DEF AuditStep, Aside
  <2>. QED
    BY <2>1, <2>2, AsideKeeps DEF InTenantLock
<1>9. CASE Crash
  <2>1. \A x \in Requests : phase'[x] = "idle"
    BY <1>9 DEF Crash, AuditCrash
  <2>2. ActiveOwners' = ActiveOwners /\ stranded' = stranded
    BY <1>9 DEF Crash, ActiveOwners
  <2>. QED
    BY <2>1, <2>2 DEF Owned, OneCounter, OthersRemain, LastOwnerKept, InTenantLock
<1>10. CASE UNCHANGED vars
  BY <1>10 DEF vars, auditVars, tenantVars, Owned, OneCounter, OthersRemain,
               LastOwnerKept, InTenantLock, ActiveOwners, Takes, Locks
<1>. QED
  BY <1>1, <1>2, <1>3, <1>4, <1>5, <1>6, <1>7, <1>8, <1>9, <1>10 DEF Next, Step

-----------------------------------------------------------------------------
(***************************************************************************)
(* The theorems.                                                           *)
(***************************************************************************)

LEMMA InvInit == Init => AccessInv
<1> SUFFICES ASSUME Init PROVE AccessInv
  OBVIOUS
<1> USE AuditAssumption, TenantAssumption DEF Init, AuditInit
<1>1. Connected
  BY DEF Connected, Phases, Holding
<1>2. TypeInv
  BY DEF TypeInv, Statuses
<1>3. SomeNewest /\ Chained
  BY DEF SomeNewest, Times, Chained
<1>4. OpKnown /\ OneWriter /\ WriterIsNewest /\ OneCounter /\ OthersRemain
  BY DEF OpKnown, OneWriter, WriterIsNewest, Writing, OneCounter, OthersRemain, InTenantLock
<1>5. Creator \in ActiveOwners
  BY DEF ActiveOwners
<1>. QED
  BY <1>1, <1>2, <1>3, <1>4, <1>5 DEF AccessInv, LastOwnerKept

\* The inductive invariant: the advisory lock keeps writers of the trail apart,
\* the lock of the tenant those who count its Owners, and what each has found
\* out under its lock is still so when it writes.
THEOREM AccessInvariant == Spec => []AccessInv
<1>1. AccessInv /\ [Next]_vars => AccessInv'
  BY ConnectedStep, TypeStep, KnownStep, TrailingStep, OwnedStep
  DEF AccessInv, Trailing, Owned
<1>. QED
  BY <1>1, InvInit, PTL DEF Spec

\* For any number of requests that append to the audit trail, fail or die: each
\* event is linked to the one before, and verifyAuditChain stops at no event but
\* one whose object was named otherwise than the database spells it.
THEOREM AuditChainVerifies == Spec => []ChainVerifies
<1>1. AccessInv => ChainVerifies
  BY DEF AccessInv, Chained, ChainVerifies, Broken, Rehashed
<1>. QED
  BY <1>1, AccessInvariant, PTL

\* However many requests change the members and roles of a tenant at once, it
\* keeps an active Owner unless its last one was set to INVITED.
THEOREM TenantKeepsOwner == Spec => []LastOwnerKept
<1>1. AccessInv => LastOwnerKept
  BY DEF AccessInv
<1>. QED
  BY <1>1, AccessInvariant, PTL
=============================================================================
