------------------------------ MODULE Sessions ------------------------------
(***************************************************************************)
(* Signed-in devices of one account: the rows of `sessions`, the two       *)
(* cookies of every browser and the requests between them.                 *)
(*                                                                         *)
(* src/features/auth/session-store.ts keeps the rows, refresh.ts and       *)
(* proxy.ts run before every request, auth.ts signs in and out, the routes *)
(* of /api/me/sessions, password-reset.ts and members-admin.ts end         *)
(* sessions from elsewhere.  A request takes one step per statement sent   *)
(* to the database, so the requests of one browser, of two browsers and of *)
(* the owner interleave between any two statements.  An answer may be      *)
(* delivered in any order or be lost.                                      *)
(*                                                                         *)
(* Time is counted in ticks; the three periods of constants.ts (60 s,      *)
(* 15 min, 30 days) are Grace, Access and Ttl.  Bounds: MaxTime ends time. *)
(***************************************************************************)
EXTENDS Integers, FiniteSets

CONSTANTS
  Browsers,    \* devices that hold cookies
  Requests,    \* slots for requests in flight
  Sids,        \* ids of sessions rows; the row of a browser signed in at first has its name
  SignedIn,    \* the browsers signed in at first
  None,        \* no cookie, no value
  Keep, Clear, \* an answer leaves a cookie alone, or deletes it
  Grace,       \* ROTATION_GRACE_SEC
  Access,      \* ACCESS_TTL_SEC
  Ttl,         \* REFRESH_TTL_SEC
  MaxTime,     \* bound: the clock stops here
  MaxEdits,    \* bound: things that happen elsewhere
  MaxSends,    \* bound: requests sent
  Patience,    \* bound: no request is in flight for more than this
  Kinds,       \* what the browsers send, a subset of AllKinds
  Edits        \* what happens elsewhere: subset of AllEdits

AllEdits == {"PERMISSION", "MEMBER", "DEVICE", "RESET", "CLOSE"}
AllKinds == {"PAGE", "CONSOLE", "END_OTHERS", "SIGN_OUT", "LOGIN"}

ASSUME PeriodsAssumption ==
  /\ Grace \in Nat /\ Access \in Nat /\ Ttl \in Nat
  /\ MaxTime \in Nat /\ Patience \in Nat /\ MaxEdits \in Nat /\ MaxSends \in Nat
  /\ 0 < Grace /\ Grace < Access /\ Access < Ttl
ASSUME KindsAssumption == Kinds \subseteq AllKinds /\ Edits \subseteq AllEdits
ASSUME SignedInAssumption == SignedIn \subseteq Browsers \cap Sids

Roles == {"FULL", "LIMITED", "INACTIVE"}

\* What the two cookies hold.
Jwts == [sid : Sids, exp : Nat, role : Roles]
Refreshes == [sid : Sids, secret : Nat]

ASSUME NothingAssumption ==
  /\ Keep # Clear
  /\ \A v \in {None, Keep, Clear} : v \notin Jwts /\ v \notin Refreshes /\ v \notin Roles

VARIABLES
  now,        \* the clock
  session,    \* rows of sessions
  account,    \* the account: password, its hash, member row
  cookies,    \* per browser: the session JWT and the refresh token
  req,        \* requests in flight
  sends,      \* requests sent so far
  unlucky,    \* history: sessions with an answer lost, a request slower than half the grace, or a
              \* rotation overtaken by an older answer
  changedAt   \* history: when the member row was changed last

vars == <<now, session, account, cookies, req, sends, unlucky, changedAt>>

Steps == {"idle", "proxy", "rotate", "select", "reuse", "alive", "principal", "others",
          "signout", "verify", "rehash", "establish", "create", "answer"}

LoginSteps == {"rehash", "establish", "create"}

NoRow == [there |-> FALSE, token |-> 0, prev |-> None, rotatedAt |-> 0,
          revoked |-> FALSE, reused |-> FALSE, endedAt |-> 0, expires |-> 0,
          password |-> 0, overlapped |-> FALSE]

NoRequest == [pc |-> "idle", browser |-> None, kind |-> "PAGE", jwt |-> None, refresh |-> None,
              sentAt |-> 0, at |-> 0, dead |-> FALSE, lived |-> {}, role |-> None, password |-> 0,
              overlapped |-> FALSE, state |-> "anon", setJwt |-> Keep, setRefresh |-> Keep]

Init ==
  /\ now = 0
  /\ session = [s \in Sids |-> IF s \in SignedIn
                  THEN [NoRow EXCEPT !.there = TRUE, !.expires = Ttl, !.password = 1] ELSE NoRow]
  /\ account = [password |-> 1, legacy |-> TRUE, hash |-> 1, role |-> "FULL", closed |-> FALSE,
                edits |-> MaxEdits]
  /\ cookies = [b \in Browsers |->
       IF b \in SignedIn THEN [jwt |-> [sid |-> b, exp |-> Access, role |-> "FULL"],
                               refresh |-> [sid |-> b, secret |-> 0]]
                         ELSE [jwt |-> None, refresh |-> None]]
  /\ req = [q \in Requests |-> NoRequest]
  /\ sends = 0
  /\ unlucky = {}
  /\ changedAt = 0

(***************************************************************************)
(* Helpers                                                                 *)
(***************************************************************************)

\* isNull(revokedAt) and gt(expiresAt, now): what isSessionAlive asks.
Alive(s, t) == session[s].there /\ ~session[s].revoked /\ session[s].expires > t

\* Ends the sessions of a set as revokeAllSessions and revokeSession do: the rows
\* already revoked keep their time.
Ended(ss) ==
  [s \in Sids |->
    IF s \in ss /\ session[s].there /\ ~session[s].revoked
      THEN [session[s] EXCEPT !.revoked = TRUE, !.endedAt = now]
      ELSE session[s]]

\* isRecheckPath: console, administration and the pages of the account.
Recheck(k) == k \in {"CONSOLE", "END_OTHERS"}

\* A request that takes more than half the grace.
Slow(q, t) == 2 * (t - req[q].sentAt) > Grace

Goto(q, pc) == req' = [req EXCEPT ![q].pc = pc]

\* logout(): the answer clears both cookies.
LogsOut(q) ==
  req' = [req EXCEPT ![q].pc = "answer", ![q].state = "logout",
                     ![q].setJwt = Clear, ![q].setRefresh = Clear]

\* The exception handler of proxy.ts: the request goes on as anonymous and every
\* change of a cookie is forgotten, a rotated token among them.
Throws(q) ==
  /\ req' = [req EXCEPT ![q].pc = "answer", ![q].state = "anon",
                        ![q].setJwt = Keep, ![q].setRefresh = Keep]
  /\ unlucky' = IF req[q].setRefresh = Keep THEN unlucky ELSE unlucky \cup {req[q].jwt.sid}

(***************************************************************************)
(* A request leaves the browser with the cookies of that moment.           *)
(***************************************************************************)
\* Bound: no more sign-ins than ids left.
FreeSids ==
  Cardinality({s \in Sids : session[s].expires = 0})
    - Cardinality({q \in Requests : req[q].pc \in {"verify"} \cup LoginSteps})

Send(q, b, k) ==
  /\ req[q].pc = "idle"
  /\ sends < MaxSends
  /\ sends' = sends + 1
  /\ k = "LOGIN" => cookies[b].jwt = None /\ FreeSids > 0
  /\ LET jwt == cookies[b].jwt IN
       req' = [req EXCEPT ![q] =
                [NoRequest EXCEPT
                  !.pc = CASE k = "SIGN_OUT" -> "signout" [] k = "LOGIN" -> "verify" [] OTHER -> "proxy",
                  !.browser = b, !.kind = k, !.jwt = jwt, !.refresh = cookies[b].refresh,
                  !.sentAt = now, !.dead = jwt # None /\ session[jwt.sid].revoked,
                  !.lived = {account.role}]]
  /\ UNCHANGED <<now, session, account, cookies, unlucky, changedAt>>

(***************************************************************************)
(* refreshSession, one action per statement                                *)
(***************************************************************************)

\* Up to the first statement: no session cookie, an expired snapshot without a
\* refresh token of the same session, or on to the rotation or the recheck.
Proxy(q) ==
  LET r == req[q]
      due == r.jwt # None /\ r.jwt.exp <= now
  IN
  /\ r.pc = "proxy"
  /\ CASE r.jwt = None ->
            req' = [req EXCEPT ![q].pc = "answer", ![q].state = "anon",
                               ![q].setRefresh = IF r.refresh = None THEN Keep ELSE Clear]
       [] due /\ (r.refresh = None \/ r.refresh.sid # r.jwt.sid) -> LogsOut(q)
       [] due /\ r.refresh # None /\ r.refresh.sid = r.jwt.sid ->
            req' = [req EXCEPT ![q].pc = "rotate", ![q].at = now]
       [] r.jwt # None /\ ~due /\ Recheck(r.kind) -> req' = [req EXCEPT ![q].pc = "alive", ![q].at = now]
       [] OTHER -> req' = [req EXCEPT ![q].pc = "answer", ![q].state = "auth",
                                      ![q].at = now, ![q].role = r.jwt.role]
  /\ UNCHANGED <<now, sends, session, account, cookies, unlucky, changedAt>>

\* The conditional UPDATE of rotateSession: the presented token is the current one
\* of a live session, and is replaced.
RotateMatches(r) ==
  LET s == session[r.refresh.sid] IN
  Alive(r.refresh.sid, r.at) /\ s.token = r.refresh.secret

Rotate(q) ==
  LET r == req[q]
      sid == r.refresh.sid
  IN
  /\ r.pc = "rotate"
  /\ IF RotateMatches(r)
       THEN /\ session' = [session EXCEPT ![sid].token = @ + 1, ![sid].prev = r.refresh.secret,
                                          ![sid].rotatedAt = r.at]
            /\ req' = [req EXCEPT ![q].pc = "principal",
                                  ![q].setRefresh = [sid |-> sid, secret |-> session[sid].token + 1]]
       ELSE /\ Goto(q, "select")
            /\ UNCHANGED session
  /\ UNCHANGED <<now, sends, account, cookies, unlucky, changedAt>>

(* Mutant: no grace for the previous token. *)
NoGrace(r) == FALSE

\* The previous token inside the grace: the request passes and no refresh cookie is written.
InGrace(r) ==
  LET s == session[r.refresh.sid] IN
  s.prev = r.refresh.secret /\ s.rotatedAt + Grace >= r.at

\* The SELECT after an UPDATE of no row.
Select(q) ==
  LET r == req[q] IN
  /\ r.pc = "select"
  /\ CASE ~Alive(r.refresh.sid, r.at) -> LogsOut(q)
       [] Alive(r.refresh.sid, r.at) /\ InGrace(r) -> Goto(q, "principal")
       [] OTHER -> Goto(q, "reuse")
  /\ UNCHANGED <<now, sends, session, account, cookies, unlucky, changedAt>>

\* An old token outside the grace: the whole session is revoked.
Reuse(q) ==
  LET sid == req[q].refresh.sid IN
  /\ req[q].pc = "reuse"
  /\ session' = [session EXCEPT ![sid].revoked = @ \/ session[sid].there,
                                ![sid].reused = session[sid].there /\ (@ \/ ~session[sid].revoked),
                                ![sid].endedAt = IF session[sid].revoked THEN @ ELSE now]
  /\ LogsOut(q)
  /\ UNCHANGED <<now, sends, account, cookies, unlucky, changedAt>>

\* isSessionAlive, on the paths that are checked every time.
RecheckAlive(q) ==
  LET r == req[q] IN
  /\ r.pc = "alive"
  /\ IF Alive(r.jwt.sid, now) THEN Goto(q, "principal") ELSE LogsOut(q)
  /\ UNCHANGED <<now, sends, session, account, cookies, unlucky, changedAt>>

\* loadPrincipal: what the database holds of the account now; nothing once it is closed.
LoadPrincipal == IF account.closed THEN None ELSE account.role

(* Mutant: the rotation keeps the snapshot it found in the cookie. *)
PrincipalKeepsSnapshot(q) ==
  LET r == req[q]
      rotated == r.jwt.exp <= r.at
      role == IF rotated THEN r.jwt.role ELSE account.role
  IN
  /\ r.pc = "principal"
  /\ req' = [req EXCEPT
       ![q].pc = IF r.kind = "END_OTHERS" THEN "others" ELSE "answer",
       ![q].state = "auth", ![q].role = role,
       ![q].setJwt = IF rotated \/ r.jwt.role # role
                       THEN [sid |-> r.jwt.sid, role |-> role,
                             exp |-> IF rotated THEN r.at + Access ELSE r.jwt.exp]
                       ELSE Keep]
  /\ UNCHANGED <<now, sends, session, account, cookies, unlucky, changedAt>>

\* The snapshot is compared with loadPrincipal, and the JWT is written again when it was
\* refreshed or the snapshot changed.  The route of END_OTHERS runs after it.
Principal(q) ==
  LET r == req[q]
      rotated == r.jwt.exp <= r.at
  IN
  /\ r.pc = "principal"
  /\ IF LoadPrincipal = None
       THEN LogsOut(q)
       ELSE req' = [req EXCEPT
              ![q].pc = IF r.kind = "END_OTHERS" THEN "others" ELSE "answer",
              ![q].state = "auth",
              ![q].role = LoadPrincipal,
              ![q].setJwt = IF rotated \/ r.jwt.role # LoadPrincipal
                              THEN [sid |-> r.jwt.sid, role |-> LoadPrincipal,
                                    exp |-> IF rotated THEN r.at + Access ELSE r.jwt.exp]
                              ELSE Keep]
  /\ UNCHANGED <<now, sends, session, account, cookies, unlucky, changedAt>>

\* A statement of refreshSession fails: the proxy catches it.
Fail(q) ==
  /\ req[q].pc \in {"rotate", "select", "reuse", "alive", "principal"}
  /\ Throws(q)
  /\ UNCHANGED <<now, sends, session, account, cookies, changedAt>>

\* DELETE /api/me/sessions: every session of the account but the current one.
EndOthers(q) ==
  /\ req[q].pc = "others"
  /\ session' = Ended(Sids \ {req[q].jwt.sid})
  /\ Goto(q, "answer")
  /\ UNCHANGED <<now, sends, account, cookies, unlucky, changedAt>>

(***************************************************************************)
(* Signing in and out: /api/auth/* is not touched by the proxy.            *)
(***************************************************************************)

\* events.signOut revokes the row; the answer clears the session cookie only.
SignOut(q) ==
  /\ req[q].pc = "signout"
  /\ session' = IF req[q].jwt = None THEN session ELSE Ended({req[q].jwt.sid})
  /\ req' = [req EXCEPT ![q].pc = "answer", ![q].state = "anon", ![q].setJwt = Clear]
  /\ UNCHANGED <<now, sends, account, cookies, unlucky, changedAt>>

\* authorize: the hash is read and compared with what was typed, the current password.
Verify(q) ==
  /\ req[q].pc = "verify"
  /\ IF account.closed \/ account.hash # account.password
       THEN req' = [req EXCEPT ![q].pc = "answer", ![q].state = "anon"]
       ELSE req' = [req EXCEPT ![q].pc = IF account.legacy THEN "rehash" ELSE "establish",
                               ![q].password = account.hash]
  /\ UNCHANGED <<now, sends, session, account, cookies, unlucky, changedAt>>

\* passwordNeedsRehash: the typed password is hashed again and stored by id alone.
Rehash(q) ==
  /\ req[q].pc = "rehash"
  /\ account' = [account EXCEPT !.hash = req[q].password, !.legacy = FALSE]
  /\ Goto(q, "establish")
  /\ UNCHANGED <<now, sends, session, cookies, unlucky, changedAt>>

\* The jwt callback reads the principal; an account without a row is refused.
Establish(q) ==
  /\ req[q].pc = "establish"
  /\ IF account.closed
       THEN req' = [req EXCEPT ![q].pc = "answer", ![q].state = "anon"]
       ELSE req' = [req EXCEPT ![q].pc = "create", ![q].role = account.role]
  /\ UNCHANGED <<now, sends, session, account, cookies, unlucky, changedAt>>

\* createSession, and the two cookies of the answer.
Opens(q, s) ==
  /\ session' = [session EXCEPT ![s] =
       [NoRow EXCEPT !.there = TRUE, !.expires = now + Ttl,
                     !.password = req[q].password, !.overlapped = req[q].overlapped]]
  /\ req' = [req EXCEPT ![q].pc = "answer", ![q].state = "auth",
               ![q].setJwt = [sid |-> s, exp |-> now + Access, role |-> req[q].role],
               ![q].setRefresh = [sid |-> s, secret |-> 0]]
  /\ unlucky' = IF Slow(q, now) THEN unlucky \cup {s} ELSE unlucky

CreateSession(q) ==
  /\ req[q].pc = "create"
  /\ IF account.closed   \* the foreign key of sessions.user_id
       THEN /\ req' = [req EXCEPT ![q].pc = "answer", ![q].state = "anon"]
            /\ UNCHANGED <<session, unlucky>>
       ELSE \E s \in {x \in Sids : ~session[x].there /\ session[x].expires = 0} : Opens(q, s)
  /\ UNCHANGED <<now, sends, account, cookies, changedAt>>

(***************************************************************************)
(* The answer reaches the browser, or does not.                            *)
(***************************************************************************)
Changed(old, op) == IF op = Keep THEN old ELSE IF op = Clear THEN None ELSE op

\* The answer puts the JWT of before a rotation, of which no more than the grace is left,
\* beside the refresh token of that rotation: the next request will rotate again.
Overtaken(r) ==
  /\ r.setJwt \notin {Keep, Clear}
  /\ cookies[r.browser].refresh = [sid |-> r.setJwt.sid, secret |-> session[r.setJwt.sid].token]
  /\ r.setJwt.exp <= session[r.setJwt.sid].rotatedAt + Grace

Deliver(q) ==
  LET r == req[q] IN
  /\ r.pc = "answer"
  /\ cookies' = [cookies EXCEPT ![r.browser] =
                  [jwt |-> Changed(@.jwt, r.setJwt), refresh |-> Changed(@.refresh, r.setRefresh)]]
  /\ req' = [req EXCEPT ![q] = NoRequest]
  /\ unlucky' = IF Overtaken(r) THEN unlucky \cup {r.setJwt.sid} ELSE unlucky
  /\ UNCHANGED <<now, sends, session, account, changedAt>>

Lose(q) ==
  LET r == req[q] IN
  /\ r.pc = "answer"
  /\ req' = [req EXCEPT ![q] = NoRequest]
  /\ unlucky' = IF r.setRefresh \in {Keep, Clear} THEN unlucky ELSE unlucky \cup {r.setRefresh.sid}
  /\ UNCHANGED <<now, sends, session, account, cookies, changedAt>>

(***************************************************************************)
(* Elsewhere                                                               *)
(***************************************************************************)

\* The member row changes; every request in flight remembers what it has lived through.
ChangesRole(r) ==
  /\ account' = [account EXCEPT !.role = r,
                  !.edits = IF account.role = "INACTIVE" THEN @ ELSE @ - 1]
  /\ changedAt' = now
  /\ req' = [q \in Requests |-> IF req[q].pc = "idle" THEN req[q]
                                  ELSE [req[q] EXCEPT !.lived = @ \cup {r}]]

\* updateMemberPermissions: the row changes, the sessions stay.
SetPermission ==
  /\ "PERMISSION" \in Edits /\ account.edits > 0
  /\ account.role # "INACTIVE" /\ ~account.closed
  /\ \E r \in {"FULL", "LIMITED"} \ {account.role} : ChangesRole(r)
  /\ UNCHANGED <<now, sends, session, cookies, unlucky>>

\* setMemberActive(false): the row and the sessions in one transaction.
Deactivate ==
  /\ "MEMBER" \in Edits /\ account.edits > 0
  /\ account.role # "INACTIVE" /\ ~account.closed
  /\ ChangesRole("INACTIVE")
  /\ session' = Ended(Sids)
  /\ UNCHANGED <<now, sends, cookies, unlucky>>

\* setMemberActive(true): the permissions are those stored before; FULL stands for them.
Reactivate ==
  /\ "MEMBER" \in Edits
  /\ account.role = "INACTIVE" /\ ~account.closed
  /\ ChangesRole("FULL")
  /\ UNCHANGED <<now, sends, session, cookies, unlucky>>

\* DELETE /api/me/sessions/:id from another device of the account.
EndDevice ==
  /\ "DEVICE" \in Edits /\ account.edits > 0
  /\ \E s \in Sids : Alive(s, now) /\ session' = Ended({s})
  /\ account' = [account EXCEPT !.edits = @ - 1]
  /\ UNCHANGED <<now, sends, cookies, req, unlucky, changedAt>>

(* Mutant: the sessions are not ended with the change of the password. *)
ResetKeepsSessions ==
  /\ "RESET" \in Edits /\ account.edits > 0
  /\ account.password = 1 /\ ~account.closed
  /\ account' = [account EXCEPT !.password = 2, !.hash = 2, !.legacy = FALSE, !.edits = @ - 1]
  /\ UNCHANGED <<now, sends, session, cookies, req, unlucky, changedAt>>

\* confirmPasswordReset: the new hash and the end of every session in one transaction.
ResetPassword ==
  /\ "RESET" \in Edits /\ account.edits > 0
  /\ account.password = 1 /\ ~account.closed   \* bound: one reset
  /\ account' = [account EXCEPT !.password = 2, !.hash = 2, !.legacy = FALSE, !.edits = @ - 1]
  /\ session' = Ended(Sids)
  /\ req' = [q \in Requests |-> IF req[q].pc \in LoginSteps
                                  THEN [req[q] EXCEPT !.overlapped = TRUE] ELSE req[q]]
  /\ UNCHANGED <<now, sends, cookies, unlucky, changedAt>>

\* purgeBusiness deletes the sessions of an account and the account, or makes it anonymous.
Purged ==
  [s \in Sids |->
    IF session[s].there
      THEN [session[s] EXCEPT !.there = FALSE, !.revoked = TRUE,
                              !.endedAt = IF session[s].revoked THEN @ ELSE now]
      ELSE session[s]]

CloseAccount ==
  /\ "CLOSE" \in Edits /\ account.edits > 0
  /\ ~account.closed
  /\ account' = [account EXCEPT !.closed = TRUE, !.edits = @ - 1]
  /\ session' = Purged
  /\ UNCHANGED <<now, sends, cookies, req, unlucky, changedAt>>

\* A session meets bad luck when one of its requests takes more than half the grace.
Tick ==
  /\ now < MaxTime
  /\ \A q \in Requests : req[q].pc # "idle" => now < req[q].sentAt + Patience
  /\ now' = now + 1
  /\ unlucky' = unlucky \cup
       {s \in Sids : \E q \in Requests :
          /\ req[q].pc # "idle"
          /\ Slow(q, now + 1)
          /\ \/ req[q].refresh # None /\ req[q].refresh.sid = s
             \/ req[q].setRefresh \notin {Keep, Clear} /\ req[q].setRefresh.sid = s}
  /\ UNCHANGED <<sends, session, account, cookies, req, changedAt>>

Server(q) ==
  \/ Proxy(q) \/ Rotate(q) \/ Select(q) \/ Reuse(q) \/ RecheckAlive(q) \/ Principal(q)
  \/ EndOthers(q) \/ SignOut(q) \/ Verify(q) \/ Rehash(q) \/ Establish(q) \/ CreateSession(q)

\* The bounds are reached.
Finished ==
  /\ now = MaxTime /\ sends = MaxSends
  /\ \A q \in Requests : req[q].pc = "idle"
  /\ UNCHANGED vars

Next ==
  \/ \E q \in Requests :
       \/ \E b \in Browsers, k \in Kinds : Send(q, b, k)
       \/ Server(q) \/ Fail(q) \/ Deliver(q) \/ Lose(q)
  \/ SetPermission \/ EndDevice \/ Deactivate \/ Reactivate \/ ResetPassword \/ CloseAccount
  \/ Tick \/ Finished

Spec == Init /\ [][Next]_vars

(***************************************************************************)
(* Properties                                                              *)
(***************************************************************************)
Row == [there : BOOLEAN, token : Nat, prev : Nat \cup {None}, rotatedAt : Nat,
        revoked : BOOLEAN, reused : BOOLEAN, endedAt : Nat, expires : Nat,
        password : 0..2, overlapped : BOOLEAN]

Request == [pc : Steps, browser : Browsers \cup {None}, kind : AllKinds,
            jwt : Jwts \cup {None}, refresh : Refreshes \cup {None},
            sentAt : Nat, at : Nat, dead : BOOLEAN, lived : SUBSET Roles,
            role : Roles \cup {None}, password : 0..2, overlapped : BOOLEAN,
            state : {"anon", "auth", "logout"},
            setJwt : Jwts \cup {Keep, Clear}, setRefresh : Refreshes \cup {Keep, Clear}]

TypeOK ==
  /\ now \in 0..MaxTime
  /\ session \in [Sids -> Row]
  /\ account \in [password : 1..2, legacy : BOOLEAN, hash : 1..2, role : Roles, closed : BOOLEAN,
                  edits : 0..MaxEdits]
  /\ cookies \in [Browsers -> [jwt : Jwts \cup {None}, refresh : Refreshes \cup {None}]]
  /\ req \in [Requests -> Request]
  /\ sends \in 0..MaxSends
  /\ unlucky \subseteq Sids
  /\ changedAt \in 0..MaxTime

\* The requests answered as signed in by the session of the cookies they carried.
Passed(q) ==
  /\ req[q].pc = "answer" /\ req[q].state = "auth"
  /\ req[q].kind \in {"PAGE", "CONSOLE", "END_OTHERS"}

\* What a request is answered by is in force.  One sent after its session was ended (by
\* another device, the owner, a reset of the password) is refused on the paths that are
\* checked every time, and everywhere else once the access time since the end is over.
\* The member row it is judged by was in force while it ran, on the paths checked every
\* time; everywhere else a changed row is seen once the access time is over, and the time
\* a sign-in may take between loadPrincipal and accessExp.  Both whatever older answers
\* are delivered late (isSessionAlive, rotateSession, refreshSession, establish).
AnsweredByWhatHolds ==
  \A q \in Requests : Passed(q) =>
    /\ req[q].dead =>
         /\ req[q].kind = "PAGE"
         /\ req[q].at < session[req[q].jwt.sid].endedAt + Access
    /\ \/ req[q].role \in req[q].lived
       \/ /\ req[q].kind = "PAGE"
          /\ \/ req[q].jwt.sid \in unlucky
             \/ req[q].at < changedAt + Access + Grace \div 2

\* Only bad luck looks like a stolen token: a session is revoked for reuse only when one
\* of its answers was lost, one of its requests took more than half the grace, or an older
\* answer with a JWT about to expire overtook that of a rotation (rotateSession; the JWT
\* refreshSession writes again after a changed snapshot keeps its accessExp).
NoFalseReuse == \A s \in Sids : session[s].reused => s \in unlucky

\* After a reset of the password no session opened with the old one is left, except
\* those of logins that had read the old hash before the reset and were not finished
\* (confirmPasswordReset, authorize, createSession).
ResetEndsSessions ==
  \A s \in Sids : session[s].there /\ ~session[s].revoked /\ ~session[s].overlapped =>
    session[s].password = account.password
=============================================================================
