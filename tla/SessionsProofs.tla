--------------------------- MODULE SessionsProofs ---------------------------
(***************************************************************************)
(* The three invariants of Sessions, for any browsers, requests, sessions  *)
(* and periods: what a request is answered by is in force, only bad luck   *)
(* looks like a stolen token, and a reset leaves no session of the old     *)
(* password.                                                               *)
(*                                                                         *)
(* Each of them needs to know of every JWT and refresh token that is       *)
(* anywhere - in a cookie, in a request, in an answer - when it was issued *)
(* at the latest, and of every request what its handler has found out by   *)
(* the statement it has reached.  The argument about reuse needs more:     *)
(* where the newest token of a session is.                                 *)
(***************************************************************************)
EXTENDS Sessions, TLAPS

Half == Grace \div 2

Ordinary == {"PAGE", "CONSOLE", "END_OTHERS"}

Busy(r) == r.pc # "idle"
IsJwt(j) == j \notin {None, Keep, Clear}
IsToken(f) == f \notin {None, Keep, Clear}

Issued(s) == s \in Sids /\ session[s].expires # 0
Live(s) == session[s].there /\ ~session[s].revoked

\* A JWT that was issued and has not been taken back.
JwtKnown(j) ==
  /\ Issued(j.sid)
  /\ Access <= j.exp /\ j.exp <= now + Access
  /\ session[j.sid].revoked => j.exp <= session[j.sid].endedAt + Access
  /\ \/ j.role = account.role
     \/ j.sid \in unlucky
     \/ j.exp <= changedAt + Access + Half

TokenKnown(f) == Issued(f.sid) /\ f.secret <= session[f.sid].token

Rows ==
  /\ changedAt <= now
  /\ \A s \in Sids :
      /\ session[s].expires = 0 => ~session[s].there /\ ~session[s].revoked
      /\ session[s].expires # 0 => session[s].there \/ session[s].revoked
      /\ account.closed => ~session[s].there
      /\ session[s].token > 0 => session[s].prev = session[s].token - 1
      /\ session[s].rotatedAt <= now

Cookies ==
  \A b \in Browsers :
    /\ IsJwt(cookies[b].jwt) => JwtKnown(cookies[b].jwt)
    /\ IsToken(cookies[b].refresh) => TokenKnown(cookies[b].refresh)

\* What is true of a request wherever it is.
Carries(r) ==
  /\ r.browser \in Browsers
  /\ r.sentAt <= now /\ r.at <= now
  /\ account.role \in r.lived
  /\ IsJwt(r.jwt) => JwtKnown(r.jwt)
  /\ IsToken(r.refresh) => TokenKnown(r.refresh)
  /\ IsJwt(r.setJwt) => JwtKnown(r.setJwt)
  /\ IsToken(r.setRefresh) => TokenKnown(r.setRefresh)
  /\ r.dead => IsJwt(r.jwt) /\ session[r.jwt.sid].revoked

\* What refreshSession has found out.
Refreshing(r) ==
  /\ r.pc \in {"proxy", "rotate", "select", "reuse", "alive", "principal", "others"} => r.kind \in Ordinary
  /\ r.pc \in {"rotate", "select", "reuse"} =>
       /\ IsJwt(r.jwt) /\ IsToken(r.refresh) /\ r.refresh.sid = r.jwt.sid
       /\ r.jwt.exp <= r.at /\ r.sentAt <= r.at
  /\ r.pc = "select" =>
       ~Alive(r.refresh.sid, r.at) \/ r.refresh.secret < session[r.refresh.sid].token
  /\ r.pc = "alive" => IsJwt(r.jwt) /\ r.at < r.jwt.exp
  /\ r.pc \in {"principal", "others"} => IsJwt(r.jwt) /\ ~r.dead
  /\ r.pc = "principal" =>
       /\ r.setJwt = Keep
       /\ session[r.jwt.sid].revoked => r.at <= session[r.jwt.sid].endedAt
  /\ r.pc = "others" => r.role \in r.lived

\* What is to be written into the cookies.
Writes(r) ==
  /\ r.pc \notin {"principal", "others", "answer"} => r.setJwt = Keep /\ r.setRefresh = Keep
  /\ IsToken(r.setRefresh) =>
       /\ r.setRefresh.secret = session[r.setRefresh.sid].token
       /\ r.setRefresh.secret > 0 => r.sentAt <= session[r.setRefresh.sid].rotatedAt
       /\ r.pc = "principal" =>
            /\ r.setRefresh.sid = r.jwt.sid /\ r.jwt.exp <= r.at
            /\ session[r.setRefresh.sid].rotatedAt = r.at
       /\ r.pc \in {"others", "answer"} =>
            /\ IsJwt(r.setJwt) /\ r.setJwt.sid = r.setRefresh.sid
            /\ session[r.setRefresh.sid].rotatedAt + Access <= r.setJwt.exp

\* What a sign-in has found out.
SigningIn(r) ==
  /\ r.pc \in {"verify"} \cup LoginSteps => r.kind = "LOGIN"
  /\ r.pc \in LoginSteps =>
       /\ r.password \in 1..2
       /\ ~r.overlapped => r.password = account.password
  /\ r.pc = "create" => r.role \in Roles /\ (r.role = account.role \/ r.sentAt <= changedAt)

\* What an answer is based on.
Answered(r) ==
  r.pc = "answer" /\ r.state = "auth" /\ r.kind \in Ordinary =>
    /\ r.dead => r.kind = "PAGE" /\ r.at < r.jwt.exp
    /\ \/ r.role \in r.lived
       \/ /\ r.kind = "PAGE"
          /\ r.jwt.sid \in unlucky \/ r.at < changedAt + Access + Half

Knows(r) == Carries(r) /\ Refreshing(r) /\ Writes(r) /\ SigningIn(r) /\ Answered(r)

Calls == \A q \in Requests : Busy(req[q]) => Knows(req[q])

\* The refresh tokens of a session are in one browser or on their way to and from it.
Brings(q, s) ==
  /\ Busy(req[q])
  /\ \/ IsToken(req[q].refresh) /\ req[q].refresh.sid = s
     \/ IsToken(req[q].setRefresh) /\ req[q].setRefresh.sid = s

Holds(b, s) ==
  \/ IsToken(cookies[b].refresh) /\ cookies[b].refresh.sid = s
  \/ \E q \in Requests : req[q].browser = b /\ Brings(q, s)

OneHolder == \A s \in Sids : \A b, c \in Browsers : Holds(b, s) /\ Holds(c, s) => b = c

\* A token that is on its way to the browser has not been seen by anyone before.
Unseen ==
  \A q \in Requests : Busy(req[q]) /\ IsToken(req[q].setRefresh) =>
    LET f == req[q].setRefresh IN
    /\ \A b \in Browsers : IsToken(cookies[b].refresh) /\ cookies[b].refresh.sid = f.sid =>
         cookies[b].refresh.secret < f.secret
    /\ \A p \in Requests : Busy(req[p]) =>
         /\ IsToken(req[p].refresh) /\ req[p].refresh.sid = f.sid => req[p].refresh.secret < f.secret
         /\ p # q /\ IsToken(req[p].setRefresh) => req[p].setRefresh.sid # f.sid

\* While a session has met no bad luck: every request with a token of it is quick, ...
Prompt(s) == \A q \in Requests : Brings(q, s) => now - req[q].sentAt <= Half

\* ... a cookie is at most one token behind, and then the next is on its way, ...
CookieRecent(s) ==
  \A b \in Browsers :
    LET f == cookies[b].refresh IN
    IsToken(f) /\ f.sid = s /\ f.secret < session[s].token =>
      /\ f.secret = session[s].token - 1
      /\ \E q \in Requests : /\ Busy(req[q]) /\ req[q].browser = b
                             /\ IsToken(req[q].setRefresh) /\ req[q].setRefresh.sid = s

\* ... a request with the token before the newest was sent soon after the rotation, ...
RequestRecent(s) ==
  \A q \in Requests :
    LET f == req[q].refresh IN
    Busy(req[q]) /\ IsToken(f) /\ f.sid = s /\ f.secret < session[s].token =>
      /\ f.secret = session[s].token - 1
      /\ req[q].sentAt <= session[s].rotatedAt + Half

\* ... the newest token comes with a JWT that outlives the grace of its rotation, ...
Paired(j, f, s) ==
  IsJwt(j) /\ IsToken(f) /\ j.sid = s /\ f = [sid |-> s, secret |-> session[s].token] =>
    session[s].rotatedAt + Grace < j.exp

\* ... and no request has been taken for a thief's.
Untroubled(s) ==
  /\ CookieRecent(s)
  /\ RequestRecent(s)
  /\ \A b \in Browsers : Paired(cookies[b].jwt, cookies[b].refresh, s)
  /\ \A q \in Requests : Busy(req[q]) => Paired(req[q].jwt, req[q].refresh, s)
  /\ \A q \in Requests : req[q].pc = "reuse" => req[q].refresh.sid # s

Luck ==
  \A s \in Sids \ unlucky : Prompt(s) /\ (Live(s) => Untroubled(s))

Inductive ==
  /\ TypeOK
  /\ Rows
  /\ Cookies
  /\ Calls
  /\ OneHolder
  /\ Unseen
  /\ Luck
  /\ NoFalseReuse
  /\ ResetEndsSessions

-----------------------------------------------------------------------------
(* Arithmetic, and the values that stand for nothing. *)

LEMMA HalfFacts == Half \in Nat /\ 2 * Half <= Grace /\ Grace <= 2 * Half + 1
BY PeriodsAssumption DEF Half

LEMMA SlowIs ==
  ASSUME NEW q \in Requests, NEW t \in Nat, req[q].sentAt \in Nat
  PROVE  Slow(q, t) <=> t - req[q].sentAt > Half
BY HalfFacts, PeriodsAssumption DEF Slow

LEMMA NothingFacts ==
  /\ \A j \in Jwts : IsJwt(j)
  /\ \A f \in Refreshes : IsToken(f)
  /\ \A j \in Jwts \cup {None} : j # None => j \in Jwts
  /\ \A j \in Jwts \cup {Keep, Clear} : IsJwt(j) => j \in Jwts
  /\ \A j \in Jwts \cup {None} : IsJwt(j) => j \in Jwts
  /\ \A f \in Refreshes \cup {None} : f # None => f \in Refreshes
  /\ \A f \in Refreshes \cup {Keep, Clear} : IsToken(f) => f \in Refreshes
  /\ \A f \in Refreshes \cup {None} : IsToken(f) => f \in Refreshes
  /\ \A v \in {None, Keep, Clear} : ~IsJwt(v) /\ ~IsToken(v)
BY NothingAssumption DEF IsJwt, IsToken

LEMMA NoRequestFacts == NoRequest \in Request /\ ~Busy(NoRequest)
BY DEF NoRequest, Request, Steps, Busy, AllKinds

(* What is known of the state, opened up. *)
Types ==
  /\ now \in Nat /\ changedAt \in Nat
  /\ session \in [Sids -> Row]
  /\ account.role \in Roles /\ account.closed \in BOOLEAN
  /\ account.password \in 1..2 /\ account.hash \in 1..2
  /\ cookies \in [Browsers -> [jwt : Jwts \cup {None}, refresh : Refreshes \cup {None}]]
  /\ req \in [Requests -> Request]
  /\ unlucky \subseteq Sids

LEMMA TypesHold == ASSUME TypeOK PROVE Types
BY PeriodsAssumption DEF TypeOK, Types

LEMMA CallFacts ==
  ASSUME Inductive, NEW q \in Requests
  PROVE  req[q] \in Request /\ (Busy(req[q]) => Knows(req[q]))
BY DEF Inductive, TypeOK, Calls

-----------------------------------------------------------------------------
(* Steps. *)

\* What a step may not take away from a session that was issued.
Onward ==
  /\ now <= now' /\ changedAt <= changedAt' /\ unlucky \subseteq unlucky'
  /\ (account'.role = account.role /\ changedAt' = changedAt) \/ changedAt' = now
  /\ \A s \in Sids : session[s].expires # 0 =>
       /\ session'[s].expires = session[s].expires
       /\ session[s].token <= session'[s].token
       /\ session'[s].there => session[s].there
       /\ session[s].revoked => session'[s].revoked /\ session'[s].endedAt = session[s].endedAt
       /\ ~session[s].revoked /\ session'[s].revoked => session'[s].endedAt = now

LEMMA JwtStays ==
  ASSUME Types, Types', Onward, NEW j \in Jwts, JwtKnown(j) PROVE JwtKnown(j)'
<1>1. j.sid \in Sids /\ j.exp \in Nat BY DEF Jwts
<1>2. PICK s \in Sids : s = j.sid BY <1>1
<1>3. session[s] \in Row /\ session'[s] \in Row BY DEF Types
<1>4. Issued(s) /\ Issued(s)' BY <1>2 DEF Issued, JwtKnown, Onward
<1>5. j.exp <= now' + Access BY <1>1, PeriodsAssumption DEF JwtKnown, Onward, Types
<1>6. session'[s].revoked => j.exp <= session'[s].endedAt + Access
  BY <1>1, <1>2, <1>3, <1>4, PeriodsAssumption DEF JwtKnown, Onward, Types, Row, Issued
<1>7. \/ j.role = account'.role
      \/ j.sid \in unlucky'
      \/ j.exp <= changedAt' + Access + Half
  BY <1>1, HalfFacts, PeriodsAssumption DEF JwtKnown, Onward, Types
<1> QED BY <1>2, <1>4, <1>5, <1>6, <1>7 DEF JwtKnown

LEMMA TokenStays ==
  ASSUME Types, Types', Onward, NEW f \in Refreshes, TokenKnown(f) PROVE TokenKnown(f)'
<1>1. f.sid \in Sids /\ f.secret \in Nat BY DEF Refreshes
<1>2. session[f.sid] \in Row /\ session'[f.sid] \in Row BY <1>1 DEF Types
<1> QED BY <1>1, <1>2 DEF TokenKnown, Issued, Onward, Row

\* The tokens of a session stay as they are.
SameTokens(s) == session'[s].token = session[s].token /\ session'[s].rotatedAt = session[s].rotatedAt

(* What a request has found out stays true while others take their steps. *)
LEMMA CarriesStays ==
  ASSUME Types, Types', Onward, NEW r \in Request, Carries(r), account'.role \in r.lived
  PROVE  Carries(r)'
<1>1. /\ r.jwt \in Jwts \cup {None} /\ r.refresh \in Refreshes \cup {None}
      /\ r.setJwt \in Jwts \cup {Keep, Clear} /\ r.setRefresh \in Refreshes \cup {Keep, Clear}
      /\ r.sentAt \in Nat /\ r.at \in Nat
  BY DEF Request
<1>2. IsJwt(r.jwt) => JwtKnown(r.jwt)' BY <1>1, JwtStays, NothingFacts DEF Carries
<1>3. IsToken(r.refresh) => TokenKnown(r.refresh)' BY <1>1, TokenStays, NothingFacts DEF Carries
<1>4. IsJwt(r.setJwt) => JwtKnown(r.setJwt)' BY <1>1, JwtStays, NothingFacts DEF Carries
<1>5. IsToken(r.setRefresh) => TokenKnown(r.setRefresh)' BY <1>1, TokenStays, NothingFacts DEF Carries
<1>6. r.sentAt <= now' /\ r.at <= now' BY <1>1 DEF Carries, Onward, Types
<1>7. r.dead => IsJwt(r.jwt) /\ session'[r.jwt.sid].revoked
  BY <1>1, NothingFacts DEF Carries, Onward, JwtKnown, Issued
<1> QED BY <1>2, <1>3, <1>4, <1>5, <1>6, <1>7 DEF Carries

LEMMA RefreshingStays ==
  ASSUME Types, Types', Onward, NEW r \in Request, Carries(r), Refreshing(r)
  PROVE  Refreshing(r)'
<1>1. /\ r.jwt \in Jwts \cup {None} /\ r.refresh \in Refreshes \cup {None} /\ r.at \in Nat
  BY DEF Request
<1>2. r.pc = "select"
        => (~Alive(r.refresh.sid, r.at) \/ r.refresh.secret < session[r.refresh.sid].token)'
  <2> SUFFICES ASSUME r.pc = "select"
               PROVE  (~Alive(r.refresh.sid, r.at) \/ r.refresh.secret < session[r.refresh.sid].token)'
    OBVIOUS
  <2>1. r.refresh \in Refreshes /\ TokenKnown(r.refresh)
    BY <1>1, NothingFacts DEF Refreshing, Carries
  <2>2. PICK s \in Sids : s = r.refresh.sid BY <2>1 DEF Refreshes
  <2>3. Issued(s) BY <2>1, <2>2 DEF TokenKnown
  <2>4. session[s].token \in Nat /\ session'[s].token \in Nat /\ r.refresh.secret \in Nat
    BY <2>1 DEF Types, Row, Refreshes
  <2>5. session[s].token <= session'[s].token BY <2>3 DEF Onward, Issued
  <2>6. Alive(s, r.at)' => Alive(s, r.at) BY <2>3 DEF Alive, Onward, Issued
  <2>7. ~Alive(s, r.at) \/ r.refresh.secret < session[s].token BY <2>2 DEF Refreshing
  <2>8. ~Alive(s, r.at)' \/ r.refresh.secret < session'[s].token BY <2>4, <2>5, <2>6, <2>7
  <2> QED BY <2>2, <2>8
<1>3. r.pc = "principal"
        => (session'[r.jwt.sid].revoked => r.at <= session'[r.jwt.sid].endedAt)
  <2> SUFFICES ASSUME r.pc = "principal", session'[r.jwt.sid].revoked
               PROVE  r.at <= session'[r.jwt.sid].endedAt
    OBVIOUS
  <2>1. r.jwt \in Jwts /\ Issued(r.jwt.sid)
    BY <1>1, NothingFacts DEF Refreshing, Carries, JwtKnown
  <2> QED BY <1>1, <2>1 DEF Refreshing, Carries, Onward, Issued
<1> QED BY <1>2, <1>3 DEF Refreshing

LEMMA WritesStays ==
  ASSUME NEW r \in Request, Writes(r), IsToken(r.setRefresh) => SameTokens(r.setRefresh.sid)
  PROVE  Writes(r)'
BY DEF Writes, SameTokens

LEMMA SigningInStays ==
  ASSUME Types, Types', Onward, NEW r \in Request, SigningIn(r), r.sentAt <= now,
         account'.password = account.password \/ r.overlapped \/ r.pc \notin LoginSteps
  PROVE  SigningIn(r)'
<1>1. r.sentAt \in Nat BY DEF Request
<1>2. r.sentAt <= changedAt => r.sentAt <= changedAt' BY <1>1 DEF Onward, Types
<1>3. account'.role = account.role \/ r.sentAt <= changedAt' BY <1>1 DEF Onward, Types
<1> QED BY <1>2, <1>3 DEF SigningIn

LEMMA AnsweredStays ==
  ASSUME Types, Types', Onward, NEW r \in Request, Answered(r) PROVE Answered(r)'
<1>1. r.at \in Nat BY DEF Request
<1>2. r.at < changedAt + Access + Half => r.at < changedAt' + Access + Half
  BY <1>1, HalfFacts, PeriodsAssumption DEF Onward, Types
<1> QED BY <1>2 DEF Answered, Onward

LEMMA KnowsStaysOn ==
  ASSUME Types, Types', Onward, NEW r \in Request, Knows(r), account'.role \in r.lived,
         account'.password = account.password \/ r.overlapped \/ r.pc \notin LoginSteps,
         IsToken(r.setRefresh) => SameTokens(r.setRefresh.sid)
  PROVE  Knows(r)'
<1>1. Carries(r)' BY CarriesStays DEF Knows
<1>2. Refreshing(r)' BY RefreshingStays DEF Knows
<1>3. Writes(r)' BY WritesStays DEF Knows
<1>4. SigningIn(r)' BY SigningInStays DEF Knows, Carries
<1>5. Answered(r)' BY AnsweredStays DEF Knows
<1> QED BY <1>1, <1>2, <1>3, <1>4, <1>5 DEF Knows

LEMMA KnowsStays ==
  ASSUME Types, Types', Onward, NEW r \in Request, Knows(r),
         account'.role = account.role, account'.password = account.password,
         IsToken(r.setRefresh) => SameTokens(r.setRefresh.sid)
  PROVE  Knows(r)'
<1>1. account'.role \in r.lived BY DEF Knows, Carries
<1> QED BY <1>1, KnowsStaysOn

-----------------------------------------------------------------------------
(* Steps that hand out nothing: the cookies stay, and every request in flight carries *)
(* what it carried or less.                                                           *)

StaysLive(s) == session'[s].there /\ ~session'[s].revoked

\* The token a request was bringing is still on its way, or its session is past help.
StillComes(w, r) ==
  IsToken(w.setRefresh) =>
    \/ Busy(r) /\ r.setRefresh = w.setRefresh
    \/ w.setRefresh.sid \in unlucky'
    \/ ~StaysLive(w.setRefresh.sid)

\* A request w that has become r.
Follows(w, r) ==
  /\ Busy(r) =>
       /\ Busy(w)
       /\ r.browser = w.browser /\ r.jwt = w.jwt /\ r.refresh = w.refresh /\ r.sentAt = w.sentAt
       /\ IsToken(r.setRefresh) => r.setRefresh = w.setRefresh
       /\ r.pc = "reuse" => w.pc = "reuse" \/ w.refresh.sid \in unlucky' \/ ~StaysLive(w.refresh.sid)
  /\ Busy(w) => StillComes(w, r)

Quiet ==
  /\ now' = now /\ cookies' = cookies
  /\ \A s \in Sids : session[s].expires # 0 => SameTokens(s)
  /\ \A s \in Sids : StaysLive(s) => Live(s)
  /\ \A q \in Requests : Follows(req[q], req'[q])

LEMMA KnownFacts ==
  ASSUME Inductive
  PROVE  Types /\ Rows /\ Cookies /\ Calls /\ OneHolder /\ Unseen /\ Luck /\ NoFalseReuse /\ ResetEndsSessions
BY TypesHold DEF Inductive

LEMMA CookieFacts ==
  ASSUME Inductive, NEW b \in Browsers
  PROVE  /\ cookies[b].jwt \in Jwts \cup {None} /\ cookies[b].refresh \in Refreshes \cup {None}
         /\ IsJwt(cookies[b].jwt) => JwtKnown(cookies[b].jwt)
         /\ IsToken(cookies[b].refresh) => TokenKnown(cookies[b].refresh)
BY KnownFacts DEF Types, Cookies

LEMMA CookiesStay ==
  ASSUME Inductive, Types', Onward, cookies' = cookies PROVE Cookies'
<1> SUFFICES ASSUME NEW b \in Browsers
             PROVE  /\ IsJwt(cookies[b].jwt) => JwtKnown(cookies[b].jwt)'
                    /\ IsToken(cookies[b].refresh) => TokenKnown(cookies[b].refresh)'
  BY DEF Cookies, IsJwt, IsToken
<1>1. IsJwt(cookies[b].jwt) => JwtKnown(cookies[b].jwt)'
  BY CookieFacts, KnownFacts, JwtStays, NothingFacts
<1>2. IsToken(cookies[b].refresh) => TokenKnown(cookies[b].refresh)'
  BY CookieFacts, KnownFacts, TokenStays, NothingFacts
<1> QED BY <1>1, <1>2

LEMMA QuietHolder == ASSUME Inductive, Quiet PROVE OneHolder'
<1>1. ASSUME NEW q \in Requests, NEW s, Brings(q, s)'
      PROVE  Brings(q, s) /\ req'[q].browser = req[q].browser
  BY <1>1 DEF Brings, Quiet, Follows
<1>2. ASSUME NEW b \in Browsers, NEW s, Holds(b, s)' PROVE Holds(b, s)
  BY <1>1, <1>2 DEF Holds, Quiet
<1> QED BY <1>2, KnownFacts DEF OneHolder

LEMMA QuietUnseen == ASSUME Inductive, Quiet PROVE Unseen'
BY KnownFacts DEF Unseen, Quiet, Follows

LEMMA QuietLuck == ASSUME Inductive, Onward, Quiet PROVE Luck'
<1> SUFFICES ASSUME NEW s \in Sids \ unlucky'
             PROVE  Prompt(s)' /\ (Live(s)' => Untroubled(s)')
  BY DEF Luck
<1>1. s \in Sids \ unlucky BY DEF Onward
<1>2. Prompt(s) /\ (Live(s) => Untroubled(s)) BY <1>1, KnownFacts DEF Luck
<1>3. Prompt(s)' BY <1>2 DEF Prompt, Brings, Quiet, Follows
<1>4. ASSUME Live(s)' PROVE Untroubled(s)'
  <2>0. StaysLive(s) BY <1>4 DEF StaysLive, Live
  <2>1. Live(s) /\ Untroubled(s) BY <1>2, <2>0 DEF Quiet
  <2>2. SameTokens(s) BY <1>1, <2>1, KnownFacts DEF Quiet, Rows, Live
  <2>3. CookieRecent(s)'
    <3> SUFFICES ASSUME NEW b \in Browsers, IsToken(cookies[b].refresh), cookies[b].refresh.sid = s,
                        cookies[b].refresh.secret < session[s].token
                 PROVE  /\ cookies[b].refresh.secret = session[s].token - 1
                        /\ \E q \in Requests : /\ Busy(req'[q]) /\ req'[q].browser = b
                                               /\ IsToken(req'[q].setRefresh) /\ req'[q].setRefresh.sid = s
      BY <2>2 DEF CookieRecent, Quiet, SameTokens, IsToken, Busy
    <3>1. cookies[b].refresh.secret = session[s].token - 1 BY <2>1 DEF Untroubled, CookieRecent
    <3>2. PICK q \in Requests : /\ Busy(req[q]) /\ req[q].browser = b
                                /\ IsToken(req[q].setRefresh) /\ req[q].setRefresh.sid = s
      BY <2>1 DEF Untroubled, CookieRecent
    <3>3. StillComes(req[q], req'[q]) /\ Follows(req[q], req'[q]) BY <3>2 DEF Quiet, Follows
    <3>4. Busy(req'[q]) /\ req'[q].setRefresh = req[q].setRefresh
      BY <2>0, <3>2, <3>3 DEF StillComes
    <3> QED BY <3>1, <3>2, <3>3, <3>4 DEF Follows
  <2>4. RequestRecent(s)'
    BY <2>1, <2>2 DEF Untroubled, RequestRecent, Quiet, Follows, SameTokens
  <2>5. \A b \in Browsers : Paired(cookies[b].jwt, cookies[b].refresh, s)'
    BY <2>1, <2>2 DEF Untroubled, Paired, Quiet, SameTokens
  <2>6. \A q \in Requests : Busy(req'[q]) => Paired(req[q].jwt, req[q].refresh, s)'
    BY <2>1, <2>2 DEF Untroubled, Paired, Quiet, Follows, SameTokens
  <2>7. \A q \in Requests : req'[q].pc = "reuse" => req'[q].refresh.sid # s
    BY <2>0, <2>1 DEF Untroubled, Quiet, Follows, Busy
  <2> QED BY <2>3, <2>4, <2>5, <2>6, <2>7 DEF Untroubled
<1> QED BY <1>3, <1>4

-----------------------------------------------------------------------------
(* Steps of one request, q, which becomes r. *)

Becomes(q, r) == req' = [req EXCEPT ![q] = r]

LEMMA CallsStep ==
  ASSUME Inductive, Types', Onward, NEW q \in Requests, NEW r \in Request, Becomes(q, r),
         account'.role = account.role, account'.password = account.password,
         \A p \in Requests \ {q} :
           Busy(req[p]) /\ IsToken(req[p].setRefresh) => SameTokens(req[p].setRefresh.sid),
         Busy(r) => Knows(r)'
  PROVE  Calls'
<1> SUFFICES ASSUME NEW p \in Requests, Busy(req'[p]) PROVE Knows(req[p])'
  BY DEF Calls, Busy
<1>1. CASE p = q
  <2>1. req'[p] = r BY <1>1, KnownFacts DEF Becomes, Types
  <2> QED BY <2>1
<1>2. CASE p # q
  <2>1. req'[p] = req[p] BY <1>2, KnownFacts DEF Becomes, Types
  <2>2. PICK w \in Request : w = req[p] BY CallFacts
  <2>3. Knows(w) BY <2>1, <2>2, CallFacts
  <2>4. IsToken(w.setRefresh) => SameTokens(w.setRefresh.sid) BY <1>2, <2>1, <2>2
  <2>5. Knows(w)' BY <2>3, <2>4, KnownFacts, KnowsStays
  <2> QED BY <2>1, <2>2, <2>5
<1> QED BY <1>1, <1>2

LEMMA LocalStep ==
  ASSUME Inductive, TypeOK', Rows', Onward, NEW q \in Requests, NEW r \in Request, Becomes(q, r),
         now' = now, cookies' = cookies,
         \A s \in Sids : session[s].expires # 0 => SameTokens(s),
         \A s \in Sids : StaysLive(s) => Live(s),
         Follows(req[q], r),
         account'.role = account.role, account'.password = account.password,
         Busy(r) => Knows(r)', NoFalseReuse', ResetEndsSessions'
  PROVE  Inductive'
<1>1. Types' BY TypesHold, PTL
<1>2. Cookies' BY <1>1, CookiesStay
<1>3. \A p \in Requests : req'[p] = IF p = q THEN r ELSE req[p]
  BY KnownFacts DEF Becomes, Types
<1>4. \A p \in Requests : Follows(req[p], req[p]) BY DEF Follows, StillComes
<1>5. Quiet BY <1>3, <1>4 DEF Quiet
<1>6. \A p \in Requests \ {q} :
        Busy(req[p]) /\ IsToken(req[p].setRefresh) => SameTokens(req[p].setRefresh.sid)
  <2> SUFFICES ASSUME NEW p \in Requests, Busy(req[p]), IsToken(req[p].setRefresh)
               PROVE  SameTokens(req[p].setRefresh.sid)
    OBVIOUS
  <2>1. Issued(req[p].setRefresh.sid) BY CallFacts DEF Knows, Carries, TokenKnown
  <2> QED BY <2>1 DEF Issued
<1>7. Calls' BY <1>1, <1>6, CallsStep
<1> QED BY <1>2, <1>5, <1>7, QuietHolder, QuietUnseen, QuietLuck DEF Inductive

(* A request that only reads. *)
LEMMA ReadStep ==
  ASSUME Inductive, UNCHANGED <<now, session, account, cookies, sends, changedAt>>,
         unlucky \subseteq unlucky', unlucky' \subseteq Sids,
         NEW q \in Requests, NEW r \in Request, Becomes(q, r), Follows(req[q], r),
         Busy(r) => Knows(r)
  PROVE  Inductive'
<1>1. req' \in [Requests -> Request] BY KnownFacts DEF Types, Becomes
<1>2. TypeOK' BY <1>1 DEF Inductive, TypeOK
<1>3. Rows' BY KnownFacts DEF Rows
<1>4. session \in [Sids -> Row] /\ changedAt \in Nat /\ now \in Nat BY KnownFacts DEF Types
<1>5. Onward BY <1>4 DEF Onward, Row
<1>6. \A s \in Sids : SameTokens(s) BY DEF SameTokens
<1>7. \A s \in Sids : StaysLive(s) => Live(s) BY DEF StaysLive, Live
<1>8. Busy(r) => Knows(r)'
  <2> SUFFICES ASSUME Busy(r) PROVE Knows(r)' OBVIOUS
  <2>1. Types' BY <1>2, TypesHold, PTL
  <2>2. SameTokens(r.setRefresh.sid) BY DEF SameTokens
  <2> QED BY <1>5, <2>1, <2>2, KnownFacts, KnowsStays
<1>9. NoFalseReuse' /\ ResetEndsSessions' BY KnownFacts DEF NoFalseReuse, ResetEndsSessions
<1> QED BY <1>2, <1>3, <1>5, <1>6, <1>7, <1>8, <1>9, LocalStep

-----------------------------------------------------------------------------
(* The statements of refreshSession that only read. *)

LEMMA StepsFacts ==
  {"idle", "proxy", "rotate", "select", "reuse", "alive", "principal", "others",
   "signout", "verify", "rehash", "establish", "create", "answer"} \subseteq Steps
BY DEF Steps

LEMMA LogsOutStep ==
  ASSUME Inductive, UNCHANGED <<now, session, account, cookies, sends, unlucky, changedAt>>,
         NEW q \in Requests, LogsOut(q), Busy(req[q]),
         ~IsToken(req[q].setRefresh) \/ account.closed
  PROVE  Inductive'
<1>1. PICK w \in Request : w = req[q] /\ Knows(w) /\ Busy(w) BY CallFacts
<1> DEFINE r == [w EXCEPT !.pc = "answer", !.state = "logout", !.setJwt = Clear, !.setRefresh = Clear]
<1>2. Becomes(q, r) BY <1>1 DEF LogsOut, Becomes
<1>3. /\ r \in Request /\ r.pc = "answer" /\ r.state = "logout" /\ r.setJwt = Clear /\ r.setRefresh = Clear
      /\ r.browser = w.browser /\ r.jwt = w.jwt /\ r.refresh = w.refresh /\ r.sentAt = w.sentAt
      /\ r.at = w.at /\ r.lived = w.lived /\ r.dead = w.dead
  BY StepsFacts DEF Request
<1> HIDE DEF r
<1>4. IsToken(w.setRefresh) => ~StaysLive(w.setRefresh.sid)
  BY <1>1, KnownFacts DEF Knows, Carries, TokenKnown, Issued, Rows, StaysLive
<1>5. Follows(w, r) BY <1>1, <1>3, <1>4, NothingFacts DEF Follows, StillComes
<1>6. Knows(r)
  <2>1. Carries(r) BY <1>1, <1>3, NothingFacts DEF Knows, Carries
  <2>2. Refreshing(r) BY <1>3 DEF Refreshing
  <2>3. Writes(r) BY <1>3, NothingFacts DEF Writes
  <2>4. SigningIn(r) BY <1>3 DEF SigningIn, LoginSteps
  <2>5. Answered(r) BY <1>3 DEF Answered
  <2> QED BY <2>1, <2>2, <2>3, <2>4, <2>5 DEF Knows
<1>7. unlucky \subseteq unlucky' /\ unlucky' \subseteq Sids BY KnownFacts DEF Types
<1>8. Follows(req[q], r) BY <1>1, <1>5
<1> QED BY <1>2, <1>3, <1>6, <1>7, <1>8, ReadStep

(* Fail: the proxy forgets what was to be written. *)
LEMMA FailKeeps ==
  ASSUME Inductive, NEW q \in Requests, Fail(q) PROVE Inductive'
<1>1. PICK w \in Request : w = req[q] /\ Knows(w) /\ Busy(w) BY CallFacts DEF Fail, Busy
<1> DEFINE r == [w EXCEPT !.pc = "answer", !.state = "anon", !.setJwt = Keep, !.setRefresh = Keep]
<1>2. Becomes(q, r) BY <1>1 DEF Fail, Throws, Becomes
<1>3. /\ r \in Request /\ r.pc = "answer" /\ r.state = "anon" /\ r.setJwt = Keep /\ r.setRefresh = Keep
      /\ r.browser = w.browser /\ r.jwt = w.jwt /\ r.refresh = w.refresh /\ r.sentAt = w.sentAt
      /\ r.at = w.at /\ r.lived = w.lived /\ r.dead = w.dead
  BY StepsFacts DEF Request
<1> HIDE DEF r
<1>4. w.setRefresh # Keep
        => /\ w.jwt.sid \in Sids /\ unlucky' = unlucky \cup {w.jwt.sid}
           /\ IsToken(w.setRefresh) => w.setRefresh.sid = w.jwt.sid
  <2> SUFFICES ASSUME w.setRefresh # Keep
               PROVE  /\ w.jwt.sid \in Sids /\ unlucky' = unlucky \cup {w.jwt.sid}
                      /\ IsToken(w.setRefresh) => w.setRefresh.sid = w.jwt.sid
    OBVIOUS
  <2>1. w.pc = "principal" BY <1>1 DEF Fail, Knows, Writes
  <2>2. w.jwt.sid \in Sids BY <1>1, <2>1 DEF Knows, Carries, Refreshing, JwtKnown, Issued
  <2> QED BY <1>1, <2>1, <2>2 DEF Fail, Throws, Knows, Writes
<1>5. unlucky \subseteq unlucky' /\ unlucky' \subseteq Sids
  BY <1>1, <1>4, KnownFacts DEF Fail, Throws, Types
<1>6. Follows(w, r) BY <1>1, <1>3, <1>4, NothingFacts DEF Follows, StillComes
<1>7. Knows(r)
  <2>1. Carries(r) BY <1>1, <1>3, NothingFacts DEF Knows, Carries
  <2>2. Refreshing(r) BY <1>3 DEF Refreshing
  <2>3. Writes(r) BY <1>3, NothingFacts DEF Writes
  <2>4. SigningIn(r) BY <1>3 DEF SigningIn, LoginSteps
  <2>5. Answered(r) BY <1>3 DEF Answered
  <2> QED BY <2>1, <2>2, <2>3, <2>4, <2>5 DEF Knows
<1>8. Follows(req[q], r) BY <1>1, <1>6
<1>9. UNCHANGED <<now, session, account, cookies, sends, changedAt>> BY DEF Fail
<1> QED BY <1>2, <1>3, <1>5, <1>7, <1>8, <1>9, ReadStep

(* A request that goes on with what it carries. *)
SameRequest(r, w) ==
  /\ r.browser = w.browser /\ r.kind = w.kind /\ r.jwt = w.jwt /\ r.refresh = w.refresh
  /\ r.sentAt = w.sentAt /\ r.lived = w.lived /\ r.dead = w.dead /\ r.overlapped = w.overlapped

LEMMA OnStep ==
  ASSUME Inductive, UNCHANGED <<now, session, account, cookies, sends, unlucky, changedAt>>,
         NEW q \in Requests, NEW r \in Request, Becomes(q, r), SameRequest(r, req[q]),
         Busy(req[q]), r.at <= now, r.setRefresh = req[q].setRefresh,
         IsJwt(r.setJwt) => JwtKnown(r.setJwt),
         r.pc = "reuse" => ~Live(r.refresh.sid) \/ r.refresh.sid \in unlucky,
         Refreshing(r), Writes(r), SigningIn(r), Answered(r)
  PROVE  Inductive'
<1>1. Knows(req[q]) BY CallFacts
<1>2. Carries(r) BY <1>1 DEF Carries, Knows, SameRequest
<1>3. Knows(r) BY <1>2 DEF Knows
<1>4. r.pc = "reuse" => ~StaysLive(r.refresh.sid) \/ r.refresh.sid \in unlucky'
  BY DEF StaysLive, Live
<1>5. IsToken(r.setRefresh) => Busy(r)
  BY NothingFacts DEF Writes, Busy
<1>6. Follows(req[q], r) BY <1>4, <1>5 DEF Follows, StillComes, SameRequest
<1>7. unlucky \subseteq unlucky' /\ unlucky' \subseteq Sids BY KnownFacts DEF Types
<1> QED BY <1>3, <1>6, <1>7, ReadStep

LEMMA ProxyKeeps ==
  ASSUME Inductive, NEW q \in Requests, Proxy(q) PROVE Inductive'
<1>1. PICK w \in Request : w = req[q] /\ Knows(w) /\ Busy(w) /\ w.pc = "proxy"
  BY CallFacts DEF Proxy, Busy
<1>2. /\ w.jwt \in Jwts \cup {None} /\ w.refresh \in Refreshes \cup {None} /\ w.sentAt \in Nat
      /\ w.setJwt = Keep /\ w.setRefresh = Keep /\ w.kind \in Ordinary /\ w.sentAt <= now
  BY <1>1 DEF Request, Knows, Carries, Writes, Refreshing
<1>3. now \in Nat BY KnownFacts DEF Types
<1>4. UNCHANGED <<now, session, account, cookies, sends, unlucky, changedAt>> BY DEF Proxy
<1>5. ~IsToken(req[q].setRefresh) BY <1>1, <1>2, NothingFacts
<1>6. CASE /\ w.jwt = None
           /\ req' = [req EXCEPT ![q].pc = "answer", ![q].state = "anon",
                                 ![q].setRefresh = IF w.refresh = None THEN Keep ELSE Clear]
  <2> DEFINE c == IF w.refresh = None THEN Keep ELSE Clear
             r == [w EXCEPT !.pc = "answer", !.state = "anon", !.setRefresh = c]
  <2>1. Becomes(q, r) BY <1>1, <1>6 DEF Becomes
  <2>2. c \in {Keep, Clear} OBVIOUS
  <2> HIDE DEF c
  <2>3. /\ r \in Request /\ r.pc = "answer" /\ r.state = "anon" /\ r.setJwt = Keep /\ r.setRefresh = c
        /\ r.browser = w.browser /\ r.jwt = w.jwt /\ r.refresh = w.refresh /\ r.sentAt = w.sentAt
        /\ r.at = w.at /\ r.lived = w.lived /\ r.dead = w.dead
    BY <1>2, <2>2, StepsFacts DEF Request
  <2> HIDE DEF r
  <2>4. Follows(req[q], r) BY <1>1, <1>2, <2>2, <2>3, NothingFacts DEF Follows, StillComes
  <2>5. Carries(r) BY <1>1, <2>2, <2>3, NothingFacts DEF Knows, Carries
  <2>6. Refreshing(r) BY <2>3 DEF Refreshing
  <2>7. Writes(r) BY <2>2, <2>3, NothingFacts DEF Writes
  <2>8. SigningIn(r) /\ Answered(r) BY <2>3 DEF SigningIn, LoginSteps, Answered
  <2>9. unlucky \subseteq unlucky' /\ unlucky' \subseteq Sids BY <1>4, KnownFacts DEF Types
  <2> QED BY <1>4, <2>1, <2>3, <2>4, <2>5, <2>6, <2>7, <2>8, <2>9, ReadStep DEF Knows
<1>7. CASE LogsOut(q) BY <1>1, <1>4, <1>5, <1>7, LogsOutStep
<1>8. CASE /\ w.jwt # None /\ w.jwt.exp <= now /\ w.refresh # None /\ w.refresh.sid = w.jwt.sid
           /\ req' = [req EXCEPT ![q].pc = "rotate", ![q].at = now]
  <2> DEFINE r == [w EXCEPT !.pc = "rotate", !.at = now]
  <2>1. Becomes(q, r) BY <1>1, <1>8 DEF Becomes
  <2>2. /\ r \in Request /\ r.pc = "rotate" /\ r.at = now /\ r.setJwt = Keep /\ r.setRefresh = Keep
        /\ SameRequest(r, w)
    BY <1>2, <1>3, StepsFacts DEF Request, SameRequest
  <2> HIDE DEF r
  <2>3. IsJwt(r.jwt) /\ IsToken(r.refresh) BY <1>2, <1>8, <2>2, NothingFacts DEF SameRequest
  <2>4. Refreshing(r) BY <1>2, <1>3, <1>8, <2>2, <2>3 DEF Refreshing, SameRequest
  <2>5. Writes(r) BY <2>2, NothingFacts DEF Writes
  <2>6. SigningIn(r) /\ Answered(r) BY <2>2 DEF SigningIn, LoginSteps, Answered
  <2>7. ~IsJwt(r.setJwt) /\ r.at <= now /\ r.setRefresh = req[q].setRefresh
    BY <1>1, <1>2, <1>3, <2>2, NothingFacts
  <2> QED BY <1>1, <1>4, <2>1, <2>2, <2>4, <2>5, <2>6, <2>7, OnStep
<1>9. CASE /\ w.jwt # None /\ ~(w.jwt.exp <= now)
           /\ req' = [req EXCEPT ![q].pc = "alive", ![q].at = now]
  <2> DEFINE r == [w EXCEPT !.pc = "alive", !.at = now]
  <2>1. Becomes(q, r) BY <1>1, <1>9 DEF Becomes
  <2>2. /\ r \in Request /\ r.pc = "alive" /\ r.at = now /\ r.setJwt = Keep /\ r.setRefresh = Keep
        /\ SameRequest(r, w)
    BY <1>2, <1>3, StepsFacts DEF Request, SameRequest
  <2> HIDE DEF r
  <2>3. w.jwt \in Jwts /\ IsJwt(r.jwt) BY <1>2, <1>9, <2>2, NothingFacts DEF SameRequest
  <2>4. Refreshing(r) BY <1>2, <1>3, <1>9, <2>2, <2>3 DEF Refreshing, SameRequest, Jwts
  <2>5. Writes(r) BY <2>2, NothingFacts DEF Writes
  <2>6. SigningIn(r) /\ Answered(r) BY <2>2 DEF SigningIn, LoginSteps, Answered
  <2>7. ~IsJwt(r.setJwt) /\ r.at <= now /\ r.setRefresh = req[q].setRefresh
    BY <1>1, <1>2, <1>3, <2>2, NothingFacts
  <2> QED BY <1>1, <1>4, <2>1, <2>2, <2>4, <2>5, <2>6, <2>7, OnStep
<1>10. CASE /\ w.jwt # None /\ ~(w.jwt.exp <= now) /\ ~Recheck(w.kind)
            /\ req' = [req EXCEPT ![q].pc = "answer", ![q].state = "auth",
                                  ![q].at = now, ![q].role = w.jwt.role]
  <2>1. w.jwt \in Jwts /\ IsJwt(w.jwt) BY <1>2, <1>10, NothingFacts
  <2>2. w.jwt.role \in Roles /\ w.jwt.exp \in Nat BY <2>1 DEF Jwts
  <2> DEFINE r == [w EXCEPT !.pc = "answer", !.state = "auth", !.at = now, !.role = w.jwt.role]
  <2>3. Becomes(q, r) BY <1>1, <1>10 DEF Becomes
  <2>4. /\ r \in Request /\ r.pc = "answer" /\ r.state = "auth" /\ r.at = now /\ r.role = w.jwt.role
        /\ r.setJwt = Keep /\ r.setRefresh = Keep /\ SameRequest(r, w)
    BY <1>2, <1>3, <2>2, StepsFacts DEF Request, SameRequest
  <2> HIDE DEF r
  <2>5. Refreshing(r) BY <2>4 DEF Refreshing
  <2>6. Writes(r) BY <2>4, NothingFacts DEF Writes
  <2>7. SigningIn(r) BY <2>4 DEF SigningIn, LoginSteps
  <2>8. Answered(r)
    <3>1. r.kind = "PAGE" BY <1>2, <1>10, <2>4 DEF Ordinary, Recheck, SameRequest
    <3>2. now < w.jwt.exp BY <1>3, <1>10, <2>2
    <3>3. JwtKnown(w.jwt) /\ account.role \in w.lived BY <1>1, <2>1 DEF Knows, Carries
    <3>4. w.jwt.role \in w.lived \/ w.jwt.sid \in unlucky \/ now < changedAt + Access + Half
      <4>1. changedAt + Access + Half \in Nat BY HalfFacts, PeriodsAssumption, KnownFacts DEF Types
      <4> QED BY <1>3, <2>2, <3>2, <3>3, <4>1 DEF JwtKnown
    <3> QED BY <2>4, <3>1, <3>2, <3>4 DEF Answered, SameRequest
  <2>9. ~IsJwt(r.setJwt) /\ r.at <= now /\ r.setRefresh = req[q].setRefresh
    BY <1>1, <1>2, <1>3, <2>4, NothingFacts
  <2> QED BY <1>1, <1>4, <2>3, <2>4, <2>5, <2>6, <2>7, <2>8, <2>9, OnStep
<1>11. \/ w.jwt = None
       \/ w.jwt # None /\ w.jwt.exp <= now
       \/ w.jwt # None /\ ~(w.jwt.exp <= now)
  OBVIOUS
<1> QED BY <1>1, <1>6, <1>7, <1>8, <1>9, <1>10, <1>11 DEF Proxy

(* A request that only moves to its next statement. *)
LEMMA GotoStep ==
  ASSUME Inductive, UNCHANGED <<now, session, account, cookies, sends, unlucky, changedAt>>,
         NEW q \in Requests, NEW c \in Steps, Goto(q, c), Busy(req[q]),
         c = "reuse" => ~Live(req[q].refresh.sid) \/ req[q].refresh.sid \in unlucky,
         \A r \in Request : r.pc = c /\ SameRequest(r, req[q]) /\ r.at = req[q].at
                            /\ r.setJwt = req[q].setJwt /\ r.setRefresh = req[q].setRefresh
                            /\ r.role = req[q].role /\ r.state = req[q].state
                            /\ r.password = req[q].password
           => Refreshing(r) /\ Writes(r) /\ SigningIn(r) /\ Answered(r)
  PROVE  Inductive'
<1>1. PICK w \in Request : w = req[q] /\ Knows(w) BY CallFacts
<1> DEFINE r == [w EXCEPT !.pc = c]
<1>2. Becomes(q, r) BY <1>1 DEF Becomes, Goto
<1>3. /\ r \in Request /\ r.pc = c /\ SameRequest(r, w) /\ r.at = w.at
      /\ r.setJwt = w.setJwt /\ r.setRefresh = w.setRefresh
      /\ r.role = w.role /\ r.state = w.state /\ r.password = w.password
  BY DEF Request, SameRequest
<1> HIDE DEF r
<1>4. Refreshing(r) /\ Writes(r) /\ SigningIn(r) /\ Answered(r) BY <1>1, <1>3
<1>5. (IsJwt(r.setJwt) => JwtKnown(r.setJwt)) /\ r.at <= now BY <1>1, <1>3 DEF Knows, Carries
<1>6. r.pc = "reuse" => ~Live(r.refresh.sid) \/ r.refresh.sid \in unlucky
  BY <1>1, <1>3 DEF SameRequest
<1> QED BY <1>1, <1>2, <1>3, <1>4, <1>5, <1>6, OnStep

(* An old token of a session that met no bad luck is within the grace. *)
LEMMA SoonEnough ==
  ASSUME Inductive, NEW q \in Requests, req[q].pc = "select",
         Alive(req[q].refresh.sid, req[q].at), ~InGrace(req[q])
  PROVE  req[q].refresh.sid \in unlucky
<1>1. PICK w \in Request : w = req[q] /\ Knows(w) /\ Busy(w) /\ w.pc = "select"
  BY CallFacts DEF Busy
<1>2. IsToken(w.refresh) /\ TokenKnown(w.refresh) /\ w.refresh \in Refreshes
  BY <1>1, NothingFacts DEF Knows, Refreshing, Carries, Request
<1>3. PICK s \in Sids : s = w.refresh.sid BY <1>2 DEF Refreshes
<1> SUFFICES ASSUME s \notin unlucky PROVE FALSE BY <1>1, <1>3
<1>4. Live(s) BY <1>1, <1>3 DEF Alive, Live
<1>5. Prompt(s) /\ RequestRecent(s) BY <1>4, KnownFacts DEF Luck, Untroubled
<1>6. PICK t \in Row : t = session[s] BY KnownFacts DEF Types
<1>7. w.refresh.secret < t.token BY <1>1, <1>3, <1>6 DEF Knows, Refreshing
<1>8. w.refresh.secret = t.token - 1 /\ w.sentAt <= t.rotatedAt + Half
  BY <1>1, <1>2, <1>3, <1>5, <1>6, <1>7 DEF RequestRecent
<1>9. now - w.sentAt <= Half
  BY <1>1, <1>2, <1>3, <1>5 DEF Prompt, Brings
<1>10. t.token \in Nat /\ t.rotatedAt \in Nat /\ w.refresh.secret \in Nat /\ w.sentAt \in Nat
       /\ w.at \in Nat /\ now \in Nat /\ w.at <= now
  BY <1>1, <1>2, KnownFacts DEF Row, Refreshes, Request, Types, Knows, Carries
<1>11. t.prev = t.token - 1 BY <1>6, <1>7, <1>10, KnownFacts DEF Rows
<1>12. t.rotatedAt + Grace >= w.at BY <1>8, <1>9, <1>10, HalfFacts, PeriodsAssumption
<1> QED BY <1>1, <1>3, <1>6, <1>8, <1>11, <1>12 DEF InGrace

LEMMA SelectKeeps ==
  ASSUME Inductive, NEW q \in Requests, Select(q) PROVE Inductive'
<1>1. PICK w \in Request : w = req[q] /\ Knows(w) /\ Busy(w) /\ w.pc = "select"
  BY CallFacts DEF Select, Busy
<1>2. UNCHANGED <<now, session, account, cookies, sends, unlucky, changedAt>> BY DEF Select
<1>3. /\ IsJwt(w.jwt) /\ IsToken(w.refresh) /\ w.refresh.sid = w.jwt.sid /\ w.kind \in Ordinary
      /\ w.setJwt = Keep /\ w.setRefresh = Keep /\ w.jwt.exp <= w.at /\ w.sentAt <= w.at
  BY <1>1 DEF Knows, Refreshing, Writes
<1>4. ~IsToken(req[q].setRefresh) BY <1>1, <1>3, NothingFacts
<1>5. CASE LogsOut(q) BY <1>1, <1>2, <1>4, <1>5, LogsOutStep
<1>6. CASE Alive(w.refresh.sid, w.at) /\ Goto(q, "principal")
  <2>1. ~session[w.jwt.sid].revoked /\ ~w.dead
    BY <1>1, <1>3, <1>6 DEF Alive, Knows, Carries
  <2>2. ASSUME NEW r \in Request, r.pc = "principal", SameRequest(r, w),
               r.setJwt = w.setJwt, r.setRefresh = w.setRefresh
        PROVE  Refreshing(r) /\ Writes(r) /\ SigningIn(r) /\ Answered(r)
    <3>1. Refreshing(r) BY <1>3, <2>1, <2>2 DEF Refreshing, SameRequest
    <3>2. Writes(r) BY <1>3, <2>2, NothingFacts DEF Writes
    <3>3. SigningIn(r) /\ Answered(r) BY <2>2 DEF SigningIn, LoginSteps, Answered
    <3> QED BY <3>1, <3>2, <3>3
  <2>3. "principal" \in Steps BY StepsFacts
  <2> QED BY <1>1, <1>2, <1>6, <2>2, <2>3, GotoStep
<1>7. CASE Alive(w.refresh.sid, w.at) /\ ~InGrace(w) /\ Goto(q, "reuse")
  <2>1. req[q].refresh.sid \in unlucky BY <1>1, <1>7, SoonEnough
  <2>2. ASSUME NEW r \in Request, r.pc = "reuse", SameRequest(r, w), r.at = w.at,
               r.setJwt = w.setJwt, r.setRefresh = w.setRefresh
        PROVE  Refreshing(r) /\ Writes(r) /\ SigningIn(r) /\ Answered(r)
    <3>1. Refreshing(r) BY <1>3, <2>2 DEF Refreshing, SameRequest
    <3>2. Writes(r) BY <1>3, <2>2, NothingFacts DEF Writes
    <3>3. SigningIn(r) /\ Answered(r) BY <2>2 DEF SigningIn, LoginSteps, Answered
    <3> QED BY <3>1, <3>2, <3>3
  <2>3. "reuse" \in Steps BY StepsFacts
  <2> QED BY <1>1, <1>2, <1>7, <2>1, <2>2, <2>3, GotoStep
<1> QED BY <1>1, <1>5, <1>6, <1>7 DEF Select

LEMMA RecheckAliveKeeps ==
  ASSUME Inductive, NEW q \in Requests, RecheckAlive(q) PROVE Inductive'
<1>1. PICK w \in Request : w = req[q] /\ Knows(w) /\ Busy(w) /\ w.pc = "alive"
  BY CallFacts DEF RecheckAlive, Busy
<1>2. UNCHANGED <<now, session, account, cookies, sends, unlucky, changedAt>> BY DEF RecheckAlive
<1>3. /\ IsJwt(w.jwt) /\ w.kind \in Ordinary /\ w.setJwt = Keep /\ w.setRefresh = Keep
  BY <1>1 DEF Knows, Refreshing, Writes
<1>4. ~IsToken(req[q].setRefresh) BY <1>1, <1>3, NothingFacts
<1>5. CASE LogsOut(q) BY <1>1, <1>2, <1>4, <1>5, LogsOutStep
<1>6. CASE Alive(w.jwt.sid, now) /\ Goto(q, "principal")
  <2>1. ~session[w.jwt.sid].revoked /\ ~w.dead
    BY <1>1, <1>3, <1>6 DEF Alive, Knows, Carries
  <2>2. ASSUME NEW r \in Request, r.pc = "principal", SameRequest(r, w),
               r.setJwt = w.setJwt, r.setRefresh = w.setRefresh
        PROVE  Refreshing(r) /\ Writes(r) /\ SigningIn(r) /\ Answered(r)
    <3>1. Refreshing(r) BY <1>3, <2>1, <2>2 DEF Refreshing, SameRequest
    <3>2. Writes(r) BY <1>3, <2>2, NothingFacts DEF Writes
    <3>3. SigningIn(r) /\ Answered(r) BY <2>2 DEF SigningIn, LoginSteps, Answered
    <3> QED BY <3>1, <3>2, <3>3
  <2>3. "principal" \in Steps BY StepsFacts
  <2> QED BY <1>1, <1>2, <1>6, <2>2, <2>3, GotoStep
<1> QED BY <1>1, <1>5, <1>6 DEF RecheckAlive

LEMMA PrincipalKeeps ==
  ASSUME Inductive, NEW q \in Requests, Principal(q) PROVE Inductive'
<1>1. PICK w \in Request : w = req[q] /\ Knows(w) /\ Busy(w) /\ w.pc = "principal"
  BY CallFacts DEF Principal, Busy
<1>2. UNCHANGED <<now, session, account, cookies, sends, unlucky, changedAt>> BY DEF Principal
<1>3. account.role \in Roles /\ account.closed \in BOOLEAN /\ now \in Nat
  BY KnownFacts DEF Types
<1>4. /\ IsJwt(w.jwt) /\ w.jwt \in Jwts /\ JwtKnown(w.jwt) /\ ~w.dead /\ w.kind \in Ordinary
      /\ w.at \in Nat /\ w.at <= now /\ account.role \in w.lived
      /\ session[w.jwt.sid].revoked => w.at <= session[w.jwt.sid].endedAt
  BY <1>1, NothingFacts DEF Knows, Refreshing, Carries, Request
<1>5. CASE LogsOut(q) /\ account.closed BY <1>1, <1>2, <1>5, LogsOutStep
<1>6. CASE ~account.closed
  <2> DEFINE c == IF w.kind = "END_OTHERS" THEN "others" ELSE "answer"
             rotated == w.jwt.exp <= w.at
             jwt == [sid |-> w.jwt.sid, role |-> account.role,
                     exp |-> IF rotated THEN w.at + Access ELSE w.jwt.exp]
             op == IF rotated \/ w.jwt.role # account.role THEN jwt ELSE Keep
             r == [w EXCEPT !.pc = c, !.state = "auth", !.role = account.role, !.setJwt = op]
  <2>1. LoadPrincipal = account.role /\ LoadPrincipal # None
    BY <1>3, <1>6, NothingAssumption DEF LoadPrincipal
  <2>2. Becomes(q, r) BY <1>1, <2>1 DEF Principal, Becomes
  <2>3. c \in Steps /\ c \in {"others", "answer"} BY StepsFacts
  <2>4. w.jwt.sid \in Sids /\ w.jwt.exp \in Nat BY <1>4 DEF Jwts
  <2>5. jwt.exp \in Nat BY <1>4, <2>4, PeriodsAssumption
  <2>6. jwt \in Jwts /\ jwt.sid = w.jwt.sid /\ jwt.role = account.role
        /\ jwt.exp = IF rotated THEN w.at + Access ELSE w.jwt.exp
    BY <1>3, <2>4, <2>5 DEF Jwts
  <2>7. session[w.jwt.sid] \in Row BY <2>4, KnownFacts DEF Types
  <2> HIDE DEF c, jwt
  <2>8. JwtKnown(jwt)
    <3>1. Issued(jwt.sid) BY <1>4, <2>6 DEF JwtKnown
    <3>2. Access <= jwt.exp /\ jwt.exp <= now + Access
      BY <1>3, <1>4, <2>4, <2>6, PeriodsAssumption DEF JwtKnown
    <3>3. session[jwt.sid].revoked => jwt.exp <= session[jwt.sid].endedAt + Access
      BY <1>4, <2>4, <2>6, <2>7, PeriodsAssumption DEF JwtKnown, Row
    <3> QED BY <2>6, <3>1, <3>2, <3>3 DEF JwtKnown
  <2>9. op \in Jwts \cup {Keep, Clear} /\ (IsJwt(op) => op = jwt) BY <2>6, NothingFacts
  <2>10. rotated => op = jwt OBVIOUS
  <2> HIDE DEF op
  <2>11. /\ r \in Request /\ r.pc = c /\ r.state = "auth" /\ r.role = account.role /\ r.setJwt = op
         /\ r.setRefresh = w.setRefresh /\ r.at = w.at /\ SameRequest(r, w)
    BY <1>3, <2>3, <2>9 DEF Request, SameRequest
  <2> HIDE DEF r
  <2>12. IsJwt(r.setJwt) => JwtKnown(r.setJwt) BY <2>8, <2>9, <2>11
  <2>13. Refreshing(r) BY <1>4, <2>3, <2>11 DEF Refreshing, SameRequest
  <2>14. Writes(r)
    <3> SUFFICES ASSUME IsToken(w.setRefresh)
                 PROVE  /\ IsJwt(op) /\ op.sid = w.setRefresh.sid
                        /\ session[w.setRefresh.sid].rotatedAt + Access <= op.exp
      BY <1>1, <2>3, <2>11 DEF Writes, SameRequest, Knows
    <3>1. /\ w.setRefresh.sid = w.jwt.sid /\ rotated
          /\ session[w.jwt.sid].rotatedAt = w.at
      BY <1>1 DEF Knows, Writes
    <3>2. op = jwt /\ jwt.exp = w.at + Access BY <2>6, <2>10, <3>1
    <3>3. w.at + Access <= jwt.exp BY <1>4, <3>2, PeriodsAssumption
    <3> QED BY <2>6, <3>1, <3>2, <3>3, NothingFacts
  <2>15. SigningIn(r) BY <2>3, <2>11 DEF SigningIn, LoginSteps
  <2>16. Answered(r) BY <1>4, <2>11 DEF Answered, SameRequest
  <2>17. r.pc # "reuse" /\ r.at <= now /\ r.setRefresh = req[q].setRefresh
    BY <1>1, <1>4, <2>3, <2>11
  <2> QED BY <1>1, <1>2, <2>2, <2>11, <2>12, <2>13, <2>14, <2>15, <2>16, <2>17, OnStep
<1>7. account.closed => LogsOut(q) BY DEF Principal, LoadPrincipal
<1> QED BY <1>3, <1>5, <1>6, <1>7

-----------------------------------------------------------------------------
(* The statements of a sign-in that only read. *)

LEMMA VerifyKeeps ==
  ASSUME Inductive, NEW q \in Requests, Verify(q) PROVE Inductive'
<1>1. PICK w \in Request : w = req[q] /\ Knows(w) /\ Busy(w) /\ w.pc = "verify"
  BY CallFacts DEF Verify, Busy
<1>2. UNCHANGED <<now, session, account, cookies, sends, unlucky, changedAt>> BY DEF Verify
<1>3. w.setJwt = Keep /\ w.setRefresh = Keep /\ w.kind = "LOGIN" /\ w.at <= now
  BY <1>1 DEF Knows, Writes, SigningIn, Carries
<1>4. CASE req' = [req EXCEPT ![q].pc = "answer", ![q].state = "anon"]
  <2> DEFINE r == [w EXCEPT !.pc = "answer", !.state = "anon"]
  <2>1. Becomes(q, r) BY <1>1, <1>4 DEF Becomes
  <2>2. /\ r \in Request /\ r.pc = "answer" /\ r.state = "anon" /\ r.setJwt = Keep
        /\ r.setRefresh = Keep /\ r.at = w.at /\ SameRequest(r, w)
    BY <1>3, StepsFacts DEF Request, SameRequest
  <2> HIDE DEF r
  <2>3. Refreshing(r) /\ Writes(r) /\ SigningIn(r) /\ Answered(r)
    BY <2>2, NothingFacts DEF Refreshing, Writes, SigningIn, LoginSteps, Answered
  <2>4. ~IsJwt(r.setJwt) /\ r.at <= now /\ r.setRefresh = req[q].setRefresh /\ r.pc # "reuse"
    BY <1>1, <1>3, <2>2, NothingFacts
  <2> QED BY <1>1, <1>2, <2>1, <2>2, <2>3, <2>4, OnStep
<1>5. CASE /\ account.hash = account.password
           /\ req' = [req EXCEPT ![q].pc = IF account.legacy THEN "rehash" ELSE "establish",
                                 ![q].password = account.hash]
  <2> DEFINE c == IF account.legacy THEN "rehash" ELSE "establish"
             r == [w EXCEPT !.pc = c, !.password = account.hash]
  <2>1. Becomes(q, r) BY <1>1, <1>5 DEF Becomes
  <2>2. c \in Steps /\ c \in {"rehash", "establish"} BY StepsFacts
  <2>3. account.hash \in 1..2 /\ account.hash \in 0..2 BY KnownFacts DEF Types
  <2> HIDE DEF c
  <2>4. /\ r \in Request /\ r.pc = c /\ r.password = account.hash /\ r.setJwt = Keep
        /\ r.setRefresh = Keep /\ r.at = w.at /\ SameRequest(r, w)
    BY <1>3, <2>2, <2>3 DEF Request, SameRequest
  <2> HIDE DEF r
  <2>5. SigningIn(r) BY <1>3, <1>5, <2>2, <2>3, <2>4 DEF SigningIn, SameRequest, LoginSteps
  <2>6. Refreshing(r) /\ Writes(r) /\ Answered(r)
    BY <2>2, <2>4, NothingFacts DEF Refreshing, Writes, Answered
  <2>7. ~IsJwt(r.setJwt) /\ r.at <= now /\ r.setRefresh = req[q].setRefresh /\ r.pc # "reuse"
    BY <1>1, <1>3, <2>2, <2>4, NothingFacts
  <2> QED BY <1>1, <1>2, <2>1, <2>4, <2>5, <2>6, <2>7, OnStep
<1> QED BY <1>4, <1>5 DEF Verify

LEMMA EstablishKeeps ==
  ASSUME Inductive, NEW q \in Requests, Establish(q) PROVE Inductive'
<1>1. PICK w \in Request : w = req[q] /\ Knows(w) /\ Busy(w) /\ w.pc = "establish"
  BY CallFacts DEF Establish, Busy
<1>2. UNCHANGED <<now, session, account, cookies, sends, unlucky, changedAt>> BY DEF Establish
<1>3. /\ w.setJwt = Keep /\ w.setRefresh = Keep /\ w.kind = "LOGIN" /\ w.at <= now
      /\ w.password \in 1..2 /\ (~w.overlapped => w.password = account.password)
  BY <1>1 DEF Knows, Writes, SigningIn, Carries, LoginSteps
<1>4. CASE req' = [req EXCEPT ![q].pc = "answer", ![q].state = "anon"]
  <2> DEFINE r == [w EXCEPT !.pc = "answer", !.state = "anon"]
  <2>1. Becomes(q, r) BY <1>1, <1>4 DEF Becomes
  <2>2. /\ r \in Request /\ r.pc = "answer" /\ r.state = "anon" /\ r.setJwt = Keep
        /\ r.setRefresh = Keep /\ r.at = w.at /\ SameRequest(r, w)
    BY <1>3, StepsFacts DEF Request, SameRequest
  <2> HIDE DEF r
  <2>3. Refreshing(r) /\ Writes(r) /\ SigningIn(r) /\ Answered(r)
    BY <2>2, NothingFacts DEF Refreshing, Writes, SigningIn, LoginSteps, Answered
  <2>4. ~IsJwt(r.setJwt) /\ r.at <= now /\ r.setRefresh = req[q].setRefresh /\ r.pc # "reuse"
    BY <1>1, <1>3, <2>2, NothingFacts
  <2> QED BY <1>1, <1>2, <2>1, <2>2, <2>3, <2>4, OnStep
<1>5. CASE req' = [req EXCEPT ![q].pc = "create", ![q].role = account.role]
  <2> DEFINE r == [w EXCEPT !.pc = "create", !.role = account.role]
  <2>1. Becomes(q, r) BY <1>1, <1>5 DEF Becomes
  <2>2. account.role \in Roles BY KnownFacts DEF Types
  <2>3. /\ r \in Request /\ r.pc = "create" /\ r.role = account.role /\ r.setJwt = Keep
        /\ r.setRefresh = Keep /\ r.at = w.at /\ SameRequest(r, w) /\ r.password = w.password
    BY <1>3, <2>2, StepsFacts DEF Request, SameRequest
  <2> HIDE DEF r
  <2>4. SigningIn(r) BY <1>3, <2>2, <2>3 DEF SigningIn, SameRequest, LoginSteps
  <2>5. Refreshing(r) /\ Writes(r) /\ Answered(r)
    BY <2>3, NothingFacts DEF Refreshing, Writes, Answered
  <2>6. ~IsJwt(r.setJwt) /\ r.at <= now /\ r.setRefresh = req[q].setRefresh /\ r.pc # "reuse"
    BY <1>1, <1>3, <2>3, NothingFacts
  <2> QED BY <1>1, <1>2, <2>1, <2>3, <2>4, <2>5, <2>6, OnStep
<1> QED BY <1>4, <1>5 DEF Establish

-----------------------------------------------------------------------------
(* Sessions end. *)

SessionsKeep ==
  \A s \in Sids :
    LET old == session[s]
        new == session'[s]
    IN
    /\ new.expires = old.expires /\ new.token = old.token /\ new.prev = old.prev
    /\ new.rotatedAt = old.rotatedAt /\ new.password = old.password /\ new.overlapped = old.overlapped
    /\ new.there => old.there
    /\ old.there => new.there \/ new.revoked
    /\ old.revoked => new.revoked /\ new.endedAt = old.endedAt
    /\ ~old.revoked /\ new.revoked => new.endedAt = now /\ old.expires # 0

LEMMA EndedFacts ==
  ASSUME Inductive, NEW ss, session' = Ended(ss)
  PROVE  /\ session' \in [Sids -> Row] /\ SessionsKeep
         /\ \A s \in Sids : session'[s].reused = session[s].reused
         /\ \A s \in ss \cap Sids : ~StaysLive(s)
<1>1. session \in [Sids -> Row] /\ now \in Nat BY KnownFacts DEF Types
<1>2. \A s \in Sids : session'[s] = IF s \in ss /\ session[s].there /\ ~session[s].revoked
                        THEN [session[s] EXCEPT !.revoked = TRUE, !.endedAt = now] ELSE session[s]
  BY DEF Ended
<1>3. ASSUME NEW s \in Sids
      PROVE  /\ session'[s] \in Row /\ session'[s].reused = session[s].reused
             /\ s \in ss => ~StaysLive(s)
             /\ LET old == session[s]
                    new == session'[s]
                IN
                /\ new.expires = old.expires /\ new.token = old.token /\ new.prev = old.prev
                /\ new.rotatedAt = old.rotatedAt /\ new.password = old.password
                /\ new.overlapped = old.overlapped
                /\ new.there => old.there
                /\ old.there => new.there \/ new.revoked
                /\ old.revoked => new.revoked /\ new.endedAt = old.endedAt
                /\ ~old.revoked /\ new.revoked => new.endedAt = now /\ old.expires # 0
  <2>1. CASE s \in ss /\ session[s].there /\ ~session[s].revoked
    <3>1. PICK t \in Row : t = session[s] BY <1>1
    <3>2. session'[s] = [t EXCEPT !.revoked = TRUE, !.endedAt = now] BY <1>2, <2>1, <3>1
    <3>3. t.expires # 0 BY <2>1, <3>1, KnownFacts DEF Rows
    <3> QED BY <1>1, <2>1, <3>1, <3>2, <3>3 DEF Row, StaysLive
  <2>2. CASE ~(s \in ss /\ session[s].there /\ ~session[s].revoked)
    <3>1. session'[s] = session[s] BY <1>2, <2>2
    <3> QED BY <1>1, <2>2, <3>1 DEF StaysLive
  <2> QED BY <2>1, <2>2
<1>4. session' \in [Sids -> Row] BY <1>1, <1>3 DEF Ended
<1> QED BY <1>3, <1>4 DEF SessionsKeep

LEMMA KeepFacts ==
  ASSUME Inductive, SessionsKeep, now' = now,
         (changedAt' = changedAt /\ account'.role = account.role) \/ changedAt' = now,
         unlucky \subseteq unlucky',
         account'.closed => account.closed \/ \A s \in Sids : ~session'[s].there
  PROVE  /\ Rows' /\ Onward
         /\ \A s \in Sids : SameTokens(s) /\ (StaysLive(s) => Live(s))
         /\ account'.password = account.password => ResetEndsSessions'
<1>1. now \in Nat /\ changedAt \in Nat /\ changedAt <= now /\ session \in [Sids -> Row]
  BY KnownFacts DEF Types, Rows
<1>2. Rows' BY <1>1, KnownFacts DEF Rows, SessionsKeep
<1>3. Onward BY <1>1 DEF Onward, SessionsKeep, Row
<1>4. \A s \in Sids : SameTokens(s) /\ (StaysLive(s) => Live(s))
  BY DEF SessionsKeep, SameTokens, StaysLive, Live
<1>5. account'.password = account.password => ResetEndsSessions'
  BY KnownFacts DEF SessionsKeep, ResetEndsSessions
<1> QED BY <1>2, <1>3, <1>4, <1>5

LEMMA EndStep ==
  ASSUME Inductive, SessionsKeep, session' \in [Sids -> Row],
         UNCHANGED <<now, account, cookies, sends, unlucky, changedAt>>,
         NEW q \in Requests, NEW r \in Request, Becomes(q, r), Follows(req[q], r),
         Busy(r) => Knows(r), NoFalseReuse'
  PROVE  Inductive'
<1>1. req' \in [Requests -> Request] BY KnownFacts DEF Types, Becomes
<1>2. TypeOK' BY <1>1 DEF Inductive, TypeOK
<1>3. /\ Rows' /\ Onward /\ ResetEndsSessions'
      /\ \A s \in Sids : SameTokens(s) /\ (StaysLive(s) => Live(s))
  BY KeepFacts
<1>4. Busy(r) => Knows(r)'
  <2> SUFFICES ASSUME Busy(r) PROVE Knows(r)' OBVIOUS
  <2>1. Types' BY <1>2, TypesHold, PTL
  <2>2. IsToken(r.setRefresh) => SameTokens(r.setRefresh.sid)
    BY <1>3 DEF Knows, Carries, TokenKnown, Issued
  <2> QED BY <1>3, <2>1, <2>2, KnownFacts, KnowsStays
<1> QED BY <1>2, <1>3, <1>4, LocalStep

LEMMA EndOthersKeeps ==
  ASSUME Inductive, NEW q \in Requests, EndOthers(q) PROVE Inductive'
<1>1. PICK w \in Request : w = req[q] /\ Knows(w) /\ Busy(w) /\ w.pc = "others"
  BY CallFacts DEF EndOthers, Busy
<1>2. /\ session' \in [Sids -> Row] /\ SessionsKeep
      /\ \A s \in Sids : session'[s].reused = session[s].reused
  BY EndedFacts DEF EndOthers
<1> DEFINE r == [w EXCEPT !.pc = "answer"]
<1>3. Becomes(q, r) BY <1>1 DEF EndOthers, Goto, Becomes
<1>4. /\ r \in Request /\ r.pc = "answer" /\ SameRequest(r, w) /\ r.at = w.at /\ r.state = w.state
      /\ r.role = w.role /\ r.setJwt = w.setJwt /\ r.setRefresh = w.setRefresh
  BY StepsFacts DEF Request, SameRequest
<1> HIDE DEF r
<1>5. Follows(req[q], r) BY <1>1, <1>4 DEF Follows, StillComes, SameRequest, Busy
<1>6. Knows(r)
  <2>1. Carries(r) BY <1>1, <1>4 DEF Knows, Carries, SameRequest
  <2>2. Refreshing(r) BY <1>4 DEF Refreshing
  <2>3. Writes(r) BY <1>1, <1>4 DEF Knows, Writes, SameRequest
  <2>4. SigningIn(r) BY <1>4 DEF SigningIn, LoginSteps
  <2>5. Answered(r) BY <1>1, <1>4 DEF Answered, Knows, Refreshing, SameRequest
  <2> QED BY <2>1, <2>2, <2>3, <2>4, <2>5 DEF Knows
<1>7. NoFalseReuse' BY <1>2, KnownFacts DEF NoFalseReuse, EndOthers
<1>8. UNCHANGED <<now, account, cookies, sends, unlucky, changedAt>> BY DEF EndOthers
<1> QED BY <1>2, <1>3, <1>4, <1>5, <1>6, <1>7, <1>8, EndStep

LEMMA SignOutKeeps ==
  ASSUME Inductive, NEW q \in Requests, SignOut(q) PROVE Inductive'
<1>1. PICK w \in Request : w = req[q] /\ Knows(w) /\ Busy(w) /\ w.pc = "signout"
  BY CallFacts DEF SignOut, Busy
<1>2. session' = Ended(IF w.jwt = None THEN {} ELSE {w.jwt.sid})
  <2>1. CASE w.jwt = None
    <3>1. Ended({}) = [s \in Sids |-> session[s]] BY DEF Ended
    <3>2. [s \in Sids |-> session[s]] = session BY KnownFacts DEF Types
    <3> QED BY <1>1, <2>1, <3>1, <3>2 DEF SignOut
  <2>2. CASE w.jwt # None BY <1>1, <2>2 DEF SignOut
  <2> QED BY <2>1, <2>2
<1>3. /\ session' \in [Sids -> Row] /\ SessionsKeep
      /\ \A s \in Sids : session'[s].reused = session[s].reused
  BY <1>2, EndedFacts
<1> DEFINE r == [w EXCEPT !.pc = "answer", !.state = "anon", !.setJwt = Clear]
<1>4. Becomes(q, r) BY <1>1 DEF SignOut, Becomes
<1>5. w.setRefresh = Keep BY <1>1 DEF Knows, Writes
<1>6. /\ r \in Request /\ r.pc = "answer" /\ SameRequest(r, w) /\ r.at = w.at /\ r.state = "anon"
      /\ r.setJwt = Clear /\ r.setRefresh = Keep
  BY <1>5, StepsFacts DEF Request, SameRequest
<1> HIDE DEF r
<1>7. Follows(req[q], r) BY <1>1, <1>5, <1>6, NothingFacts DEF Follows, StillComes, SameRequest
<1>8. Knows(r)
  <2>1. Carries(r) BY <1>1, <1>6, NothingFacts DEF Knows, Carries, SameRequest
  <2>2. Refreshing(r) /\ Writes(r) /\ SigningIn(r) /\ Answered(r)
    BY <1>6, NothingFacts DEF Refreshing, Writes, SigningIn, LoginSteps, Answered
  <2> QED BY <2>1, <2>2 DEF Knows
<1>9. NoFalseReuse' BY <1>3, KnownFacts DEF NoFalseReuse, SignOut
<1>10. UNCHANGED <<now, account, cookies, sends, unlucky, changedAt>> BY DEF SignOut
<1> QED BY <1>3, <1>4, <1>6, <1>7, <1>8, <1>9, <1>10, EndStep

LEMMA ReuseKeeps ==
  ASSUME Inductive, NEW q \in Requests, Reuse(q) PROVE Inductive'
<1>1. PICK w \in Request : w = req[q] /\ Knows(w) /\ Busy(w) /\ w.pc = "reuse"
  BY CallFacts DEF Reuse, Busy
<1>2. /\ IsToken(w.refresh) /\ TokenKnown(w.refresh) /\ w.setRefresh = Keep
  BY <1>1 DEF Knows, Refreshing, Carries, Writes
<1>3. PICK s \in Sids : s = w.refresh.sid /\ session[s].expires # 0
  BY <1>2 DEF TokenKnown, Issued
<1>4. PICK t \in Row : t = session[s] BY KnownFacts DEF Types
<1> DEFINE v == [t EXCEPT !.revoked = @ \/ t.there, !.reused = t.there /\ (@ \/ ~t.revoked),
                          !.endedAt = IF t.revoked THEN @ ELSE now]
<1>5. session' = [session EXCEPT ![s] = v] BY <1>1, <1>3, <1>4 DEF Reuse
<1>6. now \in Nat BY KnownFacts DEF Types
<1>7. t.there \/ t.revoked BY <1>3, <1>4, KnownFacts DEF Rows
<1>8. /\ v \in Row /\ v.expires = t.expires /\ v.token = t.token /\ v.prev = t.prev
      /\ v.rotatedAt = t.rotatedAt /\ v.password = t.password /\ v.overlapped = t.overlapped
      /\ v.there = t.there /\ v.revoked /\ (t.revoked => v.endedAt = t.endedAt)
      /\ (~t.revoked => v.endedAt = now) /\ (v.reused => t.reused \/ (t.there /\ ~t.revoked))
  BY <1>6, <1>7 DEF Row
<1> HIDE DEF v
<1>9. \A x \in Sids : session'[x] = IF x = s THEN v ELSE session[x]
  BY <1>5, KnownFacts DEF Types
<1>10. session' \in [Sids -> Row] BY <1>5, <1>8, KnownFacts DEF Types
<1>11. SessionsKeep BY <1>3, <1>4, <1>8, <1>9 DEF SessionsKeep
<1>12. NoFalseReuse'
  <2>1. t.there /\ ~t.revoked => s \in unlucky
    <3> SUFFICES ASSUME Live(s), s \notin unlucky PROVE FALSE BY <1>4 DEF Live
    <3>1. Untroubled(s) BY KnownFacts DEF Luck
    <3> QED BY <1>1, <1>3, <3>1 DEF Untroubled
  <2>2. \A x \in Sids : session[x].reused => x \in unlucky BY KnownFacts DEF NoFalseReuse
  <2>3. unlucky' = unlucky BY DEF Reuse
  <2> QED BY <1>4, <1>8, <1>9, <2>1, <2>2, <2>3 DEF NoFalseReuse
<1> DEFINE r == [w EXCEPT !.pc = "answer", !.state = "logout", !.setJwt = Clear, !.setRefresh = Clear]
<1>13. Becomes(q, r) BY <1>1 DEF Reuse, LogsOut, Becomes
<1>14. /\ r \in Request /\ r.pc = "answer" /\ SameRequest(r, w) /\ r.at = w.at /\ r.state = "logout"
       /\ r.setJwt = Clear /\ r.setRefresh = Clear
  BY StepsFacts DEF Request, SameRequest
<1> HIDE DEF r
<1>15. Follows(req[q], r) BY <1>1, <1>2, <1>14, NothingFacts DEF Follows, StillComes, SameRequest
<1>16. Knows(r)
  <2>1. Carries(r) BY <1>1, <1>14, NothingFacts DEF Knows, Carries, SameRequest
  <2>2. Refreshing(r) /\ Writes(r) /\ SigningIn(r) /\ Answered(r)
    BY <1>14, NothingFacts DEF Refreshing, Writes, SigningIn, LoginSteps, Answered
  <2> QED BY <2>1, <2>2 DEF Knows
<1>17. UNCHANGED <<now, account, cookies, sends, unlucky, changedAt>> BY DEF Reuse
<1> QED BY <1>10, <1>11, <1>12, <1>13, <1>14, <1>15, <1>16, <1>17, EndStep

LEMMA RehashKeeps ==
  ASSUME Inductive, NEW q \in Requests, Rehash(q) PROVE Inductive'
<1>1. PICK w \in Request : w = req[q] /\ Knows(w) /\ Busy(w) /\ w.pc = "rehash"
  BY CallFacts DEF Rehash, Busy
<1>2. UNCHANGED <<now, session, cookies, sends, unlucky, changedAt>> BY DEF Rehash
<1>3. /\ w.setJwt = Keep /\ w.setRefresh = Keep /\ w.kind = "LOGIN" /\ w.at <= now
      /\ w.password \in 1..2 /\ (~w.overlapped => w.password = account.password)
  BY <1>1 DEF Knows, Writes, SigningIn, Carries, LoginSteps
<1>4. account' = [account EXCEPT !.hash = w.password, !.legacy = FALSE] BY <1>1 DEF Rehash
<1> DEFINE r == [w EXCEPT !.pc = "establish"]
<1>5. Becomes(q, r) BY <1>1 DEF Rehash, Goto, Becomes
<1>6. /\ r \in Request /\ r.pc = "establish" /\ SameRequest(r, w) /\ r.at = w.at
      /\ r.setJwt = Keep /\ r.setRefresh = Keep /\ r.password = w.password
  BY <1>3, StepsFacts DEF Request, SameRequest
<1> HIDE DEF r
<1>7. req' \in [Requests -> Request] BY <1>5, <1>6, KnownFacts DEF Types, Becomes
<1>8. TypeOK' BY <1>2, <1>3, <1>4, <1>7 DEF Inductive, TypeOK
<1>9. account'.role = account.role /\ account'.password = account.password
      /\ account'.closed = account.closed
  BY <1>4 DEF Inductive, TypeOK
<1>10. /\ Rows' /\ NoFalseReuse' /\ ResetEndsSessions'
  BY <1>2, <1>9, KnownFacts DEF Rows, NoFalseReuse, ResetEndsSessions
<1>11. Onward BY <1>2, <1>9, KnownFacts DEF Onward, Types, Row
<1>12. \A s \in Sids : SameTokens(s) /\ (StaysLive(s) => Live(s))
  BY <1>2 DEF SameTokens, StaysLive, Live
<1>13. Follows(req[q], r) BY <1>1, <1>3, <1>6, NothingFacts DEF Follows, StillComes, SameRequest
<1>14. Knows(r)
  <2>1. Carries(r) BY <1>1, <1>3, <1>6, NothingFacts DEF Knows, Carries, SameRequest
  <2>2. Refreshing(r) /\ Writes(r) /\ SigningIn(r) /\ Answered(r)
    BY <1>3, <1>6, NothingFacts DEF Refreshing, Writes, SigningIn, LoginSteps, Answered, SameRequest
  <2> QED BY <2>1, <2>2 DEF Knows
<1>15. Knows(r)'
  <2>1. Types' BY <1>8, TypesHold, PTL
  <2>2. IsToken(r.setRefresh) => SameTokens(r.setRefresh.sid) BY <1>6, NothingFacts
  <2> QED BY <1>6, <1>9, <1>11, <1>14, <2>1, <2>2, KnownFacts, KnowsStays
<1> QED BY <1>2, <1>5, <1>6, <1>8, <1>9, <1>10, <1>11, <1>12, <1>13, <1>15, LocalStep

-----------------------------------------------------------------------------
(* The rotation. *)

LEMMA RotateKeeps ==
  ASSUME Inductive, NEW q \in Requests, Rotate(q) PROVE Inductive'
<1>1. PICK w \in Request : w = req[q] /\ Knows(w) /\ Busy(w) /\ w.pc = "rotate"
  BY CallFacts DEF Rotate, Busy
<1>2. UNCHANGED <<now, account, cookies, sends, unlucky, changedAt>> BY DEF Rotate
<1>3. /\ IsJwt(w.jwt) /\ w.jwt \in Jwts /\ IsToken(w.refresh) /\ w.refresh \in Refreshes
      /\ w.refresh.sid = w.jwt.sid /\ w.jwt.exp <= w.at /\ w.sentAt <= w.at /\ w.at <= now
      /\ w.setJwt = Keep /\ w.setRefresh = Keep /\ w.kind \in Ordinary /\ TokenKnown(w.refresh)
  BY <1>1, NothingFacts DEF Knows, Refreshing, Carries, Writes, Request
<1>4. PICK s \in Sids : s = w.refresh.sid /\ session[s].expires # 0
  BY <1>3 DEF TokenKnown, Issued
<1>5. PICK t \in Row : t = session[s] BY KnownFacts DEF Types
<1>6. w.refresh.secret \in Nat /\ w.refresh.secret <= t.token /\ t.token \in Nat
  BY <1>3, <1>4, <1>5 DEF Refreshes, TokenKnown, Row
<1>7. CASE ~RotateMatches(w) /\ Goto(q, "select") /\ UNCHANGED session
  <2>1. ~Alive(s, w.at) \/ w.refresh.secret < t.token
    BY <1>4, <1>5, <1>6, <1>7 DEF RotateMatches
  <2>2. ASSUME NEW r \in Request, r.pc = "select", SameRequest(r, w), r.at = w.at,
               r.setJwt = w.setJwt, r.setRefresh = w.setRefresh
        PROVE  Refreshing(r) /\ Writes(r) /\ SigningIn(r) /\ Answered(r)
    <3>1. Refreshing(r) BY <1>3, <1>4, <1>5, <2>1, <2>2 DEF Refreshing, SameRequest
    <3>2. Writes(r) BY <1>3, <2>2, NothingFacts DEF Writes
    <3>3. SigningIn(r) /\ Answered(r) BY <2>2 DEF SigningIn, LoginSteps, Answered
    <3> QED BY <3>1, <3>2, <3>3
  <2>3. "select" \in Steps BY StepsFacts
  <2> QED BY <1>1, <1>2, <1>7, <2>2, <2>3, GotoStep
<1>8. CASE /\ RotateMatches(w)
           /\ session' = [session EXCEPT ![s].token = @ + 1, ![s].prev = w.refresh.secret,
                                         ![s].rotatedAt = w.at]
           /\ req' = [req EXCEPT ![q].pc = "principal",
                                 ![q].setRefresh = [sid |-> s, secret |-> session[s].token + 1]]
  <2>1. w.refresh.secret = t.token /\ t.there /\ ~t.revoked
    BY <1>4, <1>5, <1>8 DEF RotateMatches, Alive
  <2> DEFINE v == [t EXCEPT !.token = @ + 1, !.prev = w.refresh.secret, !.rotatedAt = w.at]
             f == [sid |-> s, secret |-> t.token + 1]
             r == [w EXCEPT !.pc = "principal", !.setRefresh = f]
  <2>2. session' = [session EXCEPT ![s] = v] BY <1>5, <1>8
  <2>3. Becomes(q, r) BY <1>1, <1>5, <1>8 DEF Becomes
  <2>4. w.at \in Nat /\ w.sentAt \in Nat BY DEF Request
  <2>5. /\ v \in Row /\ v.token = t.token + 1 /\ v.prev = t.token /\ v.rotatedAt = w.at
        /\ v.there /\ ~v.revoked /\ v.reused = t.reused /\ v.expires = t.expires
        /\ v.password = t.password /\ v.overlapped = t.overlapped
    <3>0. PICK k \in Nat : k = t.token /\ k = w.refresh.secret BY <1>6, <2>1
    <3> DEFINE u == [t EXCEPT !.token = @ + 1, !.prev = w.refresh.secret]
    <3>3. k + 1 \in Nat /\ k \in Nat \cup {None} OBVIOUS
    <3>4. u = [t EXCEPT !.token = k + 1, !.prev = k] BY <3>0
    <3>1. /\ u \in Row /\ u.token = t.token + 1 /\ u.prev = t.token /\ u.there = t.there
          /\ u.revoked = t.revoked /\ u.reused = t.reused /\ u.expires = t.expires
          /\ u.password = t.password /\ u.overlapped = t.overlapped
      BY <3>0, <3>3, <3>4 DEF Row
    <3>2. v = [u EXCEPT !.rotatedAt = w.at] OBVIOUS
    <3> HIDE DEF u, v
    <3> QED BY <2>1, <2>4, <3>1, <3>2 DEF Row
  <2>6. f \in Refreshes /\ IsToken(f) /\ f.sid = s /\ f.secret = t.token + 1
    BY <1>6, NothingFacts DEF Refreshes
  <2> HIDE DEF v, f
  <2>7. /\ r \in Request /\ r.pc = "principal" /\ SameRequest(r, w) /\ r.at = w.at
        /\ r.setJwt = Keep /\ r.setRefresh = f
    BY <1>3, <2>6, StepsFacts DEF Request, SameRequest
  <2> HIDE DEF r
  <2>8. /\ \A x \in Sids : session'[x] = IF x = s THEN v ELSE session[x]
        /\ \A p \in Requests : req'[p] = IF p = q THEN r ELSE req[p]
    BY <2>2, <2>3, KnownFacts DEF Types, Becomes
  <2>9. session' \in [Sids -> Row] /\ req' \in [Requests -> Request]
    BY <2>2, <2>3, <2>5, <2>7, KnownFacts DEF Types, Becomes
  <2>10. TypeOK' BY <1>2, <2>9 DEF Inductive, TypeOK
  <2>11. Types' BY <2>10, TypesHold, PTL
  <2>12. Rows' BY <1>2, <1>3, <1>4, <1>5, <1>6, <2>1, <2>5, <2>8, KnownFacts DEF Rows
  <2>13. Onward
    <3>1. \A x \in Sids : session[x].token \in Nat BY KnownFacts DEF Types, Row
    <3>2. now \in Nat /\ changedAt \in Nat BY KnownFacts DEF Types
    <3> QED BY <1>2, <1>5, <1>6, <2>1, <2>5, <2>8, <3>1, <3>2 DEF Onward
  <2>14. Cookies' BY <1>2, <2>11, <2>13, CookiesStay
  \* Nobody else is bringing a token of the session.
  <2>15. ASSUME NEW p \in Requests, Busy(req[p]), IsToken(req[p].setRefresh)
         PROVE  req[p].setRefresh.sid # s /\ p # q
    <3>1. PICK u \in Request : u = req[p] /\ Knows(u) BY <2>15, CallFacts
    <3>2. u.setRefresh \in Refreshes BY <2>15, <3>1, NothingFacts DEF Request
    <3>3. u.setRefresh.secret = session[u.setRefresh.sid].token BY <2>15, <3>1 DEF Knows, Writes
    <3>4. u.setRefresh.sid = s => w.refresh.secret < u.setRefresh.secret
      BY <1>1, <1>3, <1>4, <2>15, <3>1, KnownFacts DEF Unseen
    <3> QED BY <1>1, <1>3, <1>5, <1>6, <2>1, <2>15, <3>1, <3>3, <3>4, NothingFacts
  <2>16. Knows(r)'
    <3>0. Carries(w) /\ account'.role \in w.lived BY <1>1, <1>2 DEF Knows, Carries
    <3>1. Carries(w)' BY <2>11, <2>13, <3>0, KnownFacts, CarriesStays
    <3>2. TokenKnown(f)' BY <1>4, <1>5, <1>6, <2>5, <2>6, <2>8 DEF TokenKnown, Issued
    <3>3. Carries(r)' BY <2>6, <2>7, <3>1, <3>2 DEF Carries, SameRequest, IsJwt, IsToken, TokenKnown, JwtKnown
    <3>4. ~r.dead BY <1>1, <1>3, <1>4, <1>5, <2>1, <2>7 DEF Knows, Carries, SameRequest
    <3>5. Refreshing(r)'
      BY <1>3, <1>4, <2>5, <2>7, <2>8, <3>4 DEF Refreshing, SameRequest
    <3>6. Writes(r)' BY <1>3, <1>4, <2>5, <2>6, <2>7, <2>8 DEF Writes, SameRequest
    <3>7. SigningIn(r)' /\ Answered(r)' BY <2>7 DEF SigningIn, LoginSteps, Answered
    <3> QED BY <3>3, <3>5, <3>6, <3>7 DEF Knows
  <2>17. Calls'
    <3>1. \A p \in Requests \ {q} :
            Busy(req[p]) /\ IsToken(req[p].setRefresh) => SameTokens(req[p].setRefresh.sid)
      <4> SUFFICES ASSUME NEW p \in Requests, Busy(req[p]), IsToken(req[p].setRefresh)
                   PROVE  SameTokens(req[p].setRefresh.sid)
        OBVIOUS
      <4>1. req[p].setRefresh.sid \in Sids
        BY CallFacts DEF Knows, Carries, TokenKnown, Issued
      <4> QED BY <2>8, <2>15, <4>1 DEF SameTokens
    <3> QED BY <1>2, <2>3, <2>7, <2>11, <2>13, <2>16, <3>1, CallsStep
  <2>18. OneHolder'
    <3>1. ASSUME NEW p \in Requests, NEW x, Brings(p, x)'
          PROVE  Brings(p, x) /\ req'[p].browser = req[p].browser
      <4>1. CASE p = q BY <1>1, <1>3, <1>4, <2>6, <2>7, <2>8, <3>1, <4>1 DEF Brings, SameRequest
      <4>2. CASE p # q BY <2>8, <3>1, <4>2 DEF Brings
      <4> QED BY <4>1, <4>2
    <3>2. ASSUME NEW b \in Browsers, NEW x, Holds(b, x)' PROVE Holds(b, x)
      BY <1>2, <3>1, <3>2 DEF Holds
    <3> QED BY <3>2, KnownFacts DEF OneHolder
  <2>19. Unseen'
    <3> SUFFICES ASSUME NEW p \in Requests, Busy(req'[p]), IsToken(req'[p].setRefresh)
                 PROVE  /\ \A b \in Browsers :
                             IsToken(cookies[b].refresh) /\ cookies[b].refresh.sid = req'[p].setRefresh.sid
                               => cookies[b].refresh.secret < req'[p].setRefresh.secret
                        /\ \A o \in Requests : Busy(req'[o]) =>
                             /\ IsToken(req'[o].refresh) /\ req'[o].refresh.sid = req'[p].setRefresh.sid
                                  => req'[o].refresh.secret < req'[p].setRefresh.secret
                             /\ o # p /\ IsToken(req'[o].setRefresh)
                                  => req'[o].setRefresh.sid # req'[p].setRefresh.sid
      BY <1>2 DEF Unseen, Busy, IsToken
    <3>1. \A o \in Requests : Busy(req'[o]) =>
            /\ Busy(req[o]) /\ req'[o].refresh = req[o].refresh
            /\ o # q => req'[o] = req[o]
      BY <1>1, <2>7, <2>8 DEF SameRequest
    <3>2. CASE p = q
      <4>1. req'[p].setRefresh = f BY <2>7, <2>8, <3>2
      <4>2. ASSUME NEW b \in Browsers, IsToken(cookies[b].refresh), cookies[b].refresh.sid = s
            PROVE  cookies[b].refresh.secret < f.secret
        <5>1. cookies[b].refresh \in Refreshes /\ TokenKnown(cookies[b].refresh)
          BY <4>2, CookieFacts, NothingFacts
        <5> QED BY <1>5, <1>6, <2>6, <4>2, <5>1 DEF TokenKnown, Refreshes
      <4>3. ASSUME NEW o \in Requests, Busy(req[o]), IsToken(req[o].refresh), req[o].refresh.sid = s
            PROVE  req[o].refresh.secret < f.secret
        <5>1. PICK u \in Request : u = req[o] /\ Knows(u) BY <4>3, CallFacts
        <5>2. u.refresh \in Refreshes /\ TokenKnown(u.refresh)
          BY <4>3, <5>1, NothingFacts DEF Request, Knows, Carries
        <5> QED BY <1>5, <1>6, <2>6, <4>3, <5>1, <5>2 DEF TokenKnown, Refreshes
      <4>4. ASSUME NEW o \in Requests, Busy(req'[o]), o # q, IsToken(req'[o].setRefresh)
            PROVE  req'[o].setRefresh.sid # s
        BY <2>15, <3>1, <4>4
      <4> QED BY <2>6, <3>1, <3>2, <4>1, <4>2, <4>3, <4>4
    <3>3. CASE p # q
      <4>1. req'[p] = req[p] BY <2>8, <3>3
      <4>2. req[p].setRefresh.sid # s BY <2>15, <4>1
      <4>3. ASSUME NEW o \in Requests, Busy(req'[o]), o # p, IsToken(req'[o].setRefresh)
            PROVE  req'[o].setRefresh.sid # req[p].setRefresh.sid
        <5>1. CASE o = q BY <2>6, <2>7, <2>8, <4>2, <5>1
        <5>2. CASE o # q
          <6>1. req'[o] = req[o] BY <3>1, <4>3, <5>2
          <6> QED BY <4>1, <4>3, <6>1, KnownFacts DEF Unseen
        <5> QED BY <5>1, <5>2
      <4>4. ASSUME NEW o \in Requests, Busy(req'[o]), IsToken(req'[o].refresh),
                   req'[o].refresh.sid = req[p].setRefresh.sid
            PROVE  req'[o].refresh.secret < req[p].setRefresh.secret
        BY <3>1, <4>1, <4>4, KnownFacts DEF Unseen
      <4>5. ASSUME NEW b \in Browsers, IsToken(cookies[b].refresh),
                   cookies[b].refresh.sid = req[p].setRefresh.sid
            PROVE  cookies[b].refresh.secret < req[p].setRefresh.secret
        BY <4>1, <4>5, KnownFacts DEF Unseen
      <4> QED BY <4>1, <4>3, <4>4, <4>5
    <3> QED BY <3>2, <3>3
  <2>20. NoFalseReuse' /\ ResetEndsSessions'
    BY <1>2, <1>5, <2>1, <2>5, <2>8, KnownFacts DEF NoFalseReuse, ResetEndsSessions
  <2>21. Luck'
    <3> SUFFICES ASSUME NEW x \in Sids \ unlucky
                 PROVE  Prompt(x)' /\ (Live(x)' => Untroubled(x)')
      BY <1>2 DEF Luck
    <3>1. Prompt(x) /\ (Live(x) => Untroubled(x)) BY KnownFacts DEF Luck
    <3>2. \A o \in Requests : /\ req'[o].browser = req[o].browser /\ req'[o].jwt = req[o].jwt
                              /\ req'[o].refresh = req[o].refresh /\ req'[o].sentAt = req[o].sentAt
                              /\ Busy(req'[o]) <=> Busy(req[o])
                              /\ req'[o].pc = "reuse" => req[o].pc = "reuse"
                              /\ o # q => req'[o] = req[o]
      BY <1>1, <2>7, <2>8 DEF SameRequest, Busy
    <3>3. Prompt(x)'
      <4>1. ASSUME NEW o \in Requests, Brings(o, x)' PROVE Brings(o, x)
        <5>1. CASE o = q BY <1>1, <1>3, <1>4, <2>6, <2>7, <2>8, <4>1, <5>1 DEF Brings, SameRequest
        <5>2. CASE o # q BY <3>2, <4>1, <5>2 DEF Brings
        <5> QED BY <5>1, <5>2
      <4> QED BY <1>2, <3>1, <3>2, <4>1 DEF Prompt
    <3>4. CASE x # s
      <4>1. session'[x] = session[x] BY <2>8, <3>4
      <4>2. ASSUME Live(x)' PROVE Untroubled(x)'
        <5>1. Untroubled(x) BY <3>1, <4>1, <4>2 DEF Live
        <5>2. CookieRecent(x)'
          <6> SUFFICES ASSUME NEW b \in Browsers, IsToken(cookies[b].refresh), cookies[b].refresh.sid = x,
                              cookies[b].refresh.secret < session[x].token
                       PROVE  /\ cookies[b].refresh.secret = session[x].token - 1
                              /\ \E o \in Requests : /\ Busy(req'[o]) /\ req'[o].browser = b
                                                     /\ IsToken(req'[o].setRefresh) /\ req'[o].setRefresh.sid = x
            BY <1>2, <4>1 DEF CookieRecent, IsToken, Busy
          <6>1. PICK o \in Requests : /\ Busy(req[o]) /\ req[o].browser = b
                                      /\ IsToken(req[o].setRefresh) /\ req[o].setRefresh.sid = x
            BY <5>1 DEF Untroubled, CookieRecent
          <6>2. req'[o] = req[o] BY <2>15, <3>2, <6>1
          <6> QED BY <5>1, <6>1, <6>2 DEF Untroubled, CookieRecent
        <5>3. RequestRecent(x)' BY <3>2, <4>1, <5>1 DEF Untroubled, RequestRecent
        <5>4. \A b \in Browsers : Paired(cookies[b].jwt, cookies[b].refresh, x)'
          BY <1>2, <4>1, <5>1 DEF Untroubled, Paired
        <5>5. \A o \in Requests : Busy(req'[o]) => Paired(req[o].jwt, req[o].refresh, x)'
          BY <3>2, <4>1, <5>1 DEF Untroubled, Paired
        <5>6. \A o \in Requests : req'[o].pc = "reuse" => req'[o].refresh.sid # x
          BY <3>2, <5>1 DEF Untroubled
        <5> QED BY <5>2, <5>3, <5>4, <5>5, <5>6 DEF Untroubled
      <4> QED BY <3>3, <4>2
    <3>5. CASE x = s
      <4>1. Untroubled(s) BY <1>5, <2>1, <3>1, <3>5 DEF Live
      <4>2. session'[s] = v BY <2>8
      <4>3. CookieRecent(s)'
        <5> SUFFICES ASSUME NEW b \in Browsers, IsToken(cookies[b].refresh), cookies[b].refresh.sid = s,
                            cookies[b].refresh.secret < v.token
                     PROVE  /\ cookies[b].refresh.secret = v.token - 1
                            /\ \E o \in Requests : /\ Busy(req'[o]) /\ req'[o].browser = b
                                                   /\ IsToken(req'[o].setRefresh) /\ req'[o].setRefresh.sid = s
          BY <1>2, <4>2 DEF CookieRecent, IsToken, Busy
        <5>1. cookies[b].refresh \in Refreshes BY CookieFacts, NothingFacts
        <5>2. ~(cookies[b].refresh.secret < t.token)
          BY <1>5, <2>15, <4>1 DEF Untroubled, CookieRecent
        <5>3. cookies[b].refresh.secret = v.token - 1
          BY <1>6, <2>5, <5>1, <5>2 DEF Refreshes
        <5>4. Holds(b, s) /\ Holds(w.browser, s) /\ w.browser \in Browsers
          BY <1>1, <1>3, <1>4 DEF Holds, Brings, Knows, Carries
        <5>5. w.browser = b BY <5>4, KnownFacts DEF OneHolder
        <5>6. /\ Busy(req'[q]) /\ req'[q].browser = b
              /\ IsToken(req'[q].setRefresh) /\ req'[q].setRefresh.sid = s
          BY <1>1, <2>6, <2>7, <2>8, <3>2, <5>5 DEF SameRequest
        <5> QED BY <5>3, <5>6
      <4>4. RequestRecent(s)'
        <5> SUFFICES ASSUME NEW o \in Requests, Busy(req[o]), IsToken(req[o].refresh),
                            req[o].refresh.sid = s, req[o].refresh.secret < v.token
                     PROVE  /\ req[o].refresh.secret = v.token - 1
                            /\ req[o].sentAt <= v.rotatedAt + Half
          BY <3>2, <4>2 DEF RequestRecent, IsToken
        <5>1. PICK u \in Request : u = req[o] /\ Knows(u) BY CallFacts
        <5>2. /\ u.refresh.secret \in Nat /\ u.sentAt \in Nat /\ u.sentAt <= now /\ now \in Nat
          BY <5>1, KnownFacts, NothingFacts DEF Request, Refreshes, Knows, Carries, Types
        <5>3. now - u.sentAt <= Half /\ now - w.sentAt <= Half
          BY <1>1, <1>3, <1>4, <3>1, <3>5, <5>1 DEF Prompt, Brings
        <5>4. CASE u.refresh.secret < t.token
          <6>1. u.sentAt <= t.rotatedAt + Half
            BY <1>5, <4>1, <5>1, <5>4 DEF Untroubled, RequestRecent
          <6>2. w.refresh = [sid |-> s, secret |-> t.token] BY <1>3, <1>4, <2>1 DEF Refreshes
          <6>3. t.rotatedAt + Grace < w.jwt.exp
            BY <1>1, <1>3, <1>4, <1>5, <4>1, <6>2 DEF Untroubled, Paired
          <6>4. t.rotatedAt \in Nat /\ w.jwt.exp \in Nat BY <1>3 DEF Row, Jwts
          <6> QED BY <1>3, <2>4, <5>2, <5>3, <6>1, <6>3, <6>4, HalfFacts, PeriodsAssumption
        <5>5. CASE ~(u.refresh.secret < t.token)
          BY <1>3, <1>6, <2>4, <2>5, <5>1, <5>2, <5>3, <5>5, HalfFacts
        <5> QED BY <5>4, <5>5
      <4>5. \A b \in Browsers : Paired(cookies[b].jwt, cookies[b].refresh, s)'
        <5> SUFFICES ASSUME NEW b \in Browsers, cookies[b].refresh = [sid |-> s, secret |-> v.token],
                            IsToken(cookies[b].refresh)
                     PROVE  FALSE
          BY <1>2, <4>2 DEF Paired, IsToken
        <5>1. TokenKnown(cookies[b].refresh) BY CookieFacts
        <5> QED BY <1>5, <1>6, <2>5, <5>1 DEF TokenKnown
      <4>6. \A o \in Requests : Busy(req'[o]) => Paired(req[o].jwt, req[o].refresh, s)'
        <5> SUFFICES ASSUME NEW o \in Requests, Busy(req[o]), IsToken(req[o].refresh),
                            req[o].refresh = [sid |-> s, secret |-> v.token]
                     PROVE  FALSE
          BY <3>2, <4>2 DEF Paired, IsToken
        <5>1. TokenKnown(req[o].refresh) BY CallFacts DEF Knows, Carries
        <5> QED BY <1>5, <1>6, <2>5, <5>1 DEF TokenKnown
      <4>7. \A o \in Requests : req'[o].pc = "reuse" => req'[o].refresh.sid # s
        BY <3>2, <4>1 DEF Untroubled
      <4> QED BY <3>3, <3>5, <4>3, <4>4, <4>5, <4>6, <4>7 DEF Untroubled
    <3> QED BY <3>4, <3>5
  <2> QED BY <2>10, <2>12, <2>14, <2>17, <2>18, <2>19, <2>20, <2>21 DEF Inductive
<1> QED BY <1>1, <1>4, <1>7, <1>8 DEF Rotate

-----------------------------------------------------------------------------
(* Answers, and the requests before them. *)

LEMMA LoseKeeps ==
  ASSUME Inductive, NEW q \in Requests, Lose(q) PROVE Inductive'
<1>1. PICK w \in Request : w = req[q] /\ Knows(w) /\ Busy(w) /\ w.pc = "answer"
  BY CallFacts DEF Lose, Busy
<1>2. IsToken(w.setRefresh) => w.setRefresh.sid \in Sids
  BY <1>1 DEF Knows, Carries, TokenKnown, Issued
<1>3. w.setRefresh \in {Keep, Clear} \/ IsToken(w.setRefresh)
  BY NothingFacts DEF Request
<1>4. /\ unlucky \subseteq unlucky' /\ unlucky' \subseteq Sids
      /\ IsToken(w.setRefresh) => w.setRefresh.sid \in unlucky'
  BY <1>1, <1>2, <1>3, KnownFacts, NothingFacts DEF Lose, Types
<1>5. Follows(req[q], NoRequest) BY <1>1, <1>4, NoRequestFacts DEF Follows, StillComes
<1>6. UNCHANGED <<now, session, account, cookies, sends, changedAt>> /\ Becomes(q, NoRequest)
  BY DEF Lose, Becomes
<1> QED BY <1>4, <1>5, <1>6, NoRequestFacts, ReadStep

LEMMA SendKeeps ==
  ASSUME Inductive, NEW q \in Requests, NEW b \in Browsers, NEW k \in Kinds, Send(q, b, k)
  PROVE  Inductive'
<1>1. ~Busy(req[q]) BY DEF Send, Busy
<1>2. UNCHANGED <<now, session, account, cookies, unlucky, changedAt>> BY DEF Send
<1>3. PICK j \in Jwts \cup {None}, f \in Refreshes \cup {None} :
        /\ j = cookies[b].jwt /\ f = cookies[b].refresh
        /\ IsJwt(j) => JwtKnown(j)
        /\ IsToken(f) => TokenKnown(f)
  BY CookieFacts
<1> DEFINE c == CASE k = "SIGN_OUT" -> "signout" [] k = "LOGIN" -> "verify" [] OTHER -> "proxy"
           d == j # None /\ session[j.sid].revoked
           r0 == [NoRequest EXCEPT !.pc = c, !.browser = b, !.kind = k, !.jwt = j, !.refresh = f]
           r1 == [r0 EXCEPT !.sentAt = now, !.dead = d, !.lived = {account.role}]
<1>4. /\ c \in Steps /\ c \in {"signout", "verify", "proxy"}
      /\ c = "verify" => k = "LOGIN"
      /\ c = "proxy" => k \in Ordinary
      /\ k \in AllKinds
  <2>1. k \in AllKinds BY KindsAssumption
  <2> QED BY <2>1, StepsFacts DEF AllKinds, Ordinary
<1>5. Becomes(q, r1)
  <2>1. r1 = [NoRequest EXCEPT !.pc = c, !.browser = b, !.kind = k, !.jwt = j, !.refresh = f,
                              !.sentAt = now, !.dead = d, !.lived = {account.role}]
    BY DEF NoRequest
  <2> QED BY <1>3, <2>1 DEF Send, Becomes
<1>6. d \in BOOLEAN /\ (d => IsJwt(j) /\ session[j.sid].revoked)
  <2>1. j # None => j \in Jwts /\ j.sid \in Sids BY NothingFacts DEF Jwts
  <2>2. j # None => session[j.sid].revoked \in BOOLEAN BY <2>1, KnownFacts DEF Types, Row
  <2> QED BY <2>1, <2>2, NothingFacts
<1> HIDE DEF c, d
<1>7. /\ r0 \in Request /\ r0.pc = c /\ r0.browser = b /\ r0.kind = k /\ r0.jwt = j /\ r0.refresh = f
      /\ r0.at = 0 /\ r0.setJwt = Keep /\ r0.setRefresh = Keep
  BY <1>4, NoRequestFacts DEF NoRequest, Request
<1> HIDE DEF r0
<1>8. now \in Nat /\ account.role \in Roles BY KnownFacts DEF Types
<1>22. /\ r1 \in Request /\ r1.pc = c /\ r1.browser = b /\ r1.kind = k /\ r1.jwt = j /\ r1.refresh = f
       /\ r1.at = 0 /\ r1.setJwt = Keep /\ r1.setRefresh = Keep
       /\ r1.sentAt = now /\ r1.dead = d /\ r1.lived = {account.role}
  BY <1>6, <1>7, <1>8 DEF Request
<1> HIDE DEF r1
<1>23. PICK r \in Request : r = r1 BY <1>22
<1>9. /\ r \in Request /\ r.pc = c /\ r.browser = b /\ r.kind = k /\ r.jwt = j /\ r.refresh = f
      /\ r.at = 0 /\ r.setJwt = Keep /\ r.setRefresh = Keep
      /\ r.sentAt = now /\ r.dead = d /\ r.lived = {account.role} /\ Becomes(q, r)
  BY <1>5, <1>22, <1>23
<1>10. \A p \in Requests : req'[p] = IF p = q THEN r ELSE req[p]
  BY <1>9, KnownFacts DEF Becomes, Types
<1>11. TypeOK'
  <2>1. req' \in [Requests -> Request] BY <1>9, KnownFacts DEF Becomes, Types
  <2>2. sends' \in 0..MaxSends BY PeriodsAssumption DEF Inductive, TypeOK, Send
  <2> QED BY <1>2, <2>1, <2>2 DEF Inductive, TypeOK
<1>12. Types' BY <1>11, TypesHold, PTL
<1>13. Onward BY <1>2, KnownFacts DEF Onward, Types, Row
<1>14. Rows' BY <1>2, KnownFacts DEF Rows
<1>15. Cookies' BY <1>2, <1>12, <1>13, CookiesStay
<1>16. Knows(r)
  <2>1. Carries(r) BY <1>3, <1>6, <1>8, <1>9, NothingFacts DEF Carries
  <2>2. Refreshing(r) /\ Writes(r) /\ SigningIn(r) /\ Answered(r)
    BY <1>4, <1>9, NothingFacts DEF Refreshing, Writes, SigningIn, LoginSteps, Answered
  <2> QED BY <2>1, <2>2 DEF Knows
<1>17. Calls'
  <2>1. \A s \in Sids : SameTokens(s) BY <1>2 DEF SameTokens
  <2>2. \A p \in Requests \ {q} :
          Busy(req[p]) /\ IsToken(req[p].setRefresh) => SameTokens(req[p].setRefresh.sid)
    BY <1>2 DEF SameTokens
  <2>3. Knows(r)' BY <1>2, <1>9, <1>12, <1>13, <1>16, KnownFacts, KnowsStays, NothingFacts
  <2> QED BY <1>2, <1>9, <1>12, <1>13, <2>2, <2>3, CallsStep
<1>18. OneHolder'
  <2>1. ASSUME NEW a \in Browsers, NEW s, Holds(a, s)' PROVE Holds(a, s)
    <3>1. CASE IsToken(cookies[a].refresh) /\ cookies[a].refresh.sid = s BY <3>1 DEF Holds
    <3>2. ASSUME NEW p \in Requests, req'[p].browser = a, Brings(p, s)' PROVE Holds(a, s)
      <4>1. CASE p = q
        BY <1>3, <1>9, <1>10, <3>2, <4>1, NothingFacts DEF Brings, Holds
      <4>2. CASE p # q BY <1>10, <3>2, <4>2 DEF Brings, Holds
      <4> QED BY <4>1, <4>2
    <3> QED BY <1>2, <2>1, <3>1, <3>2 DEF Holds
  <2> QED BY <2>1, KnownFacts DEF OneHolder
<1>19. Unseen'
  <2> SUFFICES ASSUME NEW p \in Requests, Busy(req'[p]), IsToken(req'[p].setRefresh)
               PROVE  /\ \A a \in Browsers :
                           IsToken(cookies[a].refresh) /\ cookies[a].refresh.sid = req'[p].setRefresh.sid
                             => cookies[a].refresh.secret < req'[p].setRefresh.secret
                      /\ \A o \in Requests : Busy(req'[o]) =>
                           /\ IsToken(req'[o].refresh) /\ req'[o].refresh.sid = req'[p].setRefresh.sid
                                => req'[o].refresh.secret < req'[p].setRefresh.secret
                           /\ o # p /\ IsToken(req'[o].setRefresh)
                                => req'[o].setRefresh.sid # req'[p].setRefresh.sid
    BY <1>2 DEF Unseen, Busy, IsToken
  <2>1. p # q /\ req'[p] = req[p] BY <1>9, <1>10, NothingFacts
  <2>2. \A a \in Browsers :
          IsToken(cookies[a].refresh) /\ cookies[a].refresh.sid = req[p].setRefresh.sid
            => cookies[a].refresh.secret < req[p].setRefresh.secret
    BY <2>1, KnownFacts DEF Unseen
  <2>3. ASSUME NEW o \in Requests, Busy(req'[o])
        PROVE  /\ IsToken(req'[o].refresh) /\ req'[o].refresh.sid = req[p].setRefresh.sid
                    => req'[o].refresh.secret < req[p].setRefresh.secret
               /\ o # p /\ IsToken(req'[o].setRefresh)
                    => req'[o].setRefresh.sid # req[p].setRefresh.sid
    <3>1. CASE o = q BY <1>3, <1>9, <1>10, <2>2, <3>1, NothingFacts
    <3>2. CASE o # q
      <4>1. req'[o] = req[o] BY <1>10, <3>2
      <4> QED BY <2>1, <2>3, <4>1, KnownFacts DEF Unseen
    <3> QED BY <3>1, <3>2
  <2> QED BY <2>1, <2>2, <2>3
<1>20. NoFalseReuse' /\ ResetEndsSessions'
  BY <1>2, KnownFacts DEF NoFalseReuse, ResetEndsSessions
<1>21. Luck'
  <2> SUFFICES ASSUME NEW x \in Sids \ unlucky
               PROVE  Prompt(x)' /\ (Live(x)' => Untroubled(x)')
    BY <1>2 DEF Luck
  <2>1. Prompt(x) /\ (Live(x) => Untroubled(x)) BY KnownFacts DEF Luck
  <2>2. Prompt(x)'
    <3> SUFFICES ASSUME NEW o \in Requests, Brings(o, x)' PROVE now - req'[o].sentAt <= Half
      BY <1>2 DEF Prompt
    <3>1. CASE o = q BY <1>8, <1>9, <1>10, <3>1, HalfFacts
    <3>2. CASE o # q BY <1>10, <2>1, <3>2 DEF Prompt, Brings
    <3> QED BY <3>1, <3>2
  <2>3. ASSUME Live(x)' PROVE Untroubled(x)'
    <3>1. Untroubled(x) BY <1>2, <2>1, <2>3 DEF Live
    <3>2. CookieRecent(x)'
      <4> SUFFICES ASSUME NEW a \in Browsers, IsToken(cookies[a].refresh), cookies[a].refresh.sid = x,
                          cookies[a].refresh.secret < session[x].token
                   PROVE  /\ cookies[a].refresh.secret = session[x].token - 1
                          /\ \E o \in Requests : /\ Busy(req'[o]) /\ req'[o].browser = a
                                                 /\ IsToken(req'[o].setRefresh) /\ req'[o].setRefresh.sid = x
        BY <1>2 DEF CookieRecent, IsToken, Busy
      <4>1. PICK o \in Requests : /\ Busy(req[o]) /\ req[o].browser = a
                                  /\ IsToken(req[o].setRefresh) /\ req[o].setRefresh.sid = x
        BY <3>1 DEF Untroubled, CookieRecent
      <4>2. req'[o] = req[o] BY <1>1, <1>10, <4>1
      <4> QED BY <3>1, <4>1, <4>2 DEF Untroubled, CookieRecent
    <3>3. RequestRecent(x)'
      <4> SUFFICES ASSUME NEW o \in Requests, Busy(req'[o]), IsToken(req'[o].refresh),
                          req'[o].refresh.sid = x, req'[o].refresh.secret < session[x].token
                   PROVE  /\ req'[o].refresh.secret = session[x].token - 1
                          /\ req'[o].sentAt <= session[x].rotatedAt + Half
        BY <1>2 DEF RequestRecent, IsToken, Busy
      <4>1. CASE o # q
        <5>1. req'[o] = req[o] BY <1>10, <4>1
        <5> QED BY <3>1, <5>1 DEF Untroubled, RequestRecent
      <4>2. CASE o = q
        <5>1. req'[o] = r BY <1>10, <4>2
        <5>2. IsToken(f) /\ f.sid = x /\ f.secret < session[x].token BY <1>9, <5>1
        <5>3. f \in Refreshes BY <5>2, NothingFacts
        <5>4. PICK p \in Requests : /\ Busy(req[p]) /\ req[p].browser = b
                                    /\ IsToken(req[p].setRefresh) /\ req[p].setRefresh.sid = x
          BY <1>3, <3>1, <5>2 DEF Untroubled, CookieRecent
        <5>5. f.secret = session[x].token - 1
          BY <1>3, <3>1, <5>2 DEF Untroubled, CookieRecent
        <5>6. PICK u \in Request : u = req[p] /\ Knows(u) BY <5>4, CallFacts
        <5>7. session[x].token \in Nat /\ session[x].rotatedAt \in Nat /\ f.secret \in Nat
              /\ u.sentAt \in Nat
          BY <5>3, KnownFacts DEF Types, Row, Refreshes, Request
        <5>8. u.sentAt <= session[x].rotatedAt
          BY <5>2, <5>4, <5>6, <5>7 DEF Knows, Writes
        <5>9. now - u.sentAt <= Half BY <2>1, <5>4, <5>6 DEF Prompt, Brings
        <5> QED BY <1>8, <1>9, <5>1, <5>5, <5>7, <5>8, <5>9, HalfFacts
      <4> QED BY <4>1, <4>2
    <3>4. \A a \in Browsers : Paired(cookies[a].jwt, cookies[a].refresh, x)'
      BY <1>2, <3>1 DEF Untroubled, Paired
    <3>5. ASSUME NEW o \in Requests, Busy(req'[o]) PROVE Paired(req[o].jwt, req[o].refresh, x)'
      <4>1. CASE o = q
        <5>1. Paired(j, f, x) BY <1>3, <3>1 DEF Untroubled
        <5> QED BY <1>2, <1>9, <1>10, <4>1, <5>1 DEF Paired
      <4>2. CASE o # q
        <5>1. req'[o] = req[o] BY <1>10, <4>2
        <5>2. Paired(req[o].jwt, req[o].refresh, x) BY <3>1, <3>5, <5>1 DEF Untroubled
        <5> QED BY <1>2, <5>1, <5>2 DEF Paired
      <4> QED BY <4>1, <4>2
    <3>6. \A o \in Requests : req'[o].pc = "reuse" => req'[o].refresh.sid # x
      BY <1>4, <1>9, <1>10, <3>1 DEF Untroubled
    <3>7. \A o \in Requests : Busy(req[o])' => Paired(req[o].jwt, req[o].refresh, x)'
      BY <3>5 DEF Busy
    <3> QED BY <3>2, <3>3, <3>4, <3>6, <3>7 DEF Untroubled
  <2> QED BY <2>2, <2>3
<1> QED BY <1>11, <1>14, <1>15, <1>17, <1>18, <1>19, <1>20, <1>21 DEF Inductive

LEMMA DeliverKeeps ==
  ASSUME Inductive, NEW q \in Requests, Deliver(q) PROVE Inductive'
<1>1. PICK w \in Request : w = req[q] /\ Knows(w) /\ Busy(w) /\ w.pc = "answer"
  BY CallFacts DEF Deliver, Busy
<1>2. UNCHANGED <<now, session, account, sends, changedAt>> /\ Becomes(q, NoRequest)
  BY DEF Deliver, Becomes
<1>3. PICK b \in Browsers : b = w.browser BY <1>1 DEF Knows, Carries
<1>4. /\ w.setJwt \in Jwts \cup {Keep, Clear} /\ w.setRefresh \in Refreshes \cup {Keep, Clear}
      /\ IsJwt(w.setJwt) => JwtKnown(w.setJwt)
      /\ IsToken(w.setRefresh) => TokenKnown(w.setRefresh)
  BY <1>1 DEF Knows, Carries, Request
<1>5. PICK j \in Jwts \cup {None}, f \in Refreshes \cup {None} :
        /\ j = cookies[b].jwt /\ f = cookies[b].refresh
        /\ IsJwt(j) => JwtKnown(j)
        /\ IsToken(f) => TokenKnown(f)
  BY CookieFacts
<1>6. PICK nj, nf : nj = Changed(j, w.setJwt) /\ nf = Changed(f, w.setRefresh) OBVIOUS
<1>7. /\ nj \in Jwts \cup {None} /\ (IsJwt(nj) => JwtKnown(nj))
      /\ (nj = j \/ nj = None \/ (nj = w.setJwt /\ nj \in Jwts))
  BY <1>4, <1>5, <1>6, NothingFacts DEF Changed
<1>8. /\ nf \in Refreshes \cup {None} /\ (IsToken(nf) => TokenKnown(nf))
      /\ \/ nf = f /\ ~IsToken(w.setRefresh)
         \/ nf = None /\ ~IsToken(w.setRefresh)
         \/ nf = w.setRefresh /\ IsToken(nf)
  BY <1>4, <1>5, <1>6, NothingFacts DEF Changed
<1>9. /\ cookies' \in [Browsers -> [jwt : Jwts \cup {None}, refresh : Refreshes \cup {None}]]
      /\ \A a \in Browsers : cookies'[a] = IF a = b THEN [jwt |-> nj, refresh |-> nf] ELSE cookies[a]
  <2>1. cookies' = [cookies EXCEPT ![b] = [jwt |-> nj, refresh |-> nf]]
    BY <1>1, <1>3, <1>5, <1>6 DEF Deliver
  <2> QED BY <1>7, <1>8, <2>1, KnownFacts DEF Types
<1>10. /\ unlucky \subseteq unlucky' /\ unlucky' \subseteq Sids
       /\ Overtaken(w) => w.setJwt.sid \in unlucky'
  <2>1. Overtaken(w) => w.setJwt.sid \in Sids
    BY <1>4, NothingFacts DEF Overtaken, Jwts
  <2> QED BY <1>1, <2>1, KnownFacts DEF Deliver, Types
<1>11. \A p \in Requests : req'[p] = IF p = q THEN NoRequest ELSE req[p]
  BY <1>2, KnownFacts DEF Becomes, Types
<1>12. \A p \in Requests : Busy(req'[p]) => p # q /\ req'[p] = req[p]
  BY <1>11, NoRequestFacts
<1>13. TypeOK'
  <2>1. req' \in [Requests -> Request] BY <1>2, NoRequestFacts, KnownFacts DEF Becomes, Types
  <2> QED BY <1>2, <1>9, <1>10, <2>1 DEF Inductive, TypeOK
<1>14. Types' BY <1>13, TypesHold, PTL
<1>15. Onward BY <1>2, <1>10, KnownFacts DEF Onward, Types, Row
<1>16. Rows' BY <1>2, KnownFacts DEF Rows
<1>17. Cookies'
  <2> SUFFICES ASSUME NEW a \in Browsers
               PROVE  /\ IsJwt(cookies'[a].jwt) => JwtKnown(cookies[a].jwt)'
                      /\ IsToken(cookies'[a].refresh) => TokenKnown(cookies[a].refresh)'
    BY DEF Cookies, IsJwt, IsToken
  <2>1. PICK cj \in Jwts \cup {None}, cf \in Refreshes \cup {None} :
          /\ cookies'[a].jwt = cj /\ cookies'[a].refresh = cf
          /\ IsJwt(cj) => JwtKnown(cj)
          /\ IsToken(cf) => TokenKnown(cf)
    <3>1. CASE a = b BY <1>7, <1>8, <1>9, <3>1
    <3>2. CASE a # b BY <1>9, <3>2, CookieFacts
    <3> QED BY <3>1, <3>2
  <2>2. IsJwt(cj) => JwtKnown(cj)' BY <1>14, <1>15, <2>1, KnownFacts, JwtStays, NothingFacts
  <2>3. IsToken(cf) => TokenKnown(cf)' BY <1>14, <1>15, <2>1, KnownFacts, TokenStays, NothingFacts
  <2> QED BY <2>1, <2>2, <2>3
<1>18. Calls'
  <2>1. \A p \in Requests \ {q} :
          Busy(req[p]) /\ IsToken(req[p].setRefresh) => SameTokens(req[p].setRefresh.sid)
    BY <1>2 DEF SameTokens
  <2> QED BY <1>2, <1>14, <1>15, <2>1, CallsStep, NoRequestFacts
<1>19. OneHolder'
  <2>1. ASSUME NEW a \in Browsers, NEW s, Holds(a, s)' PROVE Holds(a, s)
    <3>1. CASE IsToken(cookies'[a].refresh) /\ cookies'[a].refresh.sid = s
      <4>1. CASE a = b
        <5>1. IsToken(nf) /\ nf.sid = s BY <1>9, <3>1, <4>1
        <5>2. CASE nf = f BY <1>5, <4>1, <5>1, <5>2 DEF Holds
        <5>3. CASE nf = w.setRefresh
          <6>1. Busy(req[q]) /\ req[q].browser = a /\ req[q].setRefresh = nf BY <1>1, <1>3, <4>1, <5>3
          <6> QED BY <5>1, <6>1 DEF Holds, Brings
        <5> QED BY <1>8, <5>1, <5>2, <5>3, NothingFacts
      <4>2. CASE a # b BY <1>9, <3>1, <4>2 DEF Holds
      <4> QED BY <4>1, <4>2
    <3>2. ASSUME NEW p \in Requests, req'[p].browser = a, Brings(p, s)' PROVE Holds(a, s)
      BY <1>12, <3>2 DEF Brings, Holds
    <3> QED BY <2>1, <3>1, <3>2 DEF Holds, IsToken
  <2> QED BY <2>1, KnownFacts DEF OneHolder
<1>20. Unseen'
  <2> SUFFICES ASSUME NEW p \in Requests, Busy(req'[p]), IsToken(req'[p].setRefresh)
               PROVE  /\ \A a \in Browsers :
                           IsToken(cookies'[a].refresh) /\ cookies'[a].refresh.sid = req'[p].setRefresh.sid
                             => cookies'[a].refresh.secret < req'[p].setRefresh.secret
                      /\ \A o \in Requests : Busy(req'[o]) =>
                           /\ IsToken(req'[o].refresh) /\ req'[o].refresh.sid = req'[p].setRefresh.sid
                                => req'[o].refresh.secret < req'[p].setRefresh.secret
                           /\ o # p /\ IsToken(req'[o].setRefresh)
                                => req'[o].setRefresh.sid # req'[p].setRefresh.sid
    BY DEF Unseen, Busy, IsToken
  <2>1. p # q /\ req'[p] = req[p] BY <1>12
  <2>2. ASSUME NEW a \in Browsers, IsToken(cookies'[a].refresh),
               cookies'[a].refresh.sid = req[p].setRefresh.sid
        PROVE  cookies'[a].refresh.secret < req[p].setRefresh.secret
    <3>1. CASE cookies'[a].refresh = cookies[a].refresh
      BY <2>1, <2>2, <3>1, KnownFacts DEF Unseen
    <3>2. CASE a = b /\ nf = w.setRefresh /\ IsToken(nf)
      <4>1. w.setRefresh.sid # req[p].setRefresh.sid
        BY <1>1, <2>1, <3>2, KnownFacts DEF Unseen
      <4> QED BY <1>9, <2>2, <3>2, <4>1
    <3>3. CASE a = b /\ nf = None BY <1>9, <2>2, <3>3, NothingFacts
    <3> QED BY <1>5, <1>8, <1>9, <3>1, <3>2, <3>3
  <2> QED BY <1>12, <2>1, <2>2, KnownFacts DEF Unseen
<1>21. NoFalseReuse' /\ ResetEndsSessions'
  BY <1>2, <1>10, KnownFacts DEF NoFalseReuse, ResetEndsSessions
<1>22. Luck'
  <2> SUFFICES ASSUME NEW x \in Sids, x \notin unlucky'
               PROVE  Prompt(x)' /\ (Live(x)' => Untroubled(x)')
    BY DEF Luck
  <2>1. x \notin unlucky /\ Prompt(x) /\ (Live(x) => Untroubled(x))
    BY <1>10, KnownFacts DEF Luck
  <2>2. Prompt(x)'
    <3> SUFFICES ASSUME NEW o \in Requests, Brings(o, x)' PROVE now - req'[o].sentAt <= Half
      BY <1>2 DEF Prompt
    <3> QED BY <1>12, <2>1 DEF Prompt, Brings
  <2>3. ASSUME Live(x)' PROVE Untroubled(x)'
    <3>1. Untroubled(x) BY <1>2, <2>1, <2>3 DEF Live
    <3>2. PICK t \in Row : t = session[x] /\ t = session'[x] BY <1>2, KnownFacts DEF Types
    <3>3. CookieRecent(x)'
      <4> SUFFICES ASSUME NEW a \in Browsers, IsToken(cookies'[a].refresh), cookies'[a].refresh.sid = x,
                          cookies'[a].refresh.secret < t.token
                   PROVE  /\ cookies'[a].refresh.secret = t.token - 1
                          /\ \E o \in Requests : /\ Busy(req'[o]) /\ req'[o].browser = a
                                                 /\ IsToken(req'[o].setRefresh) /\ req'[o].setRefresh.sid = x
        BY <3>2 DEF CookieRecent, IsToken, Busy
      <4>1. /\ cookies'[a].refresh = cookies[a].refresh
            /\ a = b => ~IsToken(w.setRefresh)
        <5>1. ~(nf = w.setRefresh /\ IsToken(nf) /\ nf.sid = x /\ nf.secret < t.token)
          <6> SUFFICES ASSUME IsToken(w.setRefresh), w.setRefresh.sid = x
                       PROVE  w.setRefresh.secret = t.token
            BY <1>4, NothingFacts DEF Refreshes, Row
          <6> QED BY <1>1, <3>2 DEF Knows, Writes
        <5> QED BY <1>5, <1>8, <1>9, <5>1, NothingFacts
      <4>2. PICK o \in Requests : /\ Busy(req[o]) /\ req[o].browser = a
                                  /\ IsToken(req[o].setRefresh) /\ req[o].setRefresh.sid = x
        BY <3>1, <3>2, <4>1 DEF Untroubled, CookieRecent
      <4>3. o # q BY <1>1, <1>3, <4>1, <4>2
      <4>4. req'[o] = req[o] BY <1>11, <4>3
      <4>5. cookies'[a].refresh.secret = t.token - 1
        BY <3>1, <3>2, <4>1 DEF Untroubled, CookieRecent
      <4> QED BY <4>2, <4>4, <4>5
    <3>4. RequestRecent(x)'
      <4> SUFFICES ASSUME NEW o \in Requests, Busy(req'[o]), IsToken(req'[o].refresh),
                          req'[o].refresh.sid = x, req'[o].refresh.secret < t.token
                   PROVE  /\ req'[o].refresh.secret = t.token - 1
                          /\ req'[o].sentAt <= t.rotatedAt + Half
        BY <3>2 DEF RequestRecent, IsToken, Busy
      <4> QED BY <1>12, <3>1, <3>2 DEF Untroubled, RequestRecent
    <3>5. ASSUME NEW a \in Browsers PROVE Paired(cookies[a].jwt, cookies[a].refresh, x)'
      <4> SUFFICES ASSUME IsJwt(cookies'[a].jwt), IsToken(cookies'[a].refresh), cookies'[a].jwt.sid = x,
                          cookies'[a].refresh = [sid |-> x, secret |-> t.token]
                   PROVE  t.rotatedAt + Grace < cookies'[a].jwt.exp
        BY <3>2 DEF Paired, IsJwt, IsToken
      <4>1. CASE a # b
        <5>1. cookies'[a] = cookies[a] BY <1>9, <4>1
        <5> QED BY <3>1, <3>2, <5>1 DEF Untroubled, Paired
      <4>2. CASE a = b
        <5>1. /\ IsJwt(nj) /\ IsToken(nf) /\ nj.sid = x /\ nf = [sid |-> x, secret |-> t.token]
              /\ cookies'[a].jwt = nj
          BY <1>9, <4>2
        <5>2. CASE IsToken(w.setRefresh)
          <6>1. nf = w.setRefresh /\ w.setRefresh.sid = x BY <1>8, <5>1, <5>2
          <6>2. IsJwt(w.setJwt) /\ t.rotatedAt + Access <= w.setJwt.exp
            BY <1>1, <3>2, <5>2, <6>1 DEF Knows, Writes
          <6>3. w.setJwt \in Jwts /\ nj = w.setJwt
            BY <1>4, <1>6, <6>2, NothingFacts DEF Changed, IsJwt
          <6>4. t.rotatedAt \in Nat /\ w.setJwt.exp \in Nat BY <6>3 DEF Row, Jwts
          <6> QED BY <5>1, <6>2, <6>3, <6>4, PeriodsAssumption
        <5>3. CASE ~IsToken(w.setRefresh)
          <6>1. nf = f BY <1>8, <5>1, <5>3, NothingFacts
          <6>2. CASE nj = j BY <1>5, <3>1, <3>2, <5>1, <6>1, <6>2 DEF Untroubled, Paired
          <6>3. CASE nj = w.setJwt /\ nj \in Jwts
            <7>1. ~Overtaken(w) BY <1>10, <5>1, <6>3
            <7>2. w.setJwt \notin {Keep, Clear} BY <5>1, <6>3 DEF IsJwt
            <7>3. cookies[w.browser].refresh = [sid |-> w.setJwt.sid, secret |-> session[w.setJwt.sid].token]
              BY <1>3, <1>5, <3>2, <5>1, <6>1, <6>3
            <7>4. ~(w.setJwt.exp <= session[w.setJwt.sid].rotatedAt + Grace)
              BY <7>1, <7>2, <7>3 DEF Overtaken
            <7>5. t.rotatedAt \in Nat /\ nj.exp \in Nat BY <6>3 DEF Row, Jwts
            <7>6. ~(nj.exp <= t.rotatedAt + Grace) BY <3>2, <5>1, <6>3, <7>4
            <7>7. t.rotatedAt + Grace < nj.exp BY <7>5, <7>6, PeriodsAssumption
            <7> QED BY <5>1, <7>7
          <6> QED BY <1>7, <5>1, <6>2, <6>3, NothingFacts
        <5> QED BY <5>2, <5>3
      <4> QED BY <4>1, <4>2
    <3>6. ASSUME NEW o \in Requests, Busy(req'[o]) PROVE Paired(req[o].jwt, req[o].refresh, x)'
      <4>1. req'[o] = req[o] /\ Busy(req[o]) BY <1>12, <3>6
      <4>2. Paired(req[o].jwt, req[o].refresh, x) BY <3>1, <4>1 DEF Untroubled
      <4> QED BY <1>2, <4>1, <4>2 DEF Paired
    <3>7. \A o \in Requests : Busy(req[o])' => Paired(req[o].jwt, req[o].refresh, x)'
      BY <3>6 DEF Busy
    <3>8. \A o \in Requests : req'[o].pc = "reuse" => req'[o].refresh.sid # x
      BY <1>12, <3>1 DEF Untroubled, Busy
    <3> QED BY <3>3, <3>4, <3>5, <3>7, <3>8 DEF Untroubled
  <2> QED BY <2>2, <2>3
<1> QED BY <1>13, <1>16, <1>17, <1>18, <1>19, <1>20, <1>21, <1>22 DEF Inductive

-----------------------------------------------------------------------------
(* A sign-in opens a session: nobody has a token of it. *)

LEMMA CreateSessionKeeps ==
  ASSUME Inductive, NEW q \in Requests, CreateSession(q) PROVE Inductive'
<1>1. PICK w \in Request : w = req[q] /\ Knows(w) /\ Busy(w) /\ w.pc = "create"
  BY CallFacts DEF CreateSession, Busy
<1>2. UNCHANGED <<now, account, cookies, sends, changedAt>> BY DEF CreateSession
<1>3. /\ w.setJwt = Keep /\ w.setRefresh = Keep /\ w.kind = "LOGIN" /\ w.at <= now
      /\ w.password \in 1..2 /\ (~w.overlapped => w.password = account.password)
      /\ w.role \in Roles /\ (w.role = account.role \/ w.sentAt <= changedAt)
      /\ w.browser \in Browsers
  BY <1>1 DEF Knows, Writes, SigningIn, Carries, LoginSteps
<1>4. CASE /\ req' = [req EXCEPT ![q].pc = "answer", ![q].state = "anon"]
           /\ UNCHANGED <<session, unlucky>>
  <2> DEFINE r == [w EXCEPT !.pc = "answer", !.state = "anon"]
  <2>1. Becomes(q, r) BY <1>1, <1>4 DEF Becomes
  <2>2. /\ r \in Request /\ r.pc = "answer" /\ r.state = "anon" /\ r.setJwt = Keep
        /\ r.setRefresh = Keep /\ r.at = w.at /\ SameRequest(r, w)
    BY <1>3, StepsFacts DEF Request, SameRequest
  <2> HIDE DEF r
  <2>3. Refreshing(r) /\ Writes(r) /\ SigningIn(r) /\ Answered(r)
    BY <2>2, NothingFacts DEF Refreshing, Writes, SigningIn, LoginSteps, Answered
  <2>4. ~IsJwt(r.setJwt) /\ r.at <= now /\ r.setRefresh = req[q].setRefresh /\ r.pc # "reuse"
    BY <1>1, <1>3, <2>2, NothingFacts
  <2> QED BY <1>1, <1>2, <1>4, <2>1, <2>2, <2>3, <2>4, OnStep
<1>5. ASSUME ~account.closed, NEW s \in Sids, ~session[s].there, session[s].expires = 0, Opens(q, s)
      PROVE  Inductive'
  <2>1. PICK e \in Nat, x \in Nat : e = now + Ttl /\ e # 0 /\ x = now + Access /\ Access <= x
    BY PeriodsAssumption, KnownFacts DEF Types
  <2> DEFINE v == [NoRow EXCEPT !.there = TRUE, !.expires = e,
                                !.password = w.password, !.overlapped = w.overlapped]
             j == [sid |-> s, exp |-> x, role |-> w.role]
             f == [sid |-> s, secret |-> 0]
             r == [w EXCEPT !.pc = "answer", !.state = "auth", !.setJwt = j, !.setRefresh = f]
  <2>2. session' = [session EXCEPT ![s] = v] BY <1>1, <1>5, <2>1 DEF Opens
  <2>3. Becomes(q, r) BY <1>1, <1>5, <2>1 DEF Becomes, Opens
  <2>4. /\ v \in Row /\ v.there /\ ~v.revoked /\ ~v.reused /\ v.expires = e /\ v.token = 0
        /\ v.rotatedAt = 0 /\ v.password = w.password /\ v.overlapped = w.overlapped
    BY <1>3 DEF NoRow, Row, Request
  <2>5. /\ j \in Jwts /\ IsJwt(j) /\ j.sid = s /\ j.exp = x /\ j.role = w.role
        /\ f \in Refreshes /\ IsToken(f) /\ f.sid = s /\ f.secret = 0
    BY <1>3, NothingFacts DEF Jwts, Refreshes
  <2> HIDE DEF v, j, f
  <2>6. /\ r \in Request /\ r.pc = "answer" /\ SameRequest(r, w) /\ r.at = w.at
        /\ r.state = "auth" /\ r.setJwt = j /\ r.setRefresh = f
    <3> DEFINE r1 == [w EXCEPT !.pc = "answer", !.state = "auth"]
    <3>1. r1 \in Request /\ r1.pc = "answer" /\ r1.state = "auth" /\ SameRequest(r1, w) /\ r1.at = w.at
      BY StepsFacts DEF Request, SameRequest
    <3>2. r = [r1 EXCEPT !.setJwt = j, !.setRefresh = f] OBVIOUS
    <3> HIDE DEF r1, r
    <3> QED BY <2>5, <3>1, <3>2 DEF Request, SameRequest
  <2> HIDE DEF r
  <2>7. /\ \A y \in Sids : session'[y] = IF y = s THEN v ELSE session[y]
        /\ \A p \in Requests : req'[p] = IF p = q THEN r ELSE req[p]
    BY <2>2, <2>3, KnownFacts DEF Types, Becomes
  <2>8. unlucky \subseteq unlucky' /\ unlucky' \subseteq Sids /\ unlucky' \ {s} = unlucky \ {s}
    BY <1>5, KnownFacts DEF Types, Opens
  <2>9. s \notin unlucky' => now - w.sentAt <= Half
    <3>1. now \in Nat /\ w.sentAt \in Nat BY KnownFacts DEF Types, Request
    <3>2. Slow(q, now) <=> now - w.sentAt > Half BY <1>1, <3>1, SlowIs
    <3> QED BY <1>5, <3>1, <3>2, HalfFacts DEF Opens
  <2>10. TypeOK'
    <3>1. session' \in [Sids -> Row] /\ req' \in [Requests -> Request]
      BY <2>2, <2>3, <2>4, <2>6, KnownFacts DEF Types, Becomes
    <3> QED BY <1>2, <2>8, <3>1 DEF Inductive, TypeOK
  <2>11. Types' BY <2>10, TypesHold, PTL
  <2>12. Onward
    <3>1. \A y \in Sids : session[y].token \in Nat BY KnownFacts DEF Types, Row
    <3>2. now \in Nat /\ changedAt \in Nat BY KnownFacts DEF Types
    <3> QED BY <1>2, <1>5, <2>7, <2>8, <3>1, <3>2 DEF Onward
  <2>13. Rows'
    <3>1. now \in Nat BY KnownFacts DEF Types
    <3>2. e # 0 /\ ~account'.closed BY <1>2, <1>5, <2>1
    <3> QED BY <1>2, <2>4, <2>7, <3>1, <3>2, KnownFacts DEF Rows
  <2>14. Cookies' BY <1>2, <2>11, <2>12, CookiesStay
  \* Nobody has a token of it.
  <2>15. /\ \A b \in Browsers : IsToken(cookies[b].refresh) => cookies[b].refresh.sid # s
         /\ \A p \in Requests : Busy(req[p]) =>
              /\ IsToken(req[p].refresh) => req[p].refresh.sid # s
              /\ IsToken(req[p].setRefresh) => req[p].setRefresh.sid # s
    BY <1>5, CookieFacts, CallFacts DEF Knows, Carries, TokenKnown, Issued
  <2>16. Knows(r)'
    <3>0. Carries(w) /\ account'.role \in w.lived BY <1>1, <1>2 DEF Knows, Carries
    <3>1. Carries(w)' BY <2>11, <2>12, <3>0, KnownFacts, CarriesStays
    <3>2. TokenKnown(f)' BY <2>1, <2>4, <2>5, <2>7 DEF TokenKnown, Issued
    <3>3. JwtKnown(j)'
      <4>1. \/ w.role = account.role
            \/ s \in unlucky'
            \/ x <= changedAt + Access + Half
        <5>1. now \in Nat /\ w.sentAt \in Nat /\ changedAt \in Nat BY KnownFacts DEF Types, Request
        <5> QED BY <1>3, <2>1, <2>9, <5>1, HalfFacts, PeriodsAssumption
      <4> QED BY <1>2, <2>1, <2>4, <2>5, <2>7, <4>1 DEF JwtKnown, Issued
    <3>4. Carries(r)' BY <2>5, <2>6, <3>1, <3>2, <3>3 DEF Carries, SameRequest, IsJwt, IsToken, TokenKnown, JwtKnown
    <3>5. Refreshing(r)' BY <2>6 DEF Refreshing
    <3>6. Writes(r)'
      <4>1. 0 + Access <= x BY <2>1, PeriodsAssumption
      <4> QED BY <2>4, <2>5, <2>6, <2>7, <4>1 DEF Writes
    <3>7. SigningIn(r)' BY <2>6 DEF SigningIn, LoginSteps
    <3>8. Answered(r)' BY <1>3, <2>6 DEF Answered, SameRequest, Ordinary
    <3> QED BY <3>4, <3>5, <3>6, <3>7, <3>8 DEF Knows
  <2>17. Calls'
    <3>1. \A p \in Requests \ {q} :
            Busy(req[p]) /\ IsToken(req[p].setRefresh) => SameTokens(req[p].setRefresh.sid)
      <4> SUFFICES ASSUME NEW p \in Requests, Busy(req[p]), IsToken(req[p].setRefresh)
                   PROVE  SameTokens(req[p].setRefresh.sid)
        OBVIOUS
      <4>1. req[p].setRefresh.sid \in Sids
        BY CallFacts DEF Knows, Carries, TokenKnown, Issued
      <4> QED BY <2>7, <2>15, <4>1 DEF SameTokens
    <3> QED BY <1>2, <2>3, <2>6, <2>11, <2>12, <2>16, <3>1, CallsStep
  \* The other requests bring what they brought, and q brings the first token of s.
  <2>18. ASSUME NEW p \in Requests, NEW y, Brings(p, y)'
         PROVE  /\ req'[p].browser = req[p].browser /\ req'[p].sentAt = req[p].sentAt
                /\ y # s => Brings(p, y)
                /\ y = s => p = q
    <3>1. CASE p = q
      BY <1>1, <2>5, <2>6, <2>7, <2>18, <3>1 DEF Brings, SameRequest
    <3>2. CASE p # q
      <4>1. req'[p] = req[p] BY <2>7, <3>2
      <4>2. Brings(p, y) BY <2>18, <4>1 DEF Brings
      <4>3. y # s BY <2>15, <4>2 DEF Brings
      <4> QED BY <4>1, <4>2, <4>3
    <3> QED BY <3>1, <3>2
  <2>19. OneHolder'
    <3>1. ASSUME NEW b \in Browsers, NEW y \in Sids, Holds(b, y)'
          PROVE  IF y = s THEN b = w.browser ELSE Holds(b, y)
      <4>1. CASE IsToken(cookies'[b].refresh) /\ cookies'[b].refresh.sid = y
        BY <1>2, <2>15, <4>1 DEF Holds
      <4>2. ASSUME NEW p \in Requests, req'[p].browser = b, Brings(p, y)'
            PROVE  IF y = s THEN b = w.browser ELSE Holds(b, y)
        BY <1>1, <2>18, <4>2 DEF Holds
      <4> QED BY <3>1, <4>1, <4>2 DEF Holds, IsToken
    <3> QED BY <3>1, KnownFacts DEF OneHolder
  <2>20. Unseen'
    <3> SUFFICES ASSUME NEW p \in Requests, Busy(req'[p]), IsToken(req'[p].setRefresh)
                 PROVE  /\ \A b \in Browsers :
                             IsToken(cookies[b].refresh) /\ cookies[b].refresh.sid = req'[p].setRefresh.sid
                               => cookies[b].refresh.secret < req'[p].setRefresh.secret
                        /\ \A o \in Requests : Busy(req'[o]) =>
                             /\ IsToken(req'[o].refresh) /\ req'[o].refresh.sid = req'[p].setRefresh.sid
                                  => req'[o].refresh.secret < req'[p].setRefresh.secret
                             /\ o # p /\ IsToken(req'[o].setRefresh)
                                  => req'[o].setRefresh.sid # req'[p].setRefresh.sid
      BY <1>2 DEF Unseen, Busy, IsToken
    <3>1. \A o \in Requests : Busy(req'[o]) =>
            /\ Busy(req[o]) /\ req'[o].refresh = req[o].refresh
            /\ o # q => req'[o] = req[o]
      BY <1>1, <2>6, <2>7 DEF SameRequest
    <3>2. CASE p = q
      <4>1. req'[p].setRefresh = f /\ f.sid = s BY <2>5, <2>6, <2>7, <3>2
      <4> QED BY <2>15, <3>1, <3>2, <4>1
    <3>3. CASE p # q
      <4>1. req'[p] = req[p] /\ Busy(req[p]) BY <3>1, <3>3
      <4>2. req[p].setRefresh.sid # s BY <2>15, <4>1
      <4>3. ASSUME NEW o \in Requests, Busy(req'[o])
            PROVE  /\ IsToken(req'[o].refresh) /\ req'[o].refresh.sid = req[p].setRefresh.sid
                        => req'[o].refresh.secret < req[p].setRefresh.secret
                   /\ o # p /\ IsToken(req'[o].setRefresh)
                        => req'[o].setRefresh.sid # req[p].setRefresh.sid
        <5>1. CASE o = q
          <6>1. req'[o].setRefresh.sid = s BY <2>5, <2>6, <2>7, <5>1
          <6> QED BY <3>1, <4>1, <4>2, <4>3, <6>1, KnownFacts DEF Unseen
        <5>2. CASE o # q
          <6>1. req'[o] = req[o] /\ Busy(req[o]) BY <3>1, <4>3, <5>2
          <6> QED BY <4>1, <6>1, KnownFacts DEF Unseen
        <5> QED BY <5>1, <5>2
      <4> QED BY <4>1, <4>3, KnownFacts DEF Unseen
    <3> QED BY <3>2, <3>3
  <2>21. NoFalseReuse'
    BY <2>4, <2>7, <2>8, KnownFacts DEF NoFalseReuse
  <2>22. ResetEndsSessions'
    BY <1>2, <1>3, <2>4, <2>7, KnownFacts DEF ResetEndsSessions
  <2>23. Luck'
    <3> SUFFICES ASSUME NEW y \in Sids, y \notin unlucky'
                 PROVE  Prompt(y)' /\ (Live(y)' => Untroubled(y)')
      BY DEF Luck
    <3>1. CASE y = s
      <4>1. Prompt(y)'
        <5> SUFFICES ASSUME NEW o \in Requests, Brings(o, y)' PROVE now - req'[o].sentAt <= Half
          BY <1>2 DEF Prompt
        <5> QED BY <1>1, <2>9, <2>18, <3>1
      <4>2. CookieRecent(y)' BY <1>2, <2>15, <3>1 DEF CookieRecent, IsToken
      <4>3. \A o \in Requests : Busy(req'[o]) /\ IsToken(req'[o].refresh) => req'[o].refresh.sid # s
        BY <1>1, <2>6, <2>7, <2>15 DEF SameRequest
      <4>4. RequestRecent(y)'
        BY <3>1, <4>3 DEF RequestRecent, IsToken, Busy
      <4>5. \A b \in Browsers : Paired(cookies[b].jwt, cookies[b].refresh, y)'
        BY <1>2, <2>15, <3>1 DEF Paired, IsToken, IsJwt
      <4>6. \A o \in Requests : Busy(req[o])' => Paired(req[o].jwt, req[o].refresh, y)'
        BY <3>1, <4>3 DEF Paired, IsToken, IsJwt, Busy
      <4>7. \A o \in Requests : req'[o].pc = "reuse" => req'[o].refresh.sid # y
        <5> SUFFICES ASSUME NEW o \in Requests, req'[o].pc = "reuse" PROVE req'[o].refresh.sid # s
          BY <3>1
        <5>1. o # q /\ req'[o] = req[o] BY <2>6, <2>7
        <5>2. Busy(req[o]) /\ IsToken(req[o].refresh) BY <5>1, CallFacts DEF Busy, Knows, Refreshing
        <5> QED BY <2>15, <5>1, <5>2
      <4> QED BY <4>1, <4>2, <4>4, <4>5, <4>6, <4>7 DEF Untroubled
    <3>2. CASE y # s
      <4>1. y \notin unlucky /\ session'[y] = session[y] /\ Prompt(y) /\ (Live(y) => Untroubled(y))
        BY <2>7, <2>8, <3>2, KnownFacts DEF Luck
      <4>2. Prompt(y)'
        <5> SUFFICES ASSUME NEW o \in Requests, Brings(o, y)' PROVE now - req'[o].sentAt <= Half
          BY <1>2 DEF Prompt
        <5> QED BY <2>18, <3>2, <4>1 DEF Prompt
      <4>3. ASSUME Live(y)' PROVE Untroubled(y)'
        <5>1. Untroubled(y) BY <4>1, <4>3 DEF Live
        <5>2. \A o \in Requests : Busy(req'[o]) =>
                Busy(req[o]) /\ req'[o].refresh = req[o].refresh /\ req'[o].jwt = req[o].jwt
                /\ req'[o].sentAt = req[o].sentAt
          BY <1>1, <2>6, <2>7 DEF SameRequest
        <5>3. CookieRecent(y)'
          <6> SUFFICES ASSUME NEW b \in Browsers, IsToken(cookies[b].refresh), cookies[b].refresh.sid = y,
                              cookies[b].refresh.secret < session[y].token
                       PROVE  /\ cookies[b].refresh.secret = session[y].token - 1
                              /\ \E o \in Requests : /\ Busy(req'[o]) /\ req'[o].browser = b
                                                     /\ IsToken(req'[o].setRefresh) /\ req'[o].setRefresh.sid = y
            BY <1>2, <4>1 DEF CookieRecent, IsToken, Busy
          <6>1. PICK o \in Requests : /\ Busy(req[o]) /\ req[o].browser = b
                                      /\ IsToken(req[o].setRefresh) /\ req[o].setRefresh.sid = y
            BY <5>1 DEF Untroubled, CookieRecent
          <6>2. o # q BY <1>1, <1>3, <6>1, NothingFacts
          <6>3. req'[o] = req[o] BY <2>7, <6>2
          <6> QED BY <5>1, <6>1, <6>3 DEF Untroubled, CookieRecent
        <5>4. RequestRecent(y)'
          BY <4>1, <5>1, <5>2 DEF Untroubled, RequestRecent, IsToken, Busy
        <5>5. \A b \in Browsers : Paired(cookies[b].jwt, cookies[b].refresh, y)'
          BY <1>2, <4>1, <5>1 DEF Untroubled, Paired
        <5>6. \A o \in Requests : Busy(req[o])' => Paired(req[o].jwt, req[o].refresh, y)'
          <6> SUFFICES ASSUME NEW o \in Requests, Busy(req'[o])
                       PROVE  Paired(req[o].jwt, req[o].refresh, y)'
            BY DEF Busy
          <6>1. Paired(req[o].jwt, req[o].refresh, y) BY <5>1, <5>2 DEF Untroubled
          <6> QED BY <4>1, <5>2, <6>1 DEF Paired
        <5>7. \A o \in Requests : req'[o].pc = "reuse" => req'[o].refresh.sid # y
          BY <2>6, <2>7, <5>1 DEF Untroubled
        <5> QED BY <5>3, <5>4, <5>5, <5>6, <5>7 DEF Untroubled
      <4> QED BY <4>2, <4>3
    <3> QED BY <3>1, <3>2
  <2> QED BY <2>10, <2>13, <2>14, <2>17, <2>19, <2>20, <2>21, <2>22, <2>23 DEF Inductive
<1> QED BY <1>4, <1>5 DEF CreateSession

-----------------------------------------------------------------------------
(* What happens elsewhere. *)

LEMMA OwnerStep ==
  ASSUME Inductive, TypeOK', Rows', Onward, now' = now, cookies' = cookies,
         \A s \in Sids : SameTokens(s) /\ (StaysLive(s) => Live(s)),
         \A q \in Requests : Follows(req[q], req'[q]) /\ (Busy(req'[q]) => Knows(req[q])'),
         NoFalseReuse', ResetEndsSessions'
  PROVE  Inductive'
<1>1. Types' BY TypesHold, PTL
<1>2. Cookies' BY <1>1, CookiesStay
<1>3. Quiet BY DEF Quiet
<1>4. Calls' BY DEF Calls, Busy
<1> QED BY <1>2, <1>3, <1>4, QuietHolder, QuietUnseen, QuietLuck DEF Inductive

LEMMA RoleStep ==
  ASSUME Inductive, NEW x \in Roles, ChangesRole(x), ~account.closed,
         account.edits > 0 \/ account.role = "INACTIVE",
         SessionsKeep, session' \in [Sids -> Row],
         \A s \in Sids : session'[s].reused = session[s].reused,
         UNCHANGED <<now, cookies, sends, unlucky>>
  PROVE  Inductive'
<1>1. account \in [password : 1..2, legacy : BOOLEAN, hash : 1..2, role : Roles, closed : BOOLEAN,
                   edits : 0..MaxEdits]
  BY DEF Inductive, TypeOK
<1>2. PICK n \in 0..MaxEdits : n = IF account.role = "INACTIVE" THEN account.edits ELSE account.edits - 1
  BY <1>1, PeriodsAssumption
<1>3. account' = [account EXCEPT !.role = x, !.edits = n] /\ changedAt' = now
  BY <1>2 DEF ChangesRole
<1>4. /\ account' \in [password : 1..2, legacy : BOOLEAN, hash : 1..2, role : Roles, closed : BOOLEAN,
                       edits : 0..MaxEdits]
      /\ account'.role = x /\ account'.password = account.password /\ account'.closed = account.closed
  BY <1>1, <1>3
<1>5. req' = [q \in Requests |-> IF req[q].pc = "idle" THEN req[q]
                                   ELSE [req[q] EXCEPT !.lived = @ \cup {x}]]
  BY DEF ChangesRole
<1>6. ASSUME NEW q \in Requests
      PROVE  \E r \in Request :
               /\ r = req'[q] /\ Follows(req[q], r)
               /\ Busy(r) => Knows(r) /\ x \in r.lived
  <2>1. PICK w \in Request : w = req[q] /\ (Busy(w) => Knows(w)) BY CallFacts
  <2>2. CASE ~Busy(w) BY <1>5, <2>1, <2>2 DEF Busy, Follows
  <2>3. CASE Busy(w)
    <3> DEFINE r == [w EXCEPT !.lived = @ \cup {x}]
    <3>1. r = req'[q] BY <1>5, <2>1, <2>3 DEF Busy
    <3>2. /\ r \in Request /\ r.pc = w.pc /\ SameRequest([r EXCEPT !.lived = w.lived], w)
          /\ r.lived = w.lived \cup {x} /\ r.at = w.at /\ r.state = w.state /\ r.role = w.role
          /\ r.setJwt = w.setJwt /\ r.setRefresh = w.setRefresh /\ r.password = w.password
          /\ r.browser = w.browser /\ r.kind = w.kind /\ r.jwt = w.jwt /\ r.refresh = w.refresh
          /\ r.sentAt = w.sentAt /\ r.dead = w.dead /\ r.overlapped = w.overlapped
      BY DEF Request, SameRequest
    <3> HIDE DEF r
    <3>3. Follows(w, r) BY <2>3, <3>2 DEF Follows, StillComes, Busy
    <3>4. Carries(r) BY <2>1, <2>3, <3>2 DEF Knows, Carries
    <3>5. Refreshing(r) BY <2>1, <2>3, <3>2 DEF Knows, Refreshing
    <3>6. Writes(r) BY <2>1, <2>3, <3>2 DEF Knows, Writes
    <3>7. SigningIn(r) BY <2>1, <2>3, <3>2 DEF Knows, SigningIn
    <3>8. Answered(r) BY <2>1, <2>3, <3>2 DEF Knows, Answered
    <3> QED BY <2>1, <3>1, <3>2, <3>3, <3>4, <3>5, <3>6, <3>7, <3>8 DEF Knows
  <2> QED BY <2>2, <2>3
<1>7. req' \in [Requests -> Request] BY <1>5, <1>6
<1>8. changedAt' \in 0..MaxTime BY <1>3 DEF Inductive, TypeOK
<1>9. TypeOK' BY <1>4, <1>7, <1>8 DEF Inductive, TypeOK
<1>10. Types' BY <1>9, TypesHold, PTL
<1>11. /\ Rows' /\ Onward /\ ResetEndsSessions'
       /\ \A s \in Sids : SameTokens(s) /\ (StaysLive(s) => Live(s))
  BY <1>3, <1>4, KeepFacts
<1>12. ASSUME NEW q \in Requests
       PROVE  Follows(req[q], req'[q]) /\ (Busy(req'[q]) => Knows(req[q])')
  <2>1. PICK r \in Request : /\ r = req'[q] /\ Follows(req[q], r)
                             /\ Busy(r) => Knows(r) /\ x \in r.lived
    BY <1>6
  <2>2. ASSUME Busy(r) PROVE Knows(r)'
    <3>1. Knows(r) /\ account'.role \in r.lived BY <1>4, <2>1, <2>2
    <3>2. IsToken(r.setRefresh) => SameTokens(r.setRefresh.sid)
      BY <1>11, <3>1 DEF Knows, Carries, TokenKnown, Issued
    <3> QED BY <1>4, <1>10, <1>11, <3>1, <3>2, KnownFacts, KnowsStaysOn
  <2> QED BY <2>1, <2>2
<1>13. NoFalseReuse' BY KnownFacts DEF NoFalseReuse
<1> QED BY <1>9, <1>11, <1>12, <1>13, OwnerStep

LEMMA SameSessionsKeep ==
  ASSUME Inductive, session' = session
  PROVE  SessionsKeep /\ session' \in [Sids -> Row]
BY KnownFacts DEF SessionsKeep, Types

LEMMA SetPermissionKeeps == ASSUME Inductive, SetPermission PROVE Inductive'
<1>1. PICK x \in {"FULL", "LIMITED"} \ {account.role} : ChangesRole(x) BY DEF SetPermission
<1>2. x \in Roles BY DEF Roles
<1>3. /\ ~account.closed /\ account.edits > 0
      /\ UNCHANGED <<now, session, cookies, sends, unlucky>>
  BY DEF SetPermission
<1> QED BY <1>1, <1>2, <1>3, SameSessionsKeep, RoleStep

LEMMA ReactivateKeeps == ASSUME Inductive, Reactivate PROVE Inductive'
<1>1. "FULL" \in Roles BY DEF Roles
<1>2. /\ ChangesRole("FULL") /\ ~account.closed /\ account.role = "INACTIVE"
      /\ UNCHANGED <<now, session, cookies, sends, unlucky>>
  BY DEF Reactivate
<1> QED BY <1>1, <1>2, SameSessionsKeep, RoleStep

LEMMA DeactivateKeeps == ASSUME Inductive, Deactivate PROVE Inductive'
<1>1. "INACTIVE" \in Roles BY DEF Roles
<1>2. /\ ChangesRole("INACTIVE") /\ ~account.closed /\ account.edits > 0 /\ session' = Ended(Sids)
      /\ UNCHANGED <<now, cookies, sends, unlucky>>
  BY DEF Deactivate
<1> QED BY <1>1, <1>2, EndedFacts, RoleStep

(* The account changes while the requests go on. *)
LEMMA AsideStep ==
  ASSUME Inductive, SessionsKeep, session' \in [Sids -> Row],
         \A s \in Sids : session'[s].reused = session[s].reused,
         account' \in [password : 1..2, legacy : BOOLEAN, hash : 1..2, role : Roles, closed : BOOLEAN,
                       edits : 0..MaxEdits],
         account'.role = account.role, account'.password = account.password,
         account'.closed => account.closed \/ \A s \in Sids : ~session'[s].there,
         UNCHANGED <<now, cookies, sends, req, unlucky, changedAt>>
  PROVE  Inductive'
<1>1. TypeOK' BY DEF Inductive, TypeOK
<1>2. Types' BY <1>1, TypesHold, PTL
<1>3. /\ Rows' /\ Onward /\ ResetEndsSessions'
      /\ \A s \in Sids : SameTokens(s) /\ (StaysLive(s) => Live(s))
  BY KeepFacts
<1>4. ASSUME NEW q \in Requests
      PROVE  Follows(req[q], req'[q]) /\ (Busy(req'[q]) => Knows(req[q])')
  <2>1. PICK r \in Request : r = req[q] /\ r = req'[q] /\ (Busy(r) => Knows(r)) BY CallFacts
  <2>2. ASSUME Busy(r) PROVE Knows(r)'
    <3>1. IsToken(r.setRefresh) => SameTokens(r.setRefresh.sid)
      BY <1>3, <2>1, <2>2 DEF Knows, Carries, TokenKnown, Issued
    <3> QED BY <1>2, <1>3, <2>1, <2>2, <3>1, KnownFacts, KnowsStays
  <2>3. Follows(r, r) BY DEF Follows, StillComes
  <2> QED BY <2>1, <2>2, <2>3
<1>5. NoFalseReuse' BY KnownFacts DEF NoFalseReuse
<1> QED BY <1>1, <1>3, <1>4, <1>5, OwnerStep

LEMMA EndDeviceKeeps == ASSUME Inductive, EndDevice PROVE Inductive'
<1>1. PICK s \in Sids : session' = Ended({s}) BY DEF EndDevice
<1>2. account \in [password : 1..2, legacy : BOOLEAN, hash : 1..2, role : Roles, closed : BOOLEAN,
                   edits : 0..MaxEdits]
  BY DEF Inductive, TypeOK
<1>3. PICK n \in 0..MaxEdits : account' = [account EXCEPT !.edits = n]
  BY <1>2, PeriodsAssumption DEF EndDevice
<1>4. UNCHANGED <<now, cookies, sends, req, unlucky, changedAt>> BY DEF EndDevice
<1> QED BY <1>1, <1>2, <1>3, <1>4, EndedFacts, AsideStep

LEMMA CloseAccountKeeps == ASSUME Inductive, CloseAccount PROVE Inductive'
<1>1. account \in [password : 1..2, legacy : BOOLEAN, hash : 1..2, role : Roles, closed : BOOLEAN,
                   edits : 0..MaxEdits]
  BY DEF Inductive, TypeOK
<1>2. PICK n \in 0..MaxEdits : account' = [account EXCEPT !.closed = TRUE, !.edits = n]
  <2>1. account' = [account EXCEPT !.closed = TRUE, !.edits = @ - 1] /\ account.edits > 0
    BY DEF CloseAccount
  <2>2. PICK n \in 0..MaxEdits : n = account.edits - 1 BY <1>1, <2>1, PeriodsAssumption
  <2>3. [account EXCEPT !.closed = TRUE].edits = account.edits BY <1>1
  <2>4. account' = [account EXCEPT !.closed = TRUE, !.edits = n] BY <2>1, <2>2, <2>3
  <2> QED BY Zenon, <2>4
<1>3. UNCHANGED <<now, cookies, sends, req, unlucky, changedAt>> BY DEF CloseAccount
<1>4. session \in [Sids -> Row] /\ now \in Nat BY KnownFacts DEF Types
<1>5. session' = Purged BY DEF CloseAccount
<1>6. ASSUME NEW s \in Sids
      PROVE  /\ session'[s] \in Row /\ session'[s].reused = session[s].reused
             /\ ~session'[s].there
             /\ LET old == session[s]
                    new == session'[s]
                IN
                /\ new.expires = old.expires /\ new.token = old.token /\ new.prev = old.prev
                /\ new.rotatedAt = old.rotatedAt /\ new.password = old.password
                /\ new.overlapped = old.overlapped
                /\ new.there => old.there
                /\ old.there => new.there \/ new.revoked
                /\ old.revoked => new.revoked /\ new.endedAt = old.endedAt
                /\ ~old.revoked /\ new.revoked => new.endedAt = now /\ old.expires # 0
  <2>1. CASE session[s].there
    <3>1. PICK t \in Row : t = session[s] BY <1>4
    <3>2. PICK k \in Nat : k = IF t.revoked THEN t.endedAt ELSE now BY <1>4 DEF Row
    <3>3. session'[s] = [t EXCEPT !.there = FALSE, !.revoked = TRUE, !.endedAt = k]
      <4>1. session'[s] = [t EXCEPT !.there = FALSE, !.revoked = TRUE,
                                    !.endedAt = IF t.revoked THEN @ ELSE now]
        BY Zenon, <1>5, <2>1, <3>1 DEF Purged
      <4>2. t \in Row /\ [t EXCEPT !.there = FALSE, !.revoked = TRUE].endedAt = t.endedAt BY DEF Row
      <4> QED BY <3>2, <4>1, <4>2
    <3>4. t.expires # 0 BY <2>1, <3>1, KnownFacts DEF Rows
    <3> QED BY <2>1, <3>1, <3>2, <3>3, <3>4 DEF Row
  <2>2. CASE ~session[s].there
    <3>0. session'[s] = session[s] BY Zenon, <1>5, <2>2 DEF Purged
    <3>1. PICK t \in Row : t = session[s] /\ t = session'[s] BY <1>4, <3>0
    <3> QED BY <2>2, <3>1
  <2> QED BY <2>1, <2>2
<1>7. SessionsKeep BY <1>6 DEF SessionsKeep
<1>8. /\ account' \in [password : 1..2, legacy : BOOLEAN, hash : 1..2, role : Roles, closed : BOOLEAN,
                       edits : 0..MaxEdits]
      /\ account'.role = account.role /\ account'.password = account.password
  BY <1>1, <1>2
<1>9. session' \in [Sids -> Row]
  <2>1. session' = [s \in Sids |-> session'[s]] BY Zenon, <1>5 DEF Purged
  <2> QED BY <1>6, <2>1
<1> QED BY <1>3, <1>6, <1>7, <1>8, <1>9, AsideStep

LEMMA ResetPasswordKeeps == ASSUME Inductive, ResetPassword PROVE Inductive'
<1>1. account \in [password : 1..2, legacy : BOOLEAN, hash : 1..2, role : Roles, closed : BOOLEAN,
                   edits : 0..MaxEdits]
  BY DEF Inductive, TypeOK
<1>2. account' = [account EXCEPT !.password = 2, !.hash = 2, !.legacy = FALSE, !.edits = @ - 1]
      /\ account.edits > 0
  BY Zenon DEF ResetPassword
<1>3. /\ account' \in [password : 1..2, legacy : BOOLEAN, hash : 1..2, role : Roles, closed : BOOLEAN,
                       edits : 0..MaxEdits]
      /\ account'.role = account.role /\ account'.closed = account.closed
  <2> DEFINE P == 1..2
             E == 0..MaxEdits
             A == [password : P, legacy : BOOLEAN, hash : P, role : Roles, closed : BOOLEAN, edits : E]
  <2>1. PICK o \in A : o = account BY <1>1
  <2>2. PICK n \in E : n = o.edits - 1 BY <1>2, <2>1, PeriodsAssumption
  <2>3. 2 \in P OBVIOUS
  <2> DEFINE a == [o EXCEPT !.password = 2, !.hash = 2]
             c == [a EXCEPT !.legacy = FALSE]
  <2> HIDE DEF P, E
  <2>4. a \in A /\ a.role = o.role /\ a.closed = o.closed /\ a.edits = o.edits
    BY <2>3
  <2>5. account' = [c EXCEPT !.edits = @ - 1] BY <1>2, <2>1
  <2> HIDE DEF a
  <2>6. c \in A /\ c.role = o.role /\ c.closed = o.closed /\ c.edits = o.edits BY <2>4
  <2> HIDE DEF c
  <2>7. account' = [c EXCEPT !.edits = n] BY <2>2, <2>5, <2>6
  <2>8. account' \in A /\ account'.role = account.role /\ account'.closed = account.closed
    BY <2>1, <2>6, <2>7
  <2> QED BY <2>8 DEF P, E
<1>4. UNCHANGED <<now, cookies, sends, unlucky, changedAt>> /\ session' = Ended(Sids)
  BY DEF ResetPassword
<1>5. /\ session' \in [Sids -> Row] /\ SessionsKeep
      /\ \A s \in Sids : session'[s].reused = session[s].reused
      /\ \A s \in Sids : ~StaysLive(s)
  BY <1>4, EndedFacts
<1>6. req' = [q \in Requests |-> IF req[q].pc \in LoginSteps
                                   THEN [req[q] EXCEPT !.overlapped = TRUE] ELSE req[q]]
  BY DEF ResetPassword
<1>7. ASSUME NEW q \in Requests
      PROVE  \E r \in Request :
               /\ r = req'[q] /\ Follows(req[q], r)
               /\ Busy(r) => Knows(r) /\ (r.overlapped \/ r.pc \notin LoginSteps)
  <2>1. PICK w \in Request : w = req[q] /\ (Busy(w) => Knows(w)) BY CallFacts
  <2>2. CASE w.pc \notin LoginSteps
    <3>1. req'[q] = w BY <1>6, <2>1, <2>2
    <3>2. Follows(w, w) BY DEF Follows, StillComes
    <3> QED BY <2>1, <2>2, <3>1, <3>2
  <2>3. CASE w.pc \in LoginSteps
    <3>0. Busy(w) BY <2>3 DEF Busy, LoginSteps
    <3> DEFINE r == [w EXCEPT !.overlapped = TRUE]
    <3>1. r = req'[q] BY <1>6, <2>1, <2>3
    <3>2. /\ r \in Request /\ r.pc = w.pc /\ r.overlapped
          /\ r.lived = w.lived /\ r.at = w.at /\ r.state = w.state /\ r.role = w.role
          /\ r.setJwt = w.setJwt /\ r.setRefresh = w.setRefresh /\ r.password = w.password
          /\ r.browser = w.browser /\ r.kind = w.kind /\ r.jwt = w.jwt /\ r.refresh = w.refresh
          /\ r.sentAt = w.sentAt /\ r.dead = w.dead
      BY DEF Request
    <3> HIDE DEF r
    <3>3. Follows(w, r) BY <3>0, <3>2 DEF Follows, StillComes, Busy
    <3>4. Carries(r) BY <2>1, <3>0, <3>2 DEF Knows, Carries
    <3>5. Refreshing(r) BY <2>1, <3>0, <3>2 DEF Knows, Refreshing
    <3>6. Writes(r) BY <2>1, <3>0, <3>2 DEF Knows, Writes
    <3>7. SigningIn(r) BY <2>1, <3>0, <3>2 DEF Knows, SigningIn
    <3>8. Answered(r) BY <2>1, <3>0, <3>2 DEF Knows, Answered
    <3> QED BY <2>1, <3>1, <3>2, <3>3, <3>4, <3>5, <3>6, <3>7, <3>8 DEF Knows
  <2> QED BY <2>2, <2>3
<1>8. req' \in [Requests -> Request] BY <1>6, <1>7
<1>9. TypeOK' BY <1>3, <1>4, <1>5, <1>8 DEF Inductive, TypeOK
<1>10. Types' BY <1>9, TypesHold, PTL
<1>11. /\ Rows' /\ Onward
       /\ \A s \in Sids : SameTokens(s) /\ (StaysLive(s) => Live(s))
  BY <1>3, <1>4, <1>5, KeepFacts
<1>12. ResetEndsSessions' BY <1>5 DEF ResetEndsSessions, StaysLive
<1>13. ASSUME NEW q \in Requests
       PROVE  Follows(req[q], req'[q]) /\ (Busy(req'[q]) => Knows(req[q])')
  <2>1. PICK r \in Request : /\ r = req'[q] /\ Follows(req[q], r)
                             /\ Busy(r) => Knows(r) /\ (r.overlapped \/ r.pc \notin LoginSteps)
    BY <1>7
  <2>2. ASSUME Busy(r) PROVE Knows(r)'
    <3>1. Knows(r) /\ account'.role \in r.lived BY <1>3, <2>1, <2>2 DEF Knows, Carries
    <3>2. IsToken(r.setRefresh) => SameTokens(r.setRefresh.sid)
      BY <1>11, <3>1 DEF Knows, Carries, TokenKnown, Issued
    <3> QED BY <1>10, <1>11, <2>1, <2>2, <3>1, <3>2, KnownFacts, KnowsStaysOn
  <2> QED BY <2>1, <2>2
<1>14. NoFalseReuse' BY <1>4, <1>5, KnownFacts DEF NoFalseReuse
<1> QED BY <1>4, <1>9, <1>11, <1>12, <1>13, <1>14, OwnerStep

-----------------------------------------------------------------------------
(* The clock, and the start. *)

LEMMA TickKeeps == ASSUME Inductive, Tick PROVE Inductive'
<1>1. /\ now' = now + 1 /\ now < MaxTime
      /\ UNCHANGED <<sends, session, account, cookies, req, changedAt>>
      /\ unlucky \subseteq unlucky'
  BY DEF Tick
<1>2. \A x \in Sids : x \notin unlucky' => \A q \in Requests :
        ~(/\ req[q].pc # "idle"
          /\ Slow(q, now + 1)
          /\ \/ req[q].refresh # None /\ req[q].refresh.sid = x
             \/ req[q].setRefresh \notin {Keep, Clear} /\ req[q].setRefresh.sid = x)
  BY DEF Tick
<1>3. unlucky' \subseteq Sids BY KnownFacts DEF Tick, Types
<1>4. TypeOK' BY <1>1, <1>3, PeriodsAssumption DEF Inductive, TypeOK
<1>5. Types' BY <1>4, TypesHold, PTL
<1>6. now \in Nat /\ changedAt \in Nat /\ session \in [Sids -> Row] BY KnownFacts DEF Types
<1>7. Onward BY <1>1, <1>6 DEF Onward, Row
<1>8. Rows'
  <2>1. \A s \in Sids : session[s].rotatedAt \in Nat BY <1>6 DEF Row
  <2> QED BY <1>1, <1>6, <2>1, KnownFacts DEF Rows
<1>9. Cookies' BY <1>1, <1>5, <1>7, CookiesStay
<1>10. Calls'
  <2> SUFFICES ASSUME NEW q \in Requests, Busy(req'[q]) PROVE Knows(req[q])'
    BY DEF Calls, Busy
  <2>1. PICK r \in Request : r = req[q] /\ r = req'[q] /\ Knows(r) BY <1>1, CallFacts
  <2>2. SameTokens(r.setRefresh.sid) BY <1>1 DEF SameTokens
  <2> QED BY <1>1, <1>5, <1>7, <2>1, <2>2, KnownFacts, KnowsStays
<1>11. OneHolder' BY <1>1, KnownFacts DEF OneHolder, Holds, Brings, Busy, IsToken
<1>12. Unseen' BY <1>1, KnownFacts DEF Unseen, Busy, IsToken
<1>13. NoFalseReuse' /\ ResetEndsSessions' BY <1>1, KnownFacts DEF NoFalseReuse, ResetEndsSessions
<1>14. Luck'
  <2> SUFFICES ASSUME NEW x \in Sids, x \notin unlucky'
               PROVE  Prompt(x)' /\ (Live(x)' => Untroubled(x)')
    BY DEF Luck
  <2>1. Live(x) => Untroubled(x) BY <1>1, KnownFacts DEF Luck
  <2>2. Prompt(x)'
    <3>0. PICK t \in Nat : t = now + 1 BY <1>6
    <3> SUFFICES ASSUME NEW q \in Requests, Brings(q, x)' PROVE t - req[q].sentAt <= Half
      BY <1>1, <3>0 DEF Prompt
    <3>1. Brings(q, x) BY <1>1 DEF Brings, Busy, IsToken
    <3>2. ~Slow(q, t) BY <1>2, <3>0, <3>1 DEF Brings, Busy, IsToken
    <3>3. req[q].sentAt \in Nat BY CallFacts DEF Request
    <3>4. ~(t - req[q].sentAt > Half) BY <3>2, <3>3, SlowIs
    <3> QED BY <3>3, <3>4, HalfFacts
  <2>3. ASSUME Live(x)' PROVE Untroubled(x)'
    <3>1. Untroubled(x) BY <1>1, <2>1, <2>3 DEF Live
    <3>2. CookieRecent(x)' BY <1>1, <3>1 DEF Untroubled, CookieRecent, IsToken, Busy
    <3>3. RequestRecent(x)' BY <1>1, <3>1 DEF Untroubled, RequestRecent, IsToken, Busy
    <3>4. \A b \in Browsers : Paired(cookies[b].jwt, cookies[b].refresh, x)'
      BY <1>1, <3>1 DEF Untroubled, Paired, IsToken, IsJwt
    <3>5. \A q \in Requests : Busy(req[q])' => Paired(req[q].jwt, req[q].refresh, x)'
      BY <1>1, <3>1 DEF Untroubled, Paired, IsToken, IsJwt, Busy
    <3>6. \A q \in Requests : req'[q].pc = "reuse" => req'[q].refresh.sid # x
      BY <1>1, <3>1 DEF Untroubled
    <3> QED BY <3>2, <3>3, <3>4, <3>5, <3>6 DEF Untroubled
  <2> QED BY <2>2, <2>3
<1> QED BY <1>4, <1>8, <1>9, <1>10, <1>11, <1>12, <1>13, <1>14 DEF Inductive

LEMMA StillKeeps == ASSUME Inductive, UNCHANGED vars PROVE Inductive'
<1>1. UNCHANGED <<now, session, account, cookies, req, sends, unlucky, changedAt>> BY DEF vars
<1>2. account \in [password : 1..2, legacy : BOOLEAN, hash : 1..2, role : Roles, closed : BOOLEAN,
                   edits : 0..MaxEdits]
  BY DEF Inductive, TypeOK
<1>3. \A s \in Sids : account'.closed => account.closed BY <1>1
<1> QED BY <1>1, <1>2, SameSessionsKeep, AsideStep

LEMMA InitInductive == ASSUME Init PROVE Inductive
<1>1. /\ now = 0 /\ changedAt = 0 /\ sends = 0 /\ unlucky = {}
      /\ account = [password |-> 1, legacy |-> TRUE, hash |-> 1, role |-> "FULL", closed |-> FALSE,
                    edits |-> MaxEdits]
      /\ req = [q \in Requests |-> NoRequest]
  BY DEF Init
<1>2. \A s \in Sids :
        /\ session[s] \in Row
        /\ session[s].there <=> s \in SignedIn
        /\ ~session[s].revoked /\ ~session[s].reused /\ session[s].token = 0 /\ session[s].rotatedAt = 0
        /\ session[s].expires # 0 <=> s \in SignedIn
        /\ s \in SignedIn => session[s].password = 1
  <2>1. Ttl \in Nat /\ Ttl # 0 /\ 1 \in 0..2 BY PeriodsAssumption
  <2> DEFINE first == [NoRow EXCEPT !.there = TRUE, !.expires = Ttl, !.password = 1]
  <2>2. session = [x \in Sids |-> IF x \in SignedIn THEN first ELSE NoRow] BY Zenon DEF Init
  <2>3. /\ first \in Row /\ first.there /\ ~first.revoked /\ ~first.reused /\ first.token = 0
        /\ first.rotatedAt = 0 /\ first.expires = Ttl /\ first.password = 1
    BY <2>1 DEF NoRow, Row
  <2>4. /\ NoRow \in Row /\ ~NoRow.there /\ ~NoRow.revoked /\ ~NoRow.reused /\ NoRow.token = 0
        /\ NoRow.rotatedAt = 0 /\ NoRow.expires = 0
    BY DEF NoRow, Row
  <2> HIDE DEF first
  <2> QED BY <2>1, <2>2, <2>3, <2>4
<1>3. session \in [Sids -> Row] BY <1>2 DEF Init
<1>4. ASSUME NEW b \in Browsers
      PROVE  \E j \in Jwts \cup {None}, f \in Refreshes \cup {None} :
               /\ j = cookies[b].jwt /\ f = cookies[b].refresh /\ cookies[b] = [jwt |-> j, refresh |-> f]
               /\ \/ /\ b \in SignedIn /\ b \in Sids /\ j \in Jwts /\ f \in Refreshes
                     /\ j.sid = b /\ j.exp = Access /\ j.role = "FULL"
                     /\ f.sid = b /\ f.secret = 0
                  \/ j = None /\ f = None
  <2>1. cookies[b] = IF b \in SignedIn THEN [jwt |-> [sid |-> b, exp |-> Access, role |-> "FULL"],
                                             refresh |-> [sid |-> b, secret |-> 0]]
                                       ELSE [jwt |-> None, refresh |-> None]
    BY DEF Init
  <2>2. CASE b \in SignedIn
    <3> DEFINE j == [sid |-> b, exp |-> Access, role |-> "FULL"]
               f == [sid |-> b, secret |-> 0]
    <3>1. /\ b \in Sids /\ j \in Jwts /\ f \in Refreshes
          /\ j.sid = b /\ j.exp = Access /\ j.role = "FULL" /\ f.sid = b /\ f.secret = 0
      BY <2>2, SignedInAssumption, PeriodsAssumption DEF Jwts, Refreshes, Roles
    <3>2. cookies[b] = [jwt |-> j, refresh |-> f] BY <2>1, <2>2
    <3> HIDE DEF j, f
    <3>3. j = cookies[b].jwt /\ f = cookies[b].refresh BY <3>2
    <3> QED BY <2>2, <3>1, <3>2, <3>3
  <2>3. CASE b \notin SignedIn BY <2>1, <2>3
  <2> QED BY <2>2, <2>3
<1>5. cookies \in [Browsers -> [jwt : Jwts \cup {None}, refresh : Refreshes \cup {None}]]
  <2>1. ASSUME NEW b \in Browsers
        PROVE  cookies[b] \in [jwt : Jwts \cup {None}, refresh : Refreshes \cup {None}]
    <3>1. PICK j \in Jwts \cup {None}, f \in Refreshes \cup {None} : cookies[b] = [jwt |-> j, refresh |-> f]
      BY <1>4
    <3> QED BY <3>1
  <2>2. cookies = [b \in Browsers |-> cookies[b]] BY DEF Init
  <2> QED BY <2>1, <2>2
<1>6. \A q \in Requests : req[q] = NoRequest /\ ~Busy(req[q]) BY <1>1, NoRequestFacts
<1>7. TypeOK
  <2>1. req \in [Requests -> Request] BY <1>1, NoRequestFacts
  <2>2. account \in [password : 1..2, legacy : BOOLEAN, hash : 1..2, role : Roles, closed : BOOLEAN,
                     edits : 0..MaxEdits]
    BY <1>1, PeriodsAssumption DEF Roles
  <2> QED BY <1>1, <1>3, <1>5, <2>1, <2>2, PeriodsAssumption DEF TypeOK
<1>8. Rows BY <1>1, <1>2, PeriodsAssumption DEF Rows
<1>9. Cookies
  <2> SUFFICES ASSUME NEW b \in Browsers
               PROVE  /\ IsJwt(cookies[b].jwt) => JwtKnown(cookies[b].jwt)
                      /\ IsToken(cookies[b].refresh) => TokenKnown(cookies[b].refresh)
    BY DEF Cookies
  <2>1. PICK j \in Jwts \cup {None}, f \in Refreshes \cup {None} :
          /\ j = cookies[b].jwt /\ f = cookies[b].refresh
          /\ \/ /\ b \in SignedIn /\ b \in Sids /\ j \in Jwts /\ f \in Refreshes
                /\ j.sid = b /\ j.exp = Access /\ j.role = "FULL"
                /\ f.sid = b /\ f.secret = 0
             \/ j = None /\ f = None
    BY <1>4
  <2>2. IsJwt(j) => JwtKnown(j)
    BY <1>1, <1>2, <2>1, PeriodsAssumption, NothingFacts DEF JwtKnown, Issued
  <2>3. IsToken(f) => TokenKnown(f) BY <1>2, <2>1, NothingFacts DEF TokenKnown, Issued
  <2> QED BY <2>1, <2>2, <2>3
<1>10. Calls /\ Unseen BY <1>6 DEF Calls, Unseen
<1>11. OneHolder
  <2>1. \A q \in Requests, s \in Sids : ~Brings(q, s) BY <1>6 DEF Brings
  <2>2. ASSUME NEW b \in Browsers, NEW s \in Sids, Holds(b, s) PROVE b = s
    <3>1. IsToken(cookies[b].refresh) /\ cookies[b].refresh.sid = s BY <2>1, <2>2 DEF Holds
    <3>2. cookies[b].refresh = None \/ cookies[b].refresh.sid = b BY <1>4
    <3> QED BY <3>1, <3>2, NothingFacts
  <2> QED BY <2>2 DEF OneHolder
<1>12. Luck
  <2> SUFFICES ASSUME NEW s \in Sids PROVE Prompt(s) /\ Untroubled(s) BY DEF Luck
  <2>1. Prompt(s) BY <1>6 DEF Prompt, Brings
  <2>2. CookieRecent(s)
    <3> SUFFICES ASSUME NEW b \in Browsers, IsToken(cookies[b].refresh), cookies[b].refresh.secret < 0
                 PROVE  FALSE
      BY <1>2 DEF CookieRecent
    <3>1. cookies[b].refresh = None \/ cookies[b].refresh.secret = 0 BY <1>4
    <3> QED BY <3>1, NothingFacts
  <2>3. RequestRecent(s) BY <1>6 DEF RequestRecent
  <2>4. \A b \in Browsers : Paired(cookies[b].jwt, cookies[b].refresh, s)
    <3> SUFFICES ASSUME NEW b \in Browsers, IsJwt(cookies[b].jwt) PROVE 0 + Grace < cookies[b].jwt.exp
      BY <1>2 DEF Paired
    <3>1. cookies[b].jwt = None \/ cookies[b].jwt.exp = Access BY <1>4
    <3> QED BY <3>1, PeriodsAssumption, NothingFacts
  <2>5. \A q \in Requests : req[q].pc # "reuse" BY <1>6 DEF NoRequest
  <2> QED BY <1>6, <2>1, <2>2, <2>3, <2>4, <2>5 DEF Untroubled
<1>13. NoFalseReuse BY <1>2 DEF NoFalseReuse
<1>14. ResetEndsSessions BY <1>1, <1>2 DEF ResetEndsSessions
<1> QED BY <1>7, <1>8, <1>9, <1>10, <1>11, <1>12, <1>13, <1>14 DEF Inductive

-----------------------------------------------------------------------------
(* The theorems. *)

\* Whatever requests, answers and changes of the account interleave: every token in
\* circulation was issued by its row, every handler knows what it has found out, and of a
\* session without bad luck the newest token is where the browser will find it.
THEOREM SessionsInvariant == Spec => []Inductive
<1>1. ASSUME Inductive, [Next]_vars PROVE Inductive'
  <2>1. ASSUME NEW q \in Requests, NEW b \in Browsers, NEW k \in Kinds, Send(q, b, k) PROVE Inductive'
    BY <1>1, <2>1, SendKeeps
  <2>2. ASSUME NEW q \in Requests, Server(q) PROVE Inductive'
    BY <1>1, <2>2, ProxyKeeps, RotateKeeps, SelectKeeps, ReuseKeeps, RecheckAliveKeeps,
       PrincipalKeeps, EndOthersKeeps, SignOutKeeps, VerifyKeeps, RehashKeeps, EstablishKeeps,
       CreateSessionKeeps
    DEF Server
  <2>3. ASSUME NEW q \in Requests, Fail(q) \/ Deliver(q) \/ Lose(q) PROVE Inductive'
    BY <1>1, <2>3, FailKeeps, DeliverKeeps, LoseKeeps
  <2>4. CASE SetPermission \/ EndDevice \/ Deactivate \/ Reactivate \/ ResetPassword \/ CloseAccount
    BY <1>1, <2>4, SetPermissionKeeps, EndDeviceKeeps, DeactivateKeeps, ReactivateKeeps,
       ResetPasswordKeeps, CloseAccountKeeps
  <2>5. CASE Tick BY <1>1, <2>5, TickKeeps
  <2>6. CASE Finished \/ UNCHANGED vars BY <1>1, <2>6, StillKeeps DEF Finished
  <2> QED BY <1>1, <2>1, <2>2, <2>3, <2>4, <2>5, <2>6 DEF Next
<1> QED BY <1>1, InitInductive, PTL DEF Spec

\* Every variable keeps its type.
THEOREM SessionTypes == Spec => []TypeOK
<1>1. Inductive => TypeOK BY DEF Inductive
<1> QED BY <1>1, SessionsInvariant, PTL

\* A request passes as signed in only by a session and a member row that hold, or held
\* until no more than the access time ago (isSessionAlive, rotateSession, refreshSession).
THEOREM Answers == Spec => []AnsweredByWhatHolds
<1>1. ASSUME Inductive PROVE AnsweredByWhatHolds
  <2> SUFFICES ASSUME NEW q \in Requests, Passed(q)
               PROVE  /\ req[q].dead =>
                           /\ req[q].kind = "PAGE"
                           /\ req[q].at < session[req[q].jwt.sid].endedAt + Access
                      /\ \/ req[q].role \in req[q].lived
                         \/ /\ req[q].kind = "PAGE"
                            /\ \/ req[q].jwt.sid \in unlucky
                               \/ req[q].at < changedAt + Access + Grace \div 2
    BY DEF AnsweredByWhatHolds
  <2>1. PICK r \in Request : r = req[q] /\ Knows(r) /\ r.pc = "answer" /\ r.state = "auth"
                             /\ r.kind \in Ordinary
    BY <1>1, CallFacts DEF Passed, Busy, Ordinary
  <2>2. r.dead => r.kind = "PAGE" /\ r.at < session[r.jwt.sid].endedAt + Access
    <3> SUFFICES ASSUME r.dead PROVE r.kind = "PAGE" /\ r.at < session[r.jwt.sid].endedAt + Access
      OBVIOUS
    <3>1. /\ IsJwt(r.jwt) /\ session[r.jwt.sid].revoked /\ JwtKnown(r.jwt)
          /\ r.kind = "PAGE" /\ r.at < r.jwt.exp
      BY <2>1 DEF Knows, Carries, Answered
    <3>2. r.jwt \in Jwts BY <3>1, NothingFacts DEF Request
    <3>3. session[r.jwt.sid].endedAt \in Nat /\ r.jwt.exp \in Nat /\ r.at \in Nat
      BY <1>1, <3>2, KnownFacts DEF Types, Row, Jwts, Request
    <3> QED BY <3>1, <3>3, PeriodsAssumption DEF JwtKnown
  <2>3. \/ r.role \in r.lived
        \/ /\ r.kind = "PAGE"
           /\ r.jwt.sid \in unlucky \/ r.at < changedAt + Access + Half
    BY <2>1 DEF Knows, Answered
  <2> QED BY <2>1, <2>2, <2>3 DEF Half
<1> QED BY <1>1, SessionsInvariant, PTL

\* No session is revoked as stolen unless an answer of it was lost, a request of it was
\* slow or a rotation was overtaken: the grace of rotateSession is enough for everything else.
THEOREM NoFalseTheft == Spec => []NoFalseReuse
<1>1. Inductive => NoFalseReuse BY DEF Inductive
<1> QED BY <1>1, SessionsInvariant, PTL

\* confirmPasswordReset leaves no session of the old password, but for sign-ins under way.
THEOREM ResetEnds == Spec => []ResetEndsSessions
<1>1. Inductive => ResetEndsSessions BY DEF Inductive
<1> QED BY <1>1, SessionsInvariant, PTL
=============================================================================
