----------------------------- MODULE Onboarding -----------------------------
(***************************************************************************)
(* A business from its application to the end: the sign-up of             *)
(* src/features/auth/business-signup.ts with the codes of tokens.ts, the   *)
(* nightly purge of applications nobody verified, and the operator's       *)
(* decisions and status changes of src/features/admin/businesses.ts.       *)
(*                                                                         *)
(* Every call is a process that takes one step per statement sent outside  *)
(* a transaction.  A transaction whose first write locks the row it        *)
(* decides on is one step; a transaction that reads before it locks takes  *)
(* the read as a step of its own.                                          *)
(*                                                                         *)
(* Not here: the quota of applications per address (all requests are       *)
(* below it), the sessions that a status change ends (module Sessions),    *)
(* members other than the owner (module Members), the mails.               *)
(* Bounds: MaxStarts calls, MaxTokens codes, the ids of the tables.        *)
(***************************************************************************)
EXTENDS Integers, FiniteSets

CONSTANTS
  Bizs,        \* ids of businesses
  Users,       \* ids of users
  Emails,      \* addresses people apply with
  Regs,        \* business registration numbers
  Resvs,       \* ids of reservations
  Procs,       \* calls that can be in progress at once
  None,        \* no row
  MaxAttempts, \* OTP_MAX_ATTEMPTS
  MaxTokens,   \* bound: rows of auth_tokens
  MaxStarts,   \* bound: calls
  Kinds        \* the calls that are made, a subset of AllKinds

AllKinds == {"APPLY", "RESEND", "VERIFY", "DECIDE", "STATUS", "BOOK"}

ASSUME BoundsAssumption ==
  MaxAttempts \in Nat \ {0} /\ MaxTokens \in Nat /\ MaxStarts \in Nat /\ Kinds \subseteq AllKinds

\* There is somebody to apply, and None is no id.
ASSUME IdsAssumption ==
  /\ Bizs # {} /\ Users # {} /\ Emails # {} /\ Regs # {}
  /\ None \notin Bizs /\ None \notin Users

VARIABLES
  biz,      \* businesses with the owner's membership
  user,     \* users
  token,    \* EMAIL_OTP rows of auth_tokens; their number is their order of creation
  resv,     \* reservations, as far as a status change sees them
  proc,     \* calls in progress
  cleanup,  \* the nightly job
  starts,   \* calls made so far
  compared, \* history: comparisons of each code
  blocks    \* history: businesses whose change to BLOCKED was committed

vars == <<biz, user, token, resv, proc, cleanup, starts, compared, blocks>>

Tokens == 1 .. MaxTokens
Statuses == {"PENDING", "APPROVED", "REJECTED", "SUSPENDED", "BLOCKED"}
Operated == {"APPROVED", "SUSPENDED", "BLOCKED"}

NoBiz == [there |-> FALSE, status |-> "PENDING", verified |-> FALSE, owner |-> None, reg |-> None,
          spent |-> FALSE, old |-> FALSE, withAccount |-> FALSE, logged |-> FALSE]
NoUser == [there |-> FALSE, spent |-> FALSE, email |-> None]
NoToken == [there |-> FALSE, user |-> None, used |-> FALSE, expired |-> FALSE, attempts |-> 0]
NoResv == [biz |-> None, status |-> "NONE"]

NoProc == [pc |-> "idle", kind |-> "APPLY", email |-> None, reg |-> None, biz |-> None, user |-> None,
           dup |-> None, attach |-> None, purge |-> {}, token |-> 0, read |-> 0,
           status |-> "PENDING", to |-> "APPROVED", cancel |-> FALSE, listed |-> {}, left |-> {}]

PCs == {"idle", "dup", "mail", "member", "create", "reapply", "retire", "insert", "target", "owner",
        "live", "claim", "decideRead", "decide", "statusRead", "list", "commit", "cancel", "audit",
        "done", "refused", "bookRead", "book"}

-----------------------------------------------------------------------------
(* Queries *)

WithReg(g) == {b \in Bizs : biz[b].there /\ biz[b].reg = g}
WithEmail(e) == {u \in Users : user[u].there /\ user[u].email = e}
OwnedBy(u) == {b \in Bizs : biz[b].there /\ biz[b].owner = u}

\* limit(1): one of the rows, None when there is none.
One(rows) == IF rows = {} THEN {None} ELSE rows

\* unverifiedOwner: an owner by address, with an unverified business.
UnverifiedOwner(e) == {b \in Bizs : biz[b].there /\ ~biz[b].verified /\ biz[b].owner \in WithEmail(e)}

LiveCodes(u) == {t \in Tokens : token[t].there /\ token[t].user = u /\ ~token[t].used}

LiveReservations(b) == {r \in Resvs : resv[r].biz = b /\ resv[r].status = "LIVE"}

-----------------------------------------------------------------------------
(* purgeBusiness, for a set of businesses in one transaction.  It fails when *)
(* the audit log still refers to one.  An account made with the application  *)
(* goes with it (isPreexistingAccount is the negation of withAccount); its    *)
(* codes stay, used and without a user.                                      *)

Purgeable(bs) == \A b \in bs : ~biz[b].logged

GoneUsers(bs) ==
  {u \in Users : \E b \in bs : /\ biz[b].there /\ biz[b].owner = u /\ biz[b].withAccount
                               /\ OwnedBy(u) \subseteq bs}

BizAfterPurge(bs) == [b \in Bizs |-> IF b \in bs THEN [NoBiz EXCEPT !.spent = TRUE] ELSE biz[b]]
UserAfterPurge(bs) ==
  [u \in Users |-> IF u \in GoneUsers(bs) THEN [NoUser EXCEPT !.spent = TRUE] ELSE user[u]]
TokenAfterPurge(bs) ==
  [t \in Tokens |-> IF token[t].there /\ token[t].user \in GoneUsers(bs)
                      THEN [token[t] EXCEPT !.user = None, !.used = TRUE] ELSE token[t]]

-----------------------------------------------------------------------------
(* Calls *)

Goto(p, pc) == proc' = [proc EXCEPT ![p].pc = pc]
End(p) == proc' = [proc EXCEPT ![p] = NoProc]

\* The operator's calls stop in a state of their own, so that their answer can be seen.
Refuse(p) == Goto(p, "refused")

Start(p, k, r) ==
  /\ proc[p].pc = "idle"
  /\ k \in Kinds
  /\ starts < MaxStarts
  /\ starts' = starts + 1
  /\ proc' = [proc EXCEPT ![p] = r]
  /\ UNCHANGED <<biz, user, token, resv, cleanup, compared, blocks>>

StartApply(p) == \E e \in Emails, g \in Regs :
  Start(p, "APPLY", [NoProc EXCEPT !.pc = "dup", !.email = e, !.reg = g])
StartResend(p) == \E e \in Emails :
  Start(p, "RESEND", [NoProc EXCEPT !.pc = "target", !.kind = "RESEND", !.email = e])
StartVerify(p) == \E e \in Emails :
  Start(p, "VERIFY", [NoProc EXCEPT !.pc = "owner", !.kind = "VERIFY", !.email = e])
StartDecide(p) == \E b \in Bizs, to \in {"APPROVED", "REJECTED"} :
  /\ biz[b].there
  /\ Start(p, "DECIDE", [NoProc EXCEPT !.pc = "decideRead", !.kind = "DECIDE", !.biz = b, !.to = to])
StartStatus(p) == \E b \in Bizs, to \in Operated, c \in BOOLEAN :
  /\ biz[b].there
  /\ c => to = "BLOCKED"      \* statusSchema
  /\ Start(p, "STATUS", [NoProc EXCEPT !.pc = "statusRead", !.kind = "STATUS", !.biz = b,
                                       !.to = to, !.cancel = c])
StartBook(p) == \E b \in Bizs :
  /\ biz[b].there
  /\ Start(p, "BOOK", [NoProc EXCEPT !.pc = "bookRead", !.kind = "BOOK", !.biz = b])

-----------------------------------------------------------------------------
(* applyBusiness *)

\* The business with this registration number, as it is now.
ReadDup(p) ==
  /\ proc[p].pc = "dup"
  /\ \E d \in One(WithReg(proc[p].reg)) :
       proc' = [proc EXCEPT ![p].dup = d, ![p].pc = "mail",
                  ![p].status = IF d = None THEN "PENDING" ELSE biz[d].status,
                  ![p].read = IF d # None /\ biz[d].verified THEN 1 ELSE 0]
  /\ UNCHANGED <<biz, user, token, resv, cleanup, starts, compared, blocks>>

\* The account with this address.  A rejected application is taken up again by its
\* owner only; any other verified business keeps its number.  assertIdentity may
\* refuse: a wrong password, or a back-off.
ReadEmail(p) ==
  LET r == proc[p]
      dupVerified == r.dup # None /\ r.read = 1
  IN
  /\ r.pc = "mail"
  /\ \E u \in One(WithEmail(r.email)) :
       IF dupVerified
         THEN \/ /\ r.status = "REJECTED" /\ u # None /\ r.dup \in OwnedBy(u)
                 /\ proc' = [proc EXCEPT ![p].user = u, ![p].pc = "reapply"]
              \/ End(p)
         ELSE proc' = [proc EXCEPT ![p].user = u, ![p].pc = IF u = None THEN "create" ELSE "member"]
  /\ UNCHANGED <<biz, user, token, resv, cleanup, starts, compared, blocks>>

\* The membership of that account.  An unverified application of its own is put aside;
\* an account older than its application keeps its place after assertIdentity.
ReadMember(p) ==
  LET r == proc[p]
      mine == OwnedBy(r.user)
      attaches == \A m \in mine : ~biz[m].withAccount
      member == \E m \in mine : biz[m].verified
  IN
  /\ r.pc = "member"
  /\ \/ /\ ~member
        /\ proc' = [proc EXCEPT ![p].pc = "create", ![p].purge = mine \ {r.dup},
                               ![p].attach = IF attaches THEN r.user ELSE None]
     \/ /\ member \/ attaches
        /\ End(p)
  /\ UNCHANGED <<biz, user, token, resv, cleanup, starts, compared, blocks>>

(* Mutant: the account's membership is not read again under its lock. *)
FreeToAttachUnlocked(u, purged) == user[u].there

\* The account row is locked and its membership read again.
FreeToAttach(u, purged) == user[u].there /\ OwnedBy(u) \subseteq purged

\* The transaction: what is in the way goes, then the account when it is new, the
\* business and the membership.  An audit row of a purged business, a number or an
\* address taken meanwhile abort it.
Create(p) ==
  LET r == proc[p]
      purged == {b \in r.purge \cup ({r.dup} \ {None}) : biz[b].there}
      users == UserAfterPurge(purged)
      feasible(b) ==
        /\ Purgeable(purged)
        /\ WithReg(r.reg) \subseteq purged
        /\ ~biz[b].spent
        /\ IF r.attach # None
             THEN FreeToAttach(r.attach, purged)
             ELSE \A u \in Users : users[u].email # r.email
      owners == IF r.attach # None THEN {r.attach} ELSE {u \in Users : ~user[u].spent}
      row(u) == [NoBiz EXCEPT !.there = TRUE, !.spent = TRUE, !.owner = u, !.reg = r.reg, !.withAccount = r.attach = None]
  IN
  /\ r.pc = "create"
  /\ \/ \E b \in Bizs, u \in owners :
          /\ feasible(b)
          /\ biz' = [BizAfterPurge(purged) EXCEPT ![b] = row(u)]
          /\ user' = [users EXCEPT ![u] = [there |-> TRUE, spent |-> TRUE, email |-> r.email]]
          /\ token' = TokenAfterPurge(purged)
          /\ proc' = [proc EXCEPT ![p] = [NoProc EXCEPT !.pc = "retire", !.user = u]]
     \/ /\ owners = {} \/ \A b \in Bizs : ~feasible(b)   \* refused, or (bound) no id left
        /\ End(p)
        /\ UNCHANGED <<biz, user, token>>
  /\ UNCHANGED <<resv, cleanup, starts, compared, blocks>>

\* The re-application writes the business it found rejected, whatever it is now.
Reapply(p) ==
  LET d == proc[p].dup IN
  /\ proc[p].pc = "reapply"
  /\ biz' = IF biz[d].there THEN [biz EXCEPT ![d].status = "PENDING", ![d].verified = FALSE] ELSE biz
  /\ proc' = [proc EXCEPT ![p] = [NoProc EXCEPT !.pc = "retire", !.user = proc[p].user]]
  /\ UNCHANGED <<user, token, resv, cleanup, starts, compared, blocks>>

\* issueOtp, first statement: the older codes of the user are used up.
Retire(p) ==
  /\ proc[p].pc = "retire"
  /\ token' = [t \in Tokens |-> IF t \in LiveCodes(proc[p].user) THEN [token[t] EXCEPT !.used = TRUE]
                                                                 ELSE token[t]]
  /\ Goto(p, "insert")
  /\ UNCHANGED <<biz, user, resv, cleanup, starts, compared, blocks>>

\* issueOtp, second statement: the new code.  It fails when the user is gone.
Insert(p) ==
  LET u == proc[p].user IN
  /\ proc[p].pc = "insert"
  /\ \/ /\ user[u].there
        /\ \E t \in Tokens :
             /\ ~token[t].there /\ \A k \in 1 .. t - 1 : token[k].there
             /\ token' = [token EXCEPT ![t] = [NoToken EXCEPT !.there = TRUE, !.user = u]]
     \/ /\ ~user[u].there \/ \A t \in Tokens : token[t].there   \* (bound) no row left
        /\ UNCHANGED token
  /\ End(p)
  /\ UNCHANGED <<biz, user, resv, cleanup, starts, compared, blocks>>

\* resendBusinessOtp.
ResendTarget(p) ==
  /\ proc[p].pc = "target"
  /\ \E b \in One(UnverifiedOwner(proc[p].email)) :
       IF b = None THEN End(p)
                   ELSE proc' = [proc EXCEPT ![p].user = biz[b].owner, ![p].pc = "retire"]
  /\ UNCHANGED <<biz, user, token, resv, cleanup, starts, compared, blocks>>

-----------------------------------------------------------------------------
(* verifyBusinessEmail *)

VerifyTarget(p) ==
  /\ proc[p].pc = "owner"
  /\ \E b \in One(UnverifiedOwner(proc[p].email)) :
       IF b = None THEN End(p)
                   ELSE proc' = [proc EXCEPT ![p].user = biz[b].owner, ![p].biz = b, ![p].pc = "live"]
  /\ UNCHANGED <<biz, user, token, resv, cleanup, starts, compared, blocks>>

\* verifyOtp: the newest live code, refused when it has expired.
SelectLive(p) ==
  LET live == LiveCodes(proc[p].user) IN
  /\ proc[p].pc = "live"
  /\ \/ live = {} /\ End(p)
     \/ \E newest \in live :
          /\ \A t \in live : t <= newest
          /\ IF token[newest].expired
               THEN End(p)
               ELSE proc' = [proc EXCEPT ![p].token = newest, ![p].pc = "claim"]
  /\ UNCHANGED <<biz, user, token, resv, cleanup, starts, compared, blocks>>

(* Mutant: a wrong code rolls the transaction back. *)
AfterWrongRolledBack(t) == token[t]

\* A wrong code costs an attempt, and the last one uses the code up.
AfterWrong(t) ==
  [token[t] EXCEPT !.attempts = @ + 1, !.used = @ \/ token[t].attempts + 1 >= MaxAttempts]

\* A right one does too, and uses the code up.
AfterRight(t) == [token[t] EXCEPT !.attempts = @ + 1, !.used = TRUE]

\* The UPDATE that takes one attempt.
Claims(r) == ~token[r.token].used /\ token[r.token].attempts < MaxAttempts

\* The rest of the transaction: the attempt, the comparison, the business.  The person
\* types the code of this row or another one; a code is used up by its last attempt.
Claim(p) ==
  LET r == proc[p]
      t == r.token
  IN
  /\ r.pc = "claim"
  /\ IF ~Claims(r)
       THEN /\ token' = [token EXCEPT ![t].used = TRUE]
            /\ UNCHANGED <<biz, compared>>
       ELSE /\ compared' = [compared EXCEPT ![t] = @ + 1]
            /\ \E right \in BOOLEAN :
                 /\ token' = [token EXCEPT ![t] = IF right THEN AfterRight(t) ELSE AfterWrong(t)]
                 /\ biz' = IF right /\ biz[r.biz].there THEN [biz EXCEPT ![r.biz].verified = TRUE] ELSE biz
  /\ End(p)
  /\ UNCHANGED <<user, resv, cleanup, starts, blocks>>

-----------------------------------------------------------------------------
(* Time *)

\* A code gets older than OTP_TTL_MIN.
CodeExpires(t) ==
  /\ token[t].there /\ ~token[t].used /\ ~token[t].expired
  /\ token' = [token EXCEPT ![t].expired = TRUE]
  /\ UNCHANGED <<biz, user, resv, proc, cleanup, starts, compared, blocks>>

\* An application gets older than UNVERIFIED_BUSINESS_TTL_DAYS.
GrowsOld(b) ==
  /\ biz[b].there /\ ~biz[b].old /\ ~biz[b].verified
  /\ biz' = [biz EXCEPT ![b].old = TRUE]
  /\ UNCHANGED <<user, token, resv, proc, cleanup, starts, compared, blocks>>

-----------------------------------------------------------------------------
(* cleanupUnverifiedBusinesses, every night *)

Stale(b) == biz[b].there /\ ~biz[b].verified /\ biz[b].old

CleanupList ==
  /\ cleanup = {}
  /\ cleanup' = {b \in Bizs : Stale(b)}
  /\ cleanup' # {}
  /\ UNCHANGED <<biz, user, token, resv, proc, starts, compared, blocks>>

\* A purge that fails is noted, and the job goes on.
AfterFailure(b) == cleanup \ {b}

\* One transaction per listed business, which is not looked at again.
CleanupPurge(b) ==
  /\ b \in cleanup
  /\ IF Purgeable({b})
       THEN /\ biz' = BizAfterPurge({b})
            /\ user' = UserAfterPurge({b})
            /\ token' = TokenAfterPurge({b})
            /\ cleanup' = cleanup \ {b}
       ELSE /\ cleanup' = AfterFailure(b)
            /\ UNCHANGED <<biz, user, token>>
  /\ UNCHANGED <<resv, proc, starts, compared, blocks>>

-----------------------------------------------------------------------------
(* decideApplication: one transaction, read then conditional UPDATE *)

DecideRead(p) ==
  LET b == proc[p].biz IN
  /\ proc[p].pc = "decideRead"
  /\ IF biz[b].there /\ biz[b].status = "PENDING" /\ biz[b].verified THEN Goto(p, "decide") ELSE End(p)
  /\ UNCHANGED <<biz, user, token, resv, cleanup, starts, compared, blocks>>

(* Mutant: the UPDATE names the business only. *)
StillPendingById(b) == biz[b].there

\* The condition of the UPDATE.
StillPending(b) == biz[b].there /\ biz[b].status = "PENDING"

Decide(p) ==
  LET b == proc[p].biz IN
  /\ proc[p].pc = "decide"
  /\ biz' = IF StillPending(b)
              THEN [biz EXCEPT ![b].status = proc[p].to, ![b].logged = TRUE] ELSE biz
  /\ End(p)
  /\ UNCHANGED <<user, token, resv, cleanup, starts, compared, blocks>>

-----------------------------------------------------------------------------
(* setBusinessStatus *)

StatusRead(p) ==
  LET b == proc[p].biz IN
  /\ proc[p].pc = "statusRead"
  /\ IF biz[b].there /\ biz[b].status \in Operated \ {proc[p].to}
       THEN proc' = [proc EXCEPT ![p].pc = "list", ![p].status = biz[b].status]
       ELSE Refuse(p)
  /\ UNCHANGED <<biz, user, token, resv, cleanup, starts, compared, blocks>>

\* The reservations to come; blocking over them wants a choice (the second disjunct is
\* confirmReservations).
List(p) ==
  LET r == proc[p]
      live == LiveReservations(r.biz)
  IN
  /\ r.pc = "list"
  /\ \/ proc' = [proc EXCEPT ![p].pc = "commit", ![p].listed = live, ![p].left = live]
     \/ r.to = "BLOCKED" /\ live # {} /\ ~r.cancel /\ Refuse(p)
  /\ UNCHANGED <<biz, user, token, resv, cleanup, starts, compared, blocks>>

\* The transaction: the status changes if it is still the one read.
Commit(p) ==
  LET r == proc[p] IN
  /\ r.pc = "commit"
  /\ IF biz[r.biz].there /\ biz[r.biz].status = r.status
       THEN /\ biz' = [biz EXCEPT ![r.biz].status = r.to]
            /\ blocks' = IF r.to = "BLOCKED" THEN blocks \cup {r.biz} ELSE blocks
            /\ Goto(p, IF r.cancel THEN "cancel" ELSE "audit")
       ELSE Refuse(p) /\ UNCHANGED <<biz, blocks>>
  /\ UNCHANGED <<user, token, resv, cleanup, starts, compared>>

(* Mutant: a reservation that ended meanwhile ends the loop. *)
AfterConflictBreaks(r, x) == {}

\* A 409 of one reservation is passed over.
AfterConflict(r, x) == r.left \ {x}

\* transitionReservation for one listed reservation after the other.
CancelNext(p, x) ==
  LET r == proc[p] IN
  /\ r.pc = "cancel"
  /\ x \in r.left
  /\ IF resv[x].status = "LIVE"
       THEN /\ resv' = [resv EXCEPT ![x].status = "BY_ADMIN"]
            /\ proc' = [proc EXCEPT ![p].left = @ \ {x}]
       ELSE /\ proc' = [proc EXCEPT ![p].left = AfterConflict(r, x)]
            /\ UNCHANGED resv
  /\ UNCHANGED <<biz, user, token, cleanup, starts, compared, blocks>>

\* Any other failure of a cancellation ends the call, without an audit row.
CancelFails(p) ==
  /\ proc[p].pc = "cancel"
  /\ proc[p].left # {}
  /\ End(p)
  /\ UNCHANGED <<biz, user, token, resv, cleanup, starts, compared, blocks>>

CancelDone(p) ==
  /\ proc[p].pc = "cancel"
  /\ proc[p].left = {}
  /\ Goto(p, "audit")
  /\ UNCHANGED <<biz, user, token, resv, cleanup, starts, compared, blocks>>

\* The audit row, after everything else.
Audit(p) ==
  LET b == proc[p].biz IN
  /\ proc[p].pc = "audit"
  /\ biz' = IF biz[b].there THEN [biz EXCEPT ![b].logged = TRUE] ELSE biz
  /\ Goto(p, "done")
  /\ UNCHANGED <<user, token, resv, cleanup, starts, compared, blocks>>

\* The operator has read the answer.
Answered(p) ==
  /\ proc[p].pc \in {"done", "refused"}
  /\ End(p)
  /\ UNCHANGED <<biz, user, token, resv, cleanup, starts, compared, blocks>>

-----------------------------------------------------------------------------
(* Customers, as far as a status change meets them: a reservation is placed  *)
(* where the business was open when the call read it (module Booking), and   *)
(* ended by the customer or the shop.                                        *)

BookRead(p) ==
  LET b == proc[p].biz IN
  /\ proc[p].pc = "bookRead"
  /\ IF biz[b].there /\ biz[b].status = "APPROVED" THEN Goto(p, "book") ELSE End(p)
  /\ UNCHANGED <<biz, user, token, resv, cleanup, starts, compared, blocks>>

Book(p) ==
  /\ proc[p].pc = "book"
  /\ \/ \E x \in Resvs : /\ resv[x].status = "NONE" /\ biz[proc[p].biz].there
                         /\ resv' = [resv EXCEPT ![x] = [biz |-> proc[p].biz, status |-> "LIVE"]]
     \/ UNCHANGED resv
  /\ End(p)
  /\ UNCHANGED <<biz, user, token, cleanup, starts, compared, blocks>>

Ends(x) ==
  /\ resv[x].status = "LIVE"
  /\ resv' = [resv EXCEPT ![x].status = "ENDED"]
  /\ UNCHANGED <<biz, user, token, proc, cleanup, starts, compared, blocks>>

-----------------------------------------------------------------------------
(* Specification *)

\* The histories an account and its business can have when the checks begin: no account,
\* the account of a customer, an application made with or without the account, one that
\* waits for a decision, a rejected one, an open shop.
InitialRows(u, e, g) ==
  LET account == [NoUser EXCEPT !.there = TRUE, !.spent = TRUE, !.email = e]
      row == [NoBiz EXCEPT !.there = TRUE, !.spent = TRUE, !.owner = u, !.reg = g]
  IN
  {[b |-> NoBiz, u |-> NoUser], [b |-> NoBiz, u |-> account]}
  \cup {[b |-> [row EXCEPT !.withAccount = w], u |-> account] : w \in BOOLEAN}
  \cup {[b |-> [row EXCEPT !.verified = TRUE, !.status = s, !.logged = s # "PENDING"], u |-> account]
          : s \in {"PENDING", "REJECTED", "APPROVED"}}

Init ==
  LET b0 == CHOOSE b \in Bizs : TRUE
      u0 == CHOOSE u \in Users : TRUE
      r0 == CHOOSE r \in Resvs : TRUE
      e0 == CHOOSE e \in Emails : TRUE
      g0 == CHOOSE g \in Regs : TRUE
  IN
  \E i \in InitialRows(u0, e0, g0), tried \in 0 .. MaxAttempts - 1 :
    /\ biz = [b \in Bizs |-> IF b = b0 THEN i.b ELSE NoBiz]
    /\ user = [u \in Users |-> IF u = u0 THEN i.u ELSE NoUser]
    /\ token = [t \in Tokens |-> IF t = 1 /\ i.b.there /\ i.b.status = "PENDING" /\ ~i.b.verified
                                   THEN [NoToken EXCEPT !.there = TRUE, !.user = u0, !.attempts = tried]
                                   ELSE NoToken]
    /\ resv = [r \in Resvs |-> IF r = r0 /\ i.b.there /\ i.b.status = "APPROVED"
                                 THEN [biz |-> b0, status |-> "LIVE"] ELSE NoResv]
    /\ proc = [p \in Procs |-> NoProc]
    /\ cleanup = {}
    /\ starts = 0
    /\ compared = [t \in Tokens |-> token[t].attempts]
    /\ blocks = {}

Call(p) ==
  \/ ReadDup(p) \/ ReadEmail(p) \/ ReadMember(p) \/ Create(p) \/ Reapply(p)
  \/ Retire(p) \/ Insert(p) \/ ResendTarget(p)
  \/ VerifyTarget(p) \/ SelectLive(p) \/ Claim(p)
  \/ DecideRead(p) \/ Decide(p)
  \/ StatusRead(p) \/ List(p) \/ Commit(p)
  \/ (\E x \in Resvs : CancelNext(p, x)) \/ CancelFails(p) \/ CancelDone(p) \/ Audit(p) \/ Answered(p)
  \/ BookRead(p) \/ Book(p)

Starts(p) ==
  \/ StartApply(p) \/ StartResend(p) \/ StartVerify(p)
  \/ StartDecide(p) \/ StartStatus(p) \/ StartBook(p)

Cleanup == CleanupList \/ \E b \in Bizs : CleanupPurge(b)

\* Bound: the calls are used up and nothing is left to do.
Finished ==
  /\ starts = MaxStarts /\ \A p \in Procs : proc[p].pc = "idle"
  /\ UNCHANGED vars

Next ==
  \/ \E p \in Procs : Call(p) \/ Starts(p)
  \/ Cleanup
  \/ \E t \in Tokens : CodeExpires(t)
  \/ \E b \in Bizs : GrowsOld(b)
  \/ \E x \in Resvs : Ends(x)
  \/ Finished

Spec == Init /\ [][Next]_vars

-----------------------------------------------------------------------------
(* Properties *)

\* The rows have the types of their tables, a business and its owner's account are
\* deleted together, and a code without a user is used up.
TypeOK ==
  /\ \A b \in Bizs : biz[b].there => /\ biz[b].status \in Statuses
                                     /\ biz[b].owner \in Users /\ user[biz[b].owner].there
                                     /\ biz[b].reg \in Regs
  /\ \A u \in Users : user[u].there => user[u].email \in Emails
  /\ \A t \in Tokens : /\ token[t].attempts \in 0 .. MaxAttempts
                       /\ token[t].there /\ token[t].user = None => token[t].used
                       /\ token[t].user \in Users => user[token[t].user].there
  /\ \A r \in Resvs : resv[r].status \in {"NONE", "LIVE", "BY_ADMIN", "ENDED"}
  /\ \A p \in Procs : proc[p].pc \in PCs
  /\ cleanup \subseteq Bizs

\* One account, one business (business-signup.ts:29 and :150): two applications of one
\* account at the same time leave it one business, and so do a re-application and a purge.
OneBusinessPerOwner ==
  \A b, c \in Bizs : biz[b].there /\ biz[c].there /\ biz[b].owner = biz[c].owner => b = c

\* verifyOtp compares a code OTP_MAX_ATTEMPTS times at most, however many requests
\* arrive at once (tokens.ts:94-96).
AttemptsBounded == \A t \in Tokens : compared[t] <= MaxAttempts

\* An application is decided once: two operators who both read it as pending do not
\* approve and reject it (businesses.ts:146-151).
DecidedOnce ==
  [][\A b \in Bizs :
       biz[b].there /\ biz[b].status \in Operated \cup {"REJECTED"} /\ biz'[b].there
         => /\ biz'[b].status # "REJECTED" \/ biz[b].status = "REJECTED"
            /\ biz[b].status = "REJECTED" => biz'[b].status \in {"REJECTED", "PENDING"}]_vars

\* Reservations are canceled by the operator only once the block is committed, and when
\* a block with cancellation has succeeded, none of those listed before it is live any
\* more, although some ended on their own meanwhile (businesses.ts:211-214, :233-246).
BlockCancelsListed ==
  /\ \A r \in Resvs : resv[r].status = "BY_ADMIN" => resv[r].biz \in blocks
  /\ \A p \in Procs : proc[p].pc = "done" /\ proc[p].cancel
       => proc[p].listed \cap LiveReservations(proc[p].biz) = {}
=============================================================================
