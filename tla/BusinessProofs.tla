---------------------------- MODULE BusinessProofs ----------------------------
(***************************************************************************)
(* Safety of Onboarding and of Site for every value of their constants.    *)
(* None of the properties is inductive.                                    *)
(*                                                                         *)
(* Onboarding: Inductive adds what a call knows at each of its statements  *)
(* (Knows), what holds between the rows (Rows), that a row's attempts      *)
(* count its comparisons (Counted), and what a cancelling block has done   *)
(* so far (Cancels).                                                       *)
(*                                                                         *)
(* Site: a request that writes an address has the row of its business      *)
(* locked and has counted room under that lock; the history has one row    *)
(* per address, and the row of every address a business chose names it;    *)
(* and an answer, kept or under way, was found by such a row (Own).        *)
(***************************************************************************)
EXTENDS Onboarding, Site, FiniteSetTheorems, TLAPS

Business ==
  [there : BOOLEAN, status : Statuses, verified : BOOLEAN, owner : Users \cup {None},
   reg : Regs \cup {None}, spent : BOOLEAN, old : BOOLEAN, withAccount : BOOLEAN, logged : BOOLEAN]
Account == [there : BOOLEAN, spent : BOOLEAN, email : Emails \cup {None}]
Code == [there : BOOLEAN, user : Users \cup {None}, used : BOOLEAN, expired : BOOLEAN,
         attempts : 0 .. MaxAttempts]
Reservation == [biz : Bizs \cup {None}, status : {"NONE", "LIVE", "BY_ADMIN", "ENDED"}]
Process ==
  [pc : PCs, kind : AllKinds, email : Emails \cup {None}, reg : Regs \cup {None},
   biz : Bizs \cup {None}, user : Users \cup {None}, dup : Bizs \cup {None},
   attach : Users \cup {None}, purge : SUBSET Bizs, token : Nat, read : {0, 1},
   status : Statuses, to : Statuses, cancel : BOOLEAN, listed : SUBSET Resvs, left : SUBSET Resvs]

Tables ==
  /\ biz \in [Bizs -> Business]
  /\ user \in [Users -> Account]
  /\ token \in [Tokens -> Code]
  /\ resv \in [Resvs -> Reservation]
  /\ cleanup \in SUBSET Bizs
  /\ compared \in [Tokens -> Nat]
  /\ blocks \in SUBSET Bizs

Typed == Tables /\ proc \in [Procs -> Process]

(* What a call r knows at the statement it is about to run. *)
Applying == {"dup", "mail", "member", "create"}
ChangesStatus == {"statusRead", "list", "commit", "cancel", "audit", "done", "refused"}

Knows(r) ==
  /\ r.pc \in Applying => r.email \in Emails /\ r.reg \in Regs
  /\ r.pc = "reapply" => r.dup \in Bizs
  /\ r.pc \in {"reapply", "retire", "insert", "live"} => r.user \in Users
  /\ r.pc \in {"live", "claim"} => r.biz \in Bizs
  /\ r.pc = "claim" => r.token \in Tokens /\ token[r.token].there
  /\ r.pc \in {"decideRead", "decide", "bookRead", "book"} \cup ChangesStatus => r.biz \in Bizs
  /\ r.pc \in ChangesStatus => r.to \in Operated
  /\ r.pc \in {"list", "commit"} => r.status \in Operated

(* What a block with cancellation has done. *)
Cancels(r) ==
  /\ r.pc = "cancel" => r.cancel
  /\ r.cancel => r.to = "BLOCKED"
  /\ r.pc = "cancel" => r.biz \in blocks
  /\ r.pc \in {"commit", "cancel", "audit", "done"}
       => \A x \in r.listed : resv[x].biz = r.biz /\ resv[x].status # "NONE"
  /\ r.pc = "commit" => r.left = r.listed
  /\ r.pc = "cancel" => r.left \subseteq r.listed
  /\ r.pc = "cancel" => \A x \in r.listed \ r.left : resv[x].status # "LIVE"
  /\ r.pc \in {"audit", "done"} /\ r.cancel => \A x \in r.listed : resv[x].status # "LIVE"

(* What holds between the rows. *)
Rows ==
  /\ \A b \in Bizs : biz[b].there => /\ biz[b].spent /\ biz[b].reg \in Regs
                                     /\ biz[b].owner \in Users /\ user[biz[b].owner].there
  /\ \A u \in Users : user[u].there => user[u].spent /\ user[u].email \in Emails
  /\ \A t \in Tokens : /\ token[t].there /\ token[t].user = None => token[t].used
                       /\ token[t].user \in Users => user[token[t].user].there
                       /\ ~token[t].there => token[t].user = None

Counted == \A t \in Tokens : /\ compared[t] = token[t].attempts
                             /\ ~token[t].there => token[t].attempts = 0

ByAdminBlocked == \A x \in Resvs : resv[x].status = "BY_ADMIN" => resv[x].biz \in blocks

Data == Rows /\ OneBusinessPerOwner /\ Counted /\ ByAdminBlocked
Calls == \A p \in Procs : Knows(proc[p]) /\ Cancels(proc[p])

(* The inductive invariant. *)
Inductive == Typed /\ Data /\ Calls

(* No call. *)
LEMMA NoProcType ==
  NoProc \in Process /\ Knows(NoProc) /\ Cancels(NoProc) /\ Knows(NoProc)' /\ Cancels(NoProc)'
BY DEF NoProc, Process, PCs, AllKinds, Statuses, Knows, Cancels, Applying, ChangesStatus

(* A call that goes on to another statement keeps the rest. *)
SameCall(r, q) ==
  /\ r.email = q.email /\ r.reg = q.reg /\ r.biz = q.biz /\ r.user = q.user
  /\ r.dup = q.dup /\ r.token = q.token /\ r.status = q.status /\ r.to = q.to
  /\ r.cancel = q.cancel /\ r.listed = q.listed /\ r.left = q.left

LEMMA GotoRecord ==
  ASSUME NEW r \in Process, NEW c \in PCs
  PROVE  /\ [r EXCEPT !.pc = c] \in Process /\ [r EXCEPT !.pc = c].pc = c
         /\ SameCall([r EXCEPT !.pc = c], r)
BY DEF Process, SameCall

(* The types at the start. *)
LEMMA InitInductive == Init => Inductive
<1> SUFFICES ASSUME Init PROVE Inductive OBVIOUS
<1> DEFINE b0 == CHOOSE b \in Bizs : TRUE
           u0 == CHOOSE u \in Users : TRUE
           r0 == CHOOSE r \in Resvs : TRUE
           e0 == CHOOSE e \in Emails : TRUE
           g0 == CHOOSE g \in Regs : TRUE
<1>1. b0 \in Bizs /\ u0 \in Users /\ e0 \in Emails /\ g0 \in Regs BY IdsAssumption
<1> HIDE DEF b0, u0, r0, e0, g0
<1>2. PICK i \in InitialRows(u0, e0, g0), tried \in 0 .. MaxAttempts - 1 :
        /\ biz = [b \in Bizs |-> IF b = b0 THEN i.b ELSE NoBiz]
        /\ user = [u \in Users |-> IF u = u0 THEN i.u ELSE NoUser]
        /\ token = [t \in Tokens |-> IF t = 1 /\ i.b.there /\ i.b.status = "PENDING" /\ ~i.b.verified
                                   THEN [NoToken EXCEPT !.there = TRUE, !.user = u0, !.attempts = tried]
                                   ELSE NoToken]
        /\ resv = [r \in Resvs |-> IF r = r0 /\ i.b.there /\ i.b.status = "APPROVED"
                                 THEN [biz |-> b0, status |-> "LIVE"] ELSE NoResv]
        /\ proc = [p \in Procs |-> NoProc]
        /\ cleanup = {}
        /\ starts = 0
        /\ compared = [t \in Tokens |-> token[t].attempts]
        /\ blocks = {}
  BY DEF Init, b0, u0, r0, e0, g0
<1>3. /\ i.b \in Business /\ i.u \in Account
      /\ i.b.there => /\ i.b.spent /\ i.b.owner = u0 /\ i.b.reg = g0
                      /\ i.u.there /\ i.b.status \in Statuses
      /\ i.u.there => i.u.spent /\ i.u.email = e0
  <2> DEFINE account == [NoUser EXCEPT !.there = TRUE, !.spent = TRUE, !.email = e0]
             row == [NoBiz EXCEPT !.there = TRUE, !.spent = TRUE, !.owner = u0, !.reg = g0]
             Good(b) == /\ b \in Business /\ b.there /\ b.spent /\ b.owner = u0 /\ b.reg = g0
  <2>1. account \in Account /\ account.there /\ account.spent /\ account.email = e0
    BY <1>1 DEF NoUser, Account
  <2>2. NoBiz \in Business /\ ~NoBiz.there /\ NoUser \in Account /\ ~NoUser.there
    BY DEF NoBiz, NoUser, Business, Account, Statuses
  <2>3. ASSUME NEW w \in BOOLEAN PROVE Good([row EXCEPT !.withAccount = w])
    BY <1>1 DEF NoBiz, Business, Statuses
  <2>4. ASSUME NEW s \in {"PENDING", "REJECTED", "APPROVED"}
        PROVE  Good([row EXCEPT !.verified = TRUE, !.status = s, !.logged = s # "PENDING"])
    BY <1>1 DEF NoBiz, Business, Statuses
  <2>5. \/ i.b = NoBiz /\ i.u \in {NoUser, account}
        \/ (\E w \in BOOLEAN : i.b = [row EXCEPT !.withAccount = w]) /\ i.u = account
        \/ /\ \E s \in {"PENDING", "REJECTED", "APPROVED"} :
                i.b = [row EXCEPT !.verified = TRUE, !.status = s, !.logged = s # "PENDING"]
           /\ i.u = account
    <3>1. CASE i \in {[b |-> NoBiz, u |-> NoUser], [b |-> NoBiz, u |-> account]}
      <4> HIDE DEF account, row
      <4> QED BY <3>1
    <3>2. CASE i \in {[b |-> [row EXCEPT !.withAccount = w], u |-> account] : w \in BOOLEAN}
      <4>1. PICK w \in BOOLEAN : i = [b |-> [row EXCEPT !.withAccount = w], u |-> account] BY <3>2
      <4> HIDE DEF account, row
      <4> QED BY <4>1
    <3>3. CASE i \in {[b |-> [row EXCEPT !.verified = TRUE, !.status = s, !.logged = s # "PENDING"],
                       u |-> account] : s \in {"PENDING", "REJECTED", "APPROVED"}}
      <4>1. PICK s \in {"PENDING", "REJECTED", "APPROVED"} :
              i = [b |-> [row EXCEPT !.verified = TRUE, !.status = s, !.logged = s # "PENDING"],
                   u |-> account]
        BY <3>3
      <4> HIDE DEF account, row
      <4> QED BY <4>1
    <3> QED BY <1>2, <3>1, <3>2, <3>3, Zenon DEF InitialRows
  <2> HIDE DEF account, row
  <2>6. Good(i.b) \/ i.b = NoBiz
    <3>1. CASE i.b = NoBiz BY <3>1
    <3>2. CASE \E w \in BOOLEAN : i.b = [row EXCEPT !.withAccount = w] BY <2>3, <3>2
    <3>3. CASE \E s \in {"PENDING", "REJECTED", "APPROVED"} :
                 i.b = [row EXCEPT !.verified = TRUE, !.status = s, !.logged = s # "PENDING"]
      BY <2>4, <3>3
    <3> QED BY <2>5, <3>1, <3>2, <3>3
  <2> QED BY <2>1, <2>2, <2>5, <2>6 DEF Business
<1>4. /\ NoBiz \in Business /\ ~NoBiz.there /\ NoUser \in Account /\ ~NoUser.there
      /\ NoToken \in Code /\ ~NoToken.there /\ NoToken.attempts = 0 /\ NoToken.user = None
      /\ NoResv \in Reservation /\ NoResv.status = "NONE"
  BY BoundsAssumption DEF NoBiz, NoUser, NoToken, NoResv, Business, Account, Code, Reservation, Statuses
<1> DEFINE tok == [NoToken EXCEPT !.there = TRUE, !.user = u0, !.attempts = tried]
<1>5. tok \in Code /\ tok.there /\ tok.user = u0
  <2>1. tried \in 0 .. MaxAttempts BY <1>2, BoundsAssumption
  <2> QED BY <1>1, <2>1 DEF NoToken, Code
<1>6. Typed
  <2>1. token \in [Tokens -> Code] BY <1>2, <1>4, <1>5
  <2>2. compared \in [Tokens -> Nat] BY <1>2, <2>1 DEF Code
  <2>3. resv \in [Resvs -> Reservation] BY <1>1, <1>2, <1>4 DEF Reservation
  <2> QED BY <1>2, <1>3, <1>4, <2>1, <2>2, <2>3, NoProcType DEF Typed, Tables
<1>7. Rows
  <2>1. \A u \in Users : user[u] = IF u = u0 THEN i.u ELSE NoUser BY <1>2
  <2>2. \A b \in Bizs : biz[b] = IF b = b0 THEN i.b ELSE NoBiz BY <1>2
  <2>3. \A t \in Tokens : token[t].there => token[t].user = u0 /\ i.b.there BY <1>2, <1>4, <1>5
  <2>4. \A t \in Tokens : token[t].user \in Users => token[t].user = u0 /\ i.b.there
    BY <1>2, <1>4, <1>5, IdsAssumption
  <2>5. \A t \in Tokens : ~token[t].there => token[t].user = None BY <1>2, <1>4, <1>5
  <2> QED BY <1>1, <1>3, <1>4, <2>1, <2>2, <2>3, <2>4, <2>5, IdsAssumption DEF Rows
<1>8. OneBusinessPerOwner BY <1>2, <1>4 DEF OneBusinessPerOwner
<1>9. Counted BY <1>2, <1>4, <1>5 DEF Counted
<1>10. ByAdminBlocked BY <1>2, <1>4 DEF ByAdminBlocked
<1>11. Calls BY <1>2, NoProcType DEF Calls
<1> QED BY <1>6, <1>7, <1>8, <1>9, <1>10, <1>11 DEF Inductive, Data

-----------------------------------------------------------------------------
(* Steps.  A call p that takes a step becomes r. *)

Becomes(p, r) == proc' = [proc EXCEPT ![p] = r]

(* What a step of the tables may not take away from a call. *)
Grows ==
  /\ \A t \in Tokens : token[t].there => token'[t].there
  /\ blocks \subseteq blocks'
  /\ \A x \in Resvs : resv[x].status # "NONE"
       => /\ resv'[x].biz = resv[x].biz /\ resv'[x].status # "NONE"
          /\ resv[x].status # "LIVE" => resv'[x].status # "LIVE"

(* What a call knows stays true while the tables grow. *)
LEMMA Kept ==
  ASSUME Grows, NEW r \in Process, Knows(r), Cancels(r) PROVE Knows(r)' /\ Cancels(r)'
<1>1. Knows(r)' BY DEF Knows, Grows
<1>2. r.listed \subseteq Resvs BY DEF Process
<1>3. Cancels(r)' BY <1>2 DEF Cancels, Grows
<1> QED BY <1>1, <1>3

(* A step of one call, which knows what it needs for its next statement. *)
LEMMA CallStep ==
  ASSUME Inductive, Grows, NEW p \in Procs, NEW r \in Process, Becomes(p, r), Knows(r)', Cancels(r)'
  PROVE  Calls' /\ proc' \in [Procs -> Process]
<1>1. proc' \in [Procs -> Process] BY DEF Inductive, Typed, Becomes
<1>2. ASSUME NEW q \in Procs PROVE Knows(proc[q])' /\ Cancels(proc[q])'
  <2>1. CASE q = p
    <3>1. proc'[q] = r BY <2>1 DEF Inductive, Typed, Becomes
    <3> QED BY <3>1
  <2>2. CASE q # p
    <3>1. proc'[q] = proc[q] BY <2>2 DEF Inductive, Typed, Becomes
    <3>2. proc[q] \in Process BY DEF Inductive, Typed
    <3>3. Knows(proc[q]) /\ Cancels(proc[q]) BY DEF Inductive, Calls
    <3> QED BY <3>1, <3>2, <3>3, Kept
  <2> QED BY <2>1, <2>2
<1> QED BY <1>1, <1>2 DEF Calls

(* A step of one call that changes tables as well. *)
LEMMA TableStep ==
  ASSUME Inductive, Grows, NEW p \in Procs, NEW r \in Process, Becomes(p, r), Knows(r)', Cancels(r)',
         Tables', Data'
  PROVE  Inductive'
BY CallStep DEF Inductive, Typed

(* The tables stay as they are. *)
Still == UNCHANGED <<biz, user, token, resv, cleanup, compared, blocks>>

LEMMA StillKeeps == ASSUME Inductive, Still PROVE Grows /\ Tables' /\ Data'
<1>1. Tables' BY DEF Inductive, Typed, Tables, Still
<1>2. Data'
  BY DEF Inductive, Data, Rows, OneBusinessPerOwner, Counted, ByAdminBlocked, Still
<1>3. Grows BY DEF Grows, Still
<1> QED BY <1>1, <1>2, <1>3

(* A step of one call that only reads. *)
LEMMA LocalStep ==
  ASSUME Inductive, Still, NEW p \in Procs, NEW r \in Process, Becomes(p, r), Knows(r), Cancels(r)
  PROVE  Inductive'
<1>1. Knows(r)' /\ Cancels(r)' BY StillKeeps, Kept
<1> QED BY <1>1, StillKeeps, TableStep

(* The end of a call, whatever its last statement did. *)
LEMMA EndStep ==
  ASSUME Inductive, Grows, Tables', Data', NEW p \in Procs, End(p) PROVE Inductive'
<1>1. Becomes(p, NoProc) BY DEF End, Becomes
<1> QED BY <1>1, NoProcType, TableStep

(* On to another statement: r is the call after the step. *)
LEMMA GotoBecomes ==
  ASSUME Inductive, NEW p \in Procs, NEW c \in PCs, Goto(p, c)
  PROVE  \E r \in Process : Becomes(p, r) /\ r.pc = c /\ SameCall(r, proc[p])
<1> DEFINE r == [proc[p] EXCEPT !.pc = c]
<1>1. proc[p] \in Process BY DEF Inductive, Typed
<1>2. Becomes(p, r) BY DEF Goto, Becomes
<1>3. r \in Process /\ r.pc = c /\ SameCall(r, proc[p]) BY <1>1, GotoRecord
<1> HIDE DEF r
<1> QED BY <1>2, <1>3

-----------------------------------------------------------------------------
(* The calls that only read. *)

(* A call starts. *)
LEMMA StartsKeeps == ASSUME Inductive, NEW p \in Procs, Starts(p) PROVE Inductive'
<1>1. CASE StartApply(p)
  <2>1. PICK e \in Emails, g \in Regs :
        Start(p, "APPLY", [NoProc EXCEPT !.pc = "dup", !.email = e, !.reg = g])
    BY <1>1 DEF StartApply
  <2> DEFINE r == [NoProc EXCEPT !.pc = "dup", !.email = e, !.reg = g]
  <2>2. r \in Process /\ r.pc = "dup" /\ r.email = e /\ r.reg = g /\ ~r.cancel
    BY <2>1 DEF NoProc, Process, PCs, AllKinds, Statuses, Operated
  <2>3. Becomes(p, r) /\ Still BY <2>1 DEF Start, Becomes, Still
  <2> HIDE DEF r
  <2>4. Knows(r) /\ Cancels(r) BY <2>1, <2>2 DEF Knows, Cancels, Applying, ChangesStatus
  <2> QED BY <2>2, <2>3, <2>4, LocalStep
<1>2. CASE StartResend(p)
  <2>1. PICK e \in Emails :
        Start(p, "RESEND", [NoProc EXCEPT !.pc = "target", !.kind = "RESEND", !.email = e])
    BY <1>2 DEF StartResend
  <2> DEFINE r == [NoProc EXCEPT !.pc = "target", !.kind = "RESEND", !.email = e]
  <2>2. r \in Process /\ r.pc = "target" /\ ~r.cancel
    BY <2>1 DEF NoProc, Process, PCs, AllKinds, Statuses, Operated
  <2>3. Becomes(p, r) /\ Still BY <2>1 DEF Start, Becomes, Still
  <2> HIDE DEF r
  <2>4. Knows(r) /\ Cancels(r) BY <2>1, <2>2 DEF Knows, Cancels, Applying, ChangesStatus
  <2> QED BY <2>2, <2>3, <2>4, LocalStep
<1>3. CASE StartVerify(p)
  <2>1. PICK e \in Emails :
        Start(p, "VERIFY", [NoProc EXCEPT !.pc = "owner", !.kind = "VERIFY", !.email = e])
    BY <1>3 DEF StartVerify
  <2> DEFINE r == [NoProc EXCEPT !.pc = "owner", !.kind = "VERIFY", !.email = e]
  <2>2. r \in Process /\ r.pc = "owner" /\ ~r.cancel
    BY <2>1 DEF NoProc, Process, PCs, AllKinds, Statuses, Operated
  <2>3. Becomes(p, r) /\ Still BY <2>1 DEF Start, Becomes, Still
  <2> HIDE DEF r
  <2>4. Knows(r) /\ Cancels(r) BY <2>1, <2>2 DEF Knows, Cancels, Applying, ChangesStatus
  <2> QED BY <2>2, <2>3, <2>4, LocalStep
<1>4. CASE StartDecide(p)
  <2>1. PICK b \in Bizs, to \in {"APPROVED", "REJECTED"} :
        Start(p, "DECIDE", [NoProc EXCEPT !.pc = "decideRead", !.kind = "DECIDE", !.biz = b, !.to = to])
    BY <1>4 DEF StartDecide
  <2> DEFINE r == [NoProc EXCEPT !.pc = "decideRead", !.kind = "DECIDE", !.biz = b, !.to = to]
  <2>2. r \in Process /\ r.pc = "decideRead" /\ r.biz = b /\ ~r.cancel
    BY <2>1 DEF NoProc, Process, PCs, AllKinds, Statuses, Operated
  <2>3. Becomes(p, r) /\ Still BY <2>1 DEF Start, Becomes, Still
  <2> HIDE DEF r
  <2>4. Knows(r) /\ Cancels(r) BY <2>1, <2>2 DEF Knows, Cancels, Applying, ChangesStatus
  <2> QED BY <2>2, <2>3, <2>4, LocalStep
<1>5. CASE StartStatus(p)
  <2>1. PICK b \in Bizs, to \in Operated, c \in BOOLEAN :
        /\ c => to = "BLOCKED"
        /\ Start(p, "STATUS", [NoProc EXCEPT !.pc = "statusRead", !.kind = "STATUS", !.biz = b, !.to = to, !.cancel = c])
    BY <1>5 DEF StartStatus
  <2> DEFINE r == [NoProc EXCEPT !.pc = "statusRead", !.kind = "STATUS", !.biz = b, !.to = to, !.cancel = c]
  <2>2. r \in Process /\ r.pc = "statusRead" /\ r.biz = b /\ r.to = to /\ r.cancel = c
    BY <2>1 DEF NoProc, Process, PCs, AllKinds, Statuses, Operated
  <2>3. Becomes(p, r) /\ Still BY <2>1 DEF Start, Becomes, Still
  <2> HIDE DEF r
  <2>4. Knows(r) /\ Cancels(r) BY <2>1, <2>2 DEF Knows, Cancels, Applying, ChangesStatus
  <2> QED BY <2>2, <2>3, <2>4, LocalStep
<1>6. CASE StartBook(p)
  <2>1. PICK b \in Bizs :
        Start(p, "BOOK", [NoProc EXCEPT !.pc = "bookRead", !.kind = "BOOK", !.biz = b])
    BY <1>6 DEF StartBook
  <2> DEFINE r == [NoProc EXCEPT !.pc = "bookRead", !.kind = "BOOK", !.biz = b]
  <2>2. r \in Process /\ r.pc = "bookRead" /\ r.biz = b /\ ~r.cancel
    BY <2>1 DEF NoProc, Process, PCs, AllKinds, Statuses, Operated
  <2>3. Becomes(p, r) /\ Still BY <2>1 DEF Start, Becomes, Still
  <2> HIDE DEF r
  <2>4. Knows(r) /\ Cancels(r) BY <2>1, <2>2 DEF Knows, Cancels, Applying, ChangesStatus
  <2> QED BY <2>2, <2>3, <2>4, LocalStep
<1> QED BY <1>1, <1>2, <1>3, <1>4, <1>5, <1>6 DEF Starts

(* The end of a call that only read. *)
LEMMA EndStill == ASSUME Inductive, Still, NEW p \in Procs, End(p) PROVE Inductive'
BY StillKeeps, EndStep

(* On to another statement after only reading. *)
LEMMA GotoStill ==
  ASSUME Inductive, Still, NEW p \in Procs, NEW c \in PCs, Goto(p, c),
         \A r \in Process : r.pc = c /\ SameCall(r, proc[p]) => Knows(r) /\ Cancels(r)
  PROVE  Inductive'
BY GotoBecomes, LocalStep

(* What is known of a call, opened up. *)
LEMMA CallFacts ==
  ASSUME Inductive, NEW p \in Procs
  PROVE  proc[p] \in Process /\ Knows(proc[p]) /\ Cancels(proc[p])
BY DEF Inductive, Typed, Calls

(* applyBusiness up to its transaction. *)
LEMMA ReadDupKeeps == ASSUME Inductive, NEW p \in Procs, ReadDup(p) PROVE Inductive'
<1>0. PICK q \in Process : q = proc[p] /\ Knows(q) /\ Cancels(q) BY CallFacts
<1>1. PICK d \in One(WithReg(proc[p].reg)) :
       proc' = [proc EXCEPT ![p].dup = d, ![p].pc = "mail",
                  ![p].status = IF d = None THEN "PENDING" ELSE biz[d].status,
                  ![p].read = IF d # None /\ biz[d].verified THEN 1 ELSE 0]
  BY DEF ReadDup
<1> DEFINE st == IF d = None THEN "PENDING" ELSE biz[d].status
           rd == IF d # None /\ biz[d].verified THEN 1 ELSE 0
           r == [q EXCEPT !.dup = d, !.pc = "mail", !.status = st, !.read = rd]
<1>2. d \in Bizs \cup {None} /\ st \in Statuses /\ rd \in {0, 1}
  BY <1>1 DEF One, WithReg, Statuses, Inductive, Typed, Tables, Business
<1>3. Becomes(p, r) BY <1>0, <1>1 DEF Becomes
<1> HIDE DEF st, rd
<1>4. /\ r \in Process /\ r.pc = "mail" /\ r.email = q.email /\ r.reg = q.reg
      /\ r.cancel = q.cancel /\ r.to = q.to
  <2> DEFINE r1 == [q EXCEPT !.dup = d, !.pc = "mail"]
  <2>1. r1 \in Process BY <1>2 DEF Process, PCs
  <2>2. r1.pc = "mail" /\ r1.email = q.email /\ r1.reg = q.reg /\ r1.cancel = q.cancel /\ r1.to = q.to
    BY DEF Process
  <2>3. r = [r1 EXCEPT !.status = st, !.read = rd] OBVIOUS
  <2> HIDE DEF r1, r
  <2>4. r \in Process BY <1>2, <2>1, <2>3 DEF Process
  <2>5. r.pc = r1.pc /\ r.email = r1.email /\ r.reg = r1.reg /\ r.cancel = r1.cancel /\ r.to = r1.to
    BY <2>1, <2>3 DEF Process
  <2> QED BY <2>2, <2>4, <2>5
<1> HIDE DEF r
<1>5. Knows(r) /\ Cancels(r)
  BY <1>4, <1>0 DEF ReadDup, Knows, Cancels, Applying, ChangesStatus
<1>6. Still BY DEF ReadDup, Still
<1> QED BY <1>3, <1>4, <1>5, <1>6, LocalStep

LEMMA ReadEmailKeeps == ASSUME Inductive, NEW p \in Procs, ReadEmail(p) PROVE Inductive'
<1>0. PICK q \in Process : q = proc[p] /\ Knows(q) /\ Cancels(q) BY CallFacts
<1>1. PICK u \in One(WithEmail(proc[p].email)) :
        \/ /\ u # None /\ proc[p].dup \in OwnedBy(u)
           /\ proc' = [proc EXCEPT ![p].user = u, ![p].pc = "reapply"]
        \/ End(p)
        \/ proc' = [proc EXCEPT ![p].user = u, ![p].pc = IF u = None THEN "create" ELSE "member"]
  BY DEF ReadEmail
<1>2. u \in Users \cup {None} BY <1>1 DEF One, WithEmail
<1>3. Still /\ proc[p].pc = "mail" BY DEF ReadEmail, Still
<1>4. CASE u # None /\ proc[p].dup \in OwnedBy(u)
           /\ proc' = [proc EXCEPT ![p].user = u, ![p].pc = "reapply"]
  <2> DEFINE r == [q EXCEPT !.user = u, !.pc = "reapply"]
  <2>1. /\ r \in Process /\ r.pc = "reapply" /\ r.user = u /\ r.dup = q.dup
        /\ r.cancel = q.cancel /\ r.to = q.to
    <3> DEFINE r1 == [q EXCEPT !.user = u]
    <3>1. r1 \in Process BY <1>2 DEF Process
    <3>2. r1.user = u /\ r1.dup = q.dup /\ r1.cancel = q.cancel /\ r1.to = q.to
      BY DEF Process
    <3>3. r = [r1 EXCEPT !.pc = "reapply"] OBVIOUS
    <3> HIDE DEF r1, r
    <3>4. r \in Process BY <3>1, <3>3 DEF Process, PCs
    <3>5. r.pc = "reapply" /\ r.user = r1.user /\ r.dup = r1.dup /\ r.cancel = r1.cancel /\ r.to = r1.to
      BY <3>1, <3>3 DEF Process
    <3> QED BY <3>2, <3>4, <3>5
  <2>2. Becomes(p, r) BY <1>0, <1>4 DEF Becomes
  <2> HIDE DEF r
  <2>3. Knows(r) /\ Cancels(r)
    BY <1>2, <1>3, <1>4, <2>1, <1>0 DEF Knows, Cancels, Applying, ChangesStatus, OwnedBy
  <2> QED BY <1>3, <2>1, <2>2, <2>3, LocalStep
<1>5. CASE proc' = [proc EXCEPT ![p].user = u, ![p].pc = IF u = None THEN "create" ELSE "member"]
  <2> DEFINE c == IF u = None THEN "create" ELSE "member"
             r == [q EXCEPT !.user = u, !.pc = c]
  <2>1. c \in {"create", "member"} OBVIOUS
  <2>2. Becomes(p, r) BY <1>0, <1>5 DEF Becomes
  <2> HIDE DEF c
  <2>3. /\ r \in Process /\ r.pc = c /\ r.user = u /\ r.email = q.email /\ r.reg = q.reg
        /\ r.cancel = q.cancel /\ r.to = q.to
    <3>1. c \in PCs BY <2>1 DEF PCs
    <3>2. r \in Process BY <1>2, <3>1 DEF Process
    <3> QED BY <3>2 DEF Process
  <2> HIDE DEF r
  <2>4. Knows(r) /\ Cancels(r)
    BY <1>3, <2>1, <2>3, <1>0 DEF Knows, Cancels, Applying, ChangesStatus
  <2> QED BY <1>3, <2>2, <2>3, <2>4, LocalStep
<1> QED BY <1>1, <1>3, <1>4, <1>5, EndStill

LEMMA ReadMemberKeeps == ASSUME Inductive, NEW p \in Procs, ReadMember(p) PROVE Inductive'
<1>0. PICK q \in Process : q = proc[p] /\ Knows(q) /\ Cancels(q) BY CallFacts
<1>1. Still /\ proc[p].pc = "member" BY DEF ReadMember, Still
<1>2. PICK gone \in SUBSET Bizs, a \in {proc[p].user, None} :
        \/ proc' = [proc EXCEPT ![p].pc = "create", ![p].purge = gone, ![p].attach = a]
        \/ End(p)
  BY DEF ReadMember, OwnedBy
<1>3. CASE proc' = [proc EXCEPT ![p].pc = "create", ![p].purge = gone, ![p].attach = a]
  <2> DEFINE r == [q EXCEPT !.pc = "create", !.purge = gone, !.attach = a]
  <2>1. Becomes(p, r) BY <1>0, <1>3 DEF Becomes
  <2>2. a \in Users \cup {None} BY <1>0 DEF Process
  <2>3. /\ r \in Process /\ r.pc = "create" /\ r.email = q.email /\ r.reg = q.reg
        /\ r.cancel = q.cancel /\ r.to = q.to
    <3>1. r \in Process BY <1>2, <2>2 DEF Process, PCs
    <3> QED BY <3>1 DEF Process
  <2> HIDE DEF r
  <2>4. Knows(r) /\ Cancels(r)
    BY <1>1, <2>3, <1>0 DEF Knows, Cancels, Applying, ChangesStatus
  <2> QED BY <1>1, <2>1, <2>3, <2>4, LocalStep
<1> QED BY <1>1, <1>2, <1>3, EndStill

(* resendBusinessOtp and verifyBusinessEmail up to their first write. *)
LEMMA UnverifiedOwners ==
  ASSUME Inductive, NEW e, NEW b \in One(UnverifiedOwner(e)), b # None
  PROVE  b \in Bizs /\ biz[b].owner \in Users
BY DEF One, UnverifiedOwner, WithEmail

LEMMA ResendTargetKeeps == ASSUME Inductive, NEW p \in Procs, ResendTarget(p) PROVE Inductive'
<1>0. PICK q \in Process : q = proc[p] /\ Knows(q) /\ Cancels(q) BY CallFacts
<1>1. Still /\ proc[p].pc = "target" BY DEF ResendTarget, Still
<1>2. PICK b \in One(UnverifiedOwner(proc[p].email)) :
       IF b = None THEN End(p)
                   ELSE proc' = [proc EXCEPT ![p].user = biz[b].owner, ![p].pc = "retire"]
  BY DEF ResendTarget
<1>3. CASE b # None
  <2> DEFINE r == [q EXCEPT !.user = biz[b].owner, !.pc = "retire"]
  <2>1. biz[b].owner \in Users BY <1>3, UnverifiedOwners
  <2>2. Becomes(p, r) BY <1>0, <1>2, <1>3 DEF Becomes
  <2>3. r \in Process /\ r.pc = "retire" /\ r.user \in Users
        /\ r.cancel = q.cancel /\ r.to = q.to
    BY <2>1 DEF Process, PCs
  <2> HIDE DEF r
  <2>4. Knows(r) /\ Cancels(r) BY <2>3, <1>0 DEF Knows, Cancels, Applying, ChangesStatus
  <2> QED BY <1>1, <2>2, <2>3, <2>4, LocalStep
<1> QED BY <1>1, <1>2, <1>3, EndStill

LEMMA VerifyTargetKeeps == ASSUME Inductive, NEW p \in Procs, VerifyTarget(p) PROVE Inductive'
<1>0. PICK q \in Process : q = proc[p] /\ Knows(q) /\ Cancels(q) BY CallFacts
<1>1. Still /\ proc[p].pc = "owner" BY DEF VerifyTarget, Still
<1>2. PICK b \in One(UnverifiedOwner(proc[p].email)) :
       IF b = None THEN End(p)
                   ELSE proc' = [proc EXCEPT ![p].user = biz[b].owner, ![p].biz = b, ![p].pc = "live"]
  BY DEF VerifyTarget
<1>3. CASE b # None
  <2> DEFINE r == [q EXCEPT !.user = biz[b].owner, !.biz = b, !.pc = "live"]
  <2>1. b \in Bizs /\ biz[b].owner \in Users BY <1>3, UnverifiedOwners
  <2>2. Becomes(p, r) BY <1>0, <1>2, <1>3 DEF Becomes
  <2>3. r \in Process /\ r.pc = "live" /\ r.user \in Users /\ r.biz = b
        /\ r.cancel = q.cancel /\ r.to = q.to
    BY <2>1 DEF Process, PCs
  <2> HIDE DEF r
  <2>4. Knows(r) /\ Cancels(r) BY <2>1, <2>3, <1>0 DEF Knows, Cancels, Applying, ChangesStatus
  <2> QED BY <1>1, <2>2, <2>3, <2>4, LocalStep
<1> QED BY <1>1, <1>2, <1>3, EndStill

LEMMA SelectLiveKeeps == ASSUME Inductive, NEW p \in Procs, SelectLive(p) PROVE Inductive'
<1>0. PICK q \in Process : q = proc[p] /\ Knows(q) /\ Cancels(q) BY CallFacts
<1>1. Still /\ proc[p].pc = "live" BY DEF SelectLive, Still
<1>2. CASE End(p) BY <1>1, <1>2, EndStill
<1>3. ASSUME NEW t \in LiveCodes(proc[p].user),
             proc' = [proc EXCEPT ![p].token = t, ![p].pc = "claim"]
      PROVE  Inductive'
  <2> DEFINE r == [q EXCEPT !.token = t, !.pc = "claim"]
  <2>1. t \in Tokens /\ t \in Nat /\ token[t].there BY BoundsAssumption DEF LiveCodes, Tokens
  <2>2. Becomes(p, r) BY <1>0, <1>3 DEF Becomes
  <2>3. /\ r \in Process /\ r.pc = "claim" /\ r.token = t /\ r.biz = q.biz
        /\ r.cancel = q.cancel /\ r.to = q.to
    <3>1. "claim" \in PCs BY DEF PCs
    <3>2. r \in Process BY <2>1, <3>1 DEF Process
    <3> QED BY <3>2 DEF Process
  <2> HIDE DEF r
  <2>4. Knows(r) /\ Cancels(r) BY <1>1, <2>1, <2>3, <1>0 DEF Knows, Cancels, Applying, ChangesStatus
  <2> QED BY <1>1, <2>2, <2>3, <2>4, LocalStep
<1> QED BY <1>2, <1>3 DEF SelectLive

-----------------------------------------------------------------------------
(* The operator's calls and a customer's, where they only read. *)

LEMMA DecideReadKeeps == ASSUME Inductive, NEW p \in Procs, DecideRead(p) PROVE Inductive'
<1>1. Still /\ proc[p].pc = "decideRead" BY DEF DecideRead, Still
<1>2. "decide" \in PCs BY DEF PCs
<1>3. \A r \in Process : r.pc = "decide" /\ SameCall(r, proc[p]) => Knows(r) /\ Cancels(r)
  BY <1>1, CallFacts DEF Knows, Cancels, Applying, ChangesStatus, SameCall
<1>4. Goto(p, "decide") \/ End(p) BY DEF DecideRead
<1> QED BY <1>1, <1>2, <1>3, <1>4, GotoStill, EndStill

LEMMA BookReadKeeps == ASSUME Inductive, NEW p \in Procs, BookRead(p) PROVE Inductive'
<1>1. Still /\ proc[p].pc = "bookRead" BY DEF BookRead, Still
<1>2. "book" \in PCs BY DEF PCs
<1>3. \A r \in Process : r.pc = "book" /\ SameCall(r, proc[p]) => Knows(r) /\ Cancels(r)
  BY <1>1, CallFacts DEF Knows, Cancels, Applying, ChangesStatus, SameCall
<1>4. Goto(p, "book") \/ End(p) BY DEF BookRead
<1> QED BY <1>1, <1>2, <1>3, <1>4, GotoStill, EndStill

(* A refused call knows no more than its choice. *)
LEMMA RefuseStill ==
  ASSUME Inductive, Still, NEW p \in Procs, proc[p].pc \in ChangesStatus, Refuse(p) PROVE Inductive'
<1>1. "refused" \in PCs BY DEF PCs
<1>2. \A r \in Process : r.pc = "refused" /\ SameCall(r, proc[p]) => Knows(r) /\ Cancels(r)
  BY CallFacts DEF Knows, Cancels, Applying, ChangesStatus, SameCall
<1> QED BY <1>1, <1>2, GotoStill DEF Refuse

LEMMA StatusReadKeeps == ASSUME Inductive, NEW p \in Procs, StatusRead(p) PROVE Inductive'
<1>0. PICK q \in Process : q = proc[p] /\ Knows(q) /\ Cancels(q) BY CallFacts
<1>1. Still /\ proc[p].pc = "statusRead" BY DEF StatusRead, Still
<1>2. CASE Refuse(p) BY <1>1, <1>2, RefuseStill DEF ChangesStatus
<1>3. ASSUME NEW st \in Operated, proc' = [proc EXCEPT ![p].pc = "list", ![p].status = st]
      PROVE  Inductive'
  <2> DEFINE r == [q EXCEPT !.pc = "list", !.status = st]
  <2>1. Becomes(p, r) BY <1>0, <1>3 DEF Becomes
  <2>2. r \in Process
    <3>1. "list" \in PCs /\ st \in Statuses BY <1>3 DEF PCs, Operated, Statuses
    <3> QED BY <3>1 DEF Process
  <2>3. r.pc = "list" /\ r.status = st /\ r.biz = q.biz /\ r.cancel = q.cancel /\ r.to = q.to
    BY DEF Process
  <2> HIDE DEF r
  <2>4. Knows(r) /\ Cancels(r) BY <1>0, <1>1, <1>3, <2>3 DEF Knows, Cancels, Applying, ChangesStatus
  <2> QED BY <1>1, <2>1, <2>2, <2>4, LocalStep
<1> QED BY <1>2, <1>3 DEF StatusRead

LEMMA ListKeeps == ASSUME Inductive, NEW p \in Procs, List(p) PROVE Inductive'
<1>0. PICK q \in Process : q = proc[p] /\ Knows(q) /\ Cancels(q) BY CallFacts
<1>1. Still /\ proc[p].pc = "list" BY DEF List, Still
<1> DEFINE live == LiveReservations(q.biz)
<1>2. live \in SUBSET Resvs /\ \A x \in live : resv[x].biz = q.biz /\ resv[x].status # "NONE"
  BY DEF LiveReservations
<1>3. CASE Refuse(p) BY <1>1, <1>3, RefuseStill DEF ChangesStatus
<1>4. CASE proc' = [proc EXCEPT ![p].pc = "commit", ![p].listed = live, ![p].left = live]
  <2> HIDE DEF live
  <2> DEFINE r == [q EXCEPT !.pc = "commit", !.listed = live, !.left = live]
  <2>1. Becomes(p, r) BY <1>0, <1>4 DEF Becomes
  <2>2. r \in Process BY <1>2 DEF Process, PCs
  <2>3. /\ r.pc = "commit" /\ r.listed = live /\ r.left = live /\ r.status = q.status
        /\ r.biz = q.biz /\ r.cancel = q.cancel /\ r.to = q.to
    BY DEF Process
  <2> HIDE DEF r
  <2>4. Knows(r) /\ Cancels(r) BY <1>0, <1>1, <1>2, <2>3 DEF Knows, Cancels, Applying, ChangesStatus
  <2> QED BY <1>1, <2>1, <2>2, <2>4, LocalStep
<1> QED BY <1>0, <1>3, <1>4 DEF List

LEMMA CancelDoneKeeps == ASSUME Inductive, NEW p \in Procs, CancelDone(p) PROVE Inductive'
<1>1. Still /\ proc[p].pc = "cancel" /\ proc[p].left = {} /\ Goto(p, "audit") BY DEF CancelDone, Still
<1>2. "audit" \in PCs BY DEF PCs
<1>3. \A r \in Process : r.pc = "audit" /\ SameCall(r, proc[p]) => Knows(r) /\ Cancels(r)
  BY <1>1, CallFacts DEF Knows, Cancels, Applying, ChangesStatus, SameCall
<1> QED BY <1>1, <1>2, <1>3, GotoStill

(* A call that fails, and one whose answer is read. *)
LEMMA LastReadKeeps ==
  ASSUME Inductive, NEW p \in Procs, CancelFails(p) \/ Answered(p) PROVE Inductive'
BY EndStill DEF CancelFails, Answered, Still

-----------------------------------------------------------------------------
(* The calls that write. *)

(* On to another statement, after a change of the tables. *)
LEMMA GotoStep ==
  ASSUME Inductive, Grows, Tables', Data', NEW p \in Procs, NEW c \in PCs, Goto(p, c),
         \A r \in Process : r.pc = c /\ SameCall(r, proc[p]) => Knows(r)' /\ Cancels(r)'
  PROVE  Inductive'
BY GotoBecomes, TableStep

(* A step that is no call's. *)
LEMMA OtherStep == ASSUME Inductive, Grows, Tables', Data', UNCHANGED proc PROVE Inductive'
<1>1. ASSUME NEW q \in Procs PROVE Knows(proc[q])' /\ Cancels(proc[q])'
  <2>1. proc'[q] = proc[q] OBVIOUS
  <2> QED BY <2>1, CallFacts, Kept
<1> QED BY <1>1 DEF Inductive, Typed, Calls

(* What is known of the rows, opened up. *)
LEMMA RowFacts ==
  ASSUME Inductive
  PROVE  Tables /\ Rows /\ OneBusinessPerOwner /\ Counted /\ ByAdminBlocked
BY DEF Inductive, Typed, Data

(* Only reservations change. *)
LEMMA ResvStep ==
  ASSUME Inductive, UNCHANGED <<biz, user, token, cleanup, compared, blocks>>,
         NEW x \in Resvs, NEW v \in Reservation, resv' = [resv EXCEPT ![x] = v],
         resv[x].status # "NONE" => v.biz = resv[x].biz /\ v.status \in {"BY_ADMIN", "ENDED"},
         v.status = "BY_ADMIN" => v.biz \in blocks
  PROVE  Grows /\ Tables' /\ Data'
<1>1. Tables' BY RowFacts DEF Tables
<1>2. \A y \in Resvs : resv'[y] = IF y = x THEN v ELSE resv[y] BY RowFacts DEF Tables
<1>3. Grows BY <1>2 DEF Grows
<1>4. Data'
  <2>1. Rows' /\ OneBusinessPerOwner' /\ Counted'
    BY RowFacts DEF Rows, OneBusinessPerOwner, Counted
  <2>2. ByAdminBlocked' BY <1>2, RowFacts DEF ByAdminBlocked
  <2> QED BY <2>1, <2>2 DEF Data
<1> QED BY <1>1, <1>3, <1>4

LEMMA BookKeeps == ASSUME Inductive, NEW p \in Procs, Book(p) PROVE Inductive'
<1>1. End(p) /\ UNCHANGED <<biz, user, token, cleanup, compared, blocks>> /\ proc[p].pc = "book"
  BY DEF Book
<1>2. CASE UNCHANGED resv BY <1>1, <1>2, EndStill DEF Still
<1>3. ASSUME NEW x \in Resvs, resv[x].status = "NONE",
             resv' = [resv EXCEPT ![x] = [biz |-> proc[p].biz, status |-> "LIVE"]]
      PROVE  Inductive'
  <2> DEFINE v == [biz |-> proc[p].biz, status |-> "LIVE"]
  <2>1. v \in Reservation /\ v.status = "LIVE" BY <1>1, CallFacts DEF Knows, Reservation
  <2>2. resv' = [resv EXCEPT ![x] = v] BY <1>3
  <2> HIDE DEF v
  <2> QED BY <1>1, <1>3, <2>1, <2>2, ResvStep, EndStep
<1> QED BY <1>2, <1>3 DEF Book

LEMMA EndsKeeps == ASSUME Inductive, NEW x \in Resvs, Ends(x) PROVE Inductive'
<1>1. /\ resv[x].status = "LIVE" /\ resv' = [resv EXCEPT ![x].status = "ENDED"]
      /\ UNCHANGED <<biz, user, token, cleanup, compared, blocks, proc>>
  BY DEF Ends
<1>2. PICK w \in Reservation : w = resv[x] BY RowFacts DEF Tables
<1> DEFINE v == [w EXCEPT !.status = "ENDED"]
<1>3. v \in Reservation /\ v.biz = w.biz /\ v.status = "ENDED" BY DEF Reservation
<1>4. resv' = [resv EXCEPT ![x] = v] BY <1>1, <1>2
<1> HIDE DEF v
<1> QED BY <1>1, <1>2, <1>3, <1>4, ResvStep, OtherStep

LEMMA CancelNextKeeps ==
  ASSUME Inductive, NEW p \in Procs, NEW x \in Resvs, CancelNext(p, x) PROVE Inductive'
<1>0. PICK q \in Process : q = proc[p] /\ Knows(q) /\ Cancels(q) BY CallFacts
<1>1. q.pc = "cancel" /\ x \in q.left BY <1>0 DEF CancelNext
<1> DEFINE r == [q EXCEPT !.left = q.left \ {x}]
<1>2. Becomes(p, r) BY <1>0 DEF CancelNext, AfterConflict, Becomes
<1>3. r \in Process BY DEF Process
<1>4. /\ r.pc = "cancel" /\ r.listed = q.listed /\ r.left = q.left \ {x}
      /\ r.biz = q.biz /\ r.cancel = q.cancel /\ r.to = q.to
  BY <1>1 DEF Process
<1> HIDE DEF r
<1>5. q.listed \subseteq Resvs BY DEF Process
<1>6. CASE resv[x].status = "LIVE"
  <2>1. resv' = [resv EXCEPT ![x].status = "BY_ADMIN"] /\ UNCHANGED <<biz, user, token, cleanup, compared, blocks>>
    BY <1>6 DEF CancelNext
  <2>2. PICK w \in Reservation : w = resv[x] BY RowFacts DEF Tables
  <2> DEFINE v == [w EXCEPT !.status = "BY_ADMIN"]
  <2>3. v \in Reservation /\ v.biz = w.biz /\ v.status = "BY_ADMIN" BY DEF Reservation
  <2>4. resv' = [resv EXCEPT ![x] = v] BY <2>1, <2>2
  <2> HIDE DEF v
  <2>5. w.biz = q.biz /\ q.biz \in blocks BY <1>0, <1>1, <2>2 DEF Cancels
  <2>6. Grows /\ Tables' /\ Data' BY <1>6, <2>1, <2>2, <2>3, <2>4, <2>5, ResvStep
  <2>7. resv'[x].status # "LIVE" BY <2>3, <2>4, RowFacts DEF Tables
  <2>8. Knows(r)' BY <1>0, <1>1, <1>4 DEF Knows, Applying, ChangesStatus
  <2>9. Cancels(q)' BY <1>0, <2>6, Kept
  <2>10. Cancels(r)' BY <1>1, <1>4, <2>7, <2>9 DEF Cancels
  <2> QED BY <1>2, <1>3, <2>6, <2>8, <2>10, TableStep
<1>7. CASE resv[x].status # "LIVE"
  <2>1. Still BY <1>7 DEF CancelNext, Still
  <2>2. Knows(r) BY <1>0, <1>1, <1>4 DEF Knows, Applying, ChangesStatus
  <2>3. Cancels(r) BY <1>0, <1>1, <1>4, <1>7 DEF Cancels
  <2> QED BY <1>2, <1>3, <2>1, <2>2, <2>3, LocalStep
<1> QED BY <1>6, <1>7

(* A business changes, but neither its owner nor its number. *)
SameOwner(v, w) == v.there = w.there /\ v.owner = w.owner /\ v.reg = w.reg /\ v.spent = w.spent

LEMMA BizStep ==
  ASSUME Inductive, UNCHANGED <<user, token, resv, cleanup, compared>>,
         blocks \subseteq blocks', blocks' \in SUBSET Bizs,
         NEW b \in Bizs, NEW v \in Business, biz' = [biz EXCEPT ![b] = v], SameOwner(v, biz[b])
  PROVE  Grows /\ Tables' /\ Data'
<1>1. Tables' BY RowFacts DEF Tables
<1>2. \A c \in Bizs : biz'[c] = IF c = b THEN v ELSE biz[c] BY RowFacts DEF Tables
<1>3. \A c \in Bizs : SameOwner(biz'[c], biz[c]) BY <1>2 DEF SameOwner
<1>4. Grows BY DEF Grows
<1>5. Data'
  <2>1. Rows' BY <1>3, RowFacts DEF Rows, SameOwner
  <2>2. OneBusinessPerOwner' BY <1>3, RowFacts DEF OneBusinessPerOwner, SameOwner
  <2>3. Counted' /\ ByAdminBlocked' BY RowFacts DEF Counted, ByAdminBlocked
  <2> QED BY <2>1, <2>2, <2>3 DEF Data
<1> QED BY <1>1, <1>4, <1>5

LEMMA GrowsOldKeeps == ASSUME Inductive, NEW b \in Bizs, GrowsOld(b) PROVE Inductive'
<1>1. /\ biz' = [biz EXCEPT ![b].old = TRUE]
      /\ UNCHANGED <<user, token, resv, cleanup, compared, blocks, proc>>
  BY DEF GrowsOld
<1>2. PICK w \in Business : w = biz[b] BY RowFacts DEF Tables
<1> DEFINE v == [w EXCEPT !.old = TRUE]
<1>3. v \in Business /\ SameOwner(v, w) BY DEF Business, SameOwner
<1>4. biz' = [biz EXCEPT ![b] = v] BY <1>1, <1>2
<1> HIDE DEF v
<1> QED BY <1>1, <1>2, <1>3, <1>4, RowFacts, BizStep, OtherStep DEF Tables

LEMMA ReapplyKeeps == ASSUME Inductive, NEW p \in Procs, Reapply(p) PROVE Inductive'
<1>0. PICK q \in Process : q = proc[p] /\ Knows(q) /\ Cancels(q) BY CallFacts
<1>1. /\ q.pc = "reapply" /\ q.dup \in Bizs /\ q.user \in Users
      /\ UNCHANGED <<user, token, resv, cleanup, compared, blocks>>
  BY <1>0 DEF Reapply, Knows
<1> DEFINE r == [NoProc EXCEPT !.pc = "retire", !.user = q.user]
<1>2. Becomes(p, r) BY <1>0 DEF Reapply, Becomes
<1>3. r \in Process /\ r.pc = "retire" /\ r.user = q.user /\ ~r.cancel
  BY <1>1 DEF NoProc, Process, PCs, AllKinds, Statuses, Operated
<1> HIDE DEF r
<1>4. Knows(r)' /\ Cancels(r)' BY <1>1, <1>3 DEF Knows, Cancels, Applying, ChangesStatus
<1>5. Grows /\ Tables' /\ Data'
  <2>1. CASE UNCHANGED biz BY <1>1, <2>1, StillKeeps DEF Still
  <2>2. CASE biz' = [biz EXCEPT ![q.dup].status = "PENDING", ![q.dup].verified = FALSE]
    <3>1. PICK w \in Business : w = biz[q.dup] BY <1>1, RowFacts DEF Tables
    <3> DEFINE v == [w EXCEPT !.status = "PENDING", !.verified = FALSE]
    <3>2. v \in Business /\ SameOwner(v, w) BY DEF Business, SameOwner, Statuses
    <3>3. biz' = [biz EXCEPT ![q.dup] = v] BY <2>2, <3>1, <1>1, RowFacts DEF Tables
    <3> HIDE DEF v
    <3> QED BY <1>1, <3>1, <3>2, <3>3, RowFacts, BizStep DEF Tables
  <2> QED BY <1>0, <2>1, <2>2 DEF Reapply
<1> QED BY <1>2, <1>3, <1>4, <1>5, TableStep

LEMMA DecideKeeps == ASSUME Inductive, NEW p \in Procs, Decide(p) PROVE Inductive'
<1>0. PICK q \in Process : q = proc[p] /\ Knows(q) /\ Cancels(q) BY CallFacts
<1>1. /\ End(p) /\ q.pc = "decide" /\ q.biz \in Bizs
      /\ UNCHANGED <<user, token, resv, cleanup, compared, blocks>>
  BY <1>0 DEF Decide, Knows
<1>2. CASE UNCHANGED biz BY <1>1, <1>2, EndStill DEF Still
<1>3. CASE biz' = [biz EXCEPT ![q.biz].status = q.to, ![q.biz].logged = TRUE]
  <2>1. PICK w \in Business : w = biz[q.biz] BY <1>1, RowFacts DEF Tables
  <2>2. q.to \in Statuses BY DEF Process
  <2> DEFINE v == [w EXCEPT !.status = q.to, !.logged = TRUE]
  <2>3. v \in Business /\ SameOwner(v, w) BY <2>2 DEF Business, SameOwner
  <2>4. biz' = [biz EXCEPT ![q.biz] = v] BY <1>1, <1>3, <2>1, RowFacts DEF Tables
  <2> HIDE DEF v
  <2> QED BY <1>1, <2>1, <2>3, <2>4, RowFacts, BizStep, EndStep DEF Tables
<1> QED BY <1>0, <1>2, <1>3 DEF Decide

LEMMA AuditKeeps == ASSUME Inductive, NEW p \in Procs, Audit(p) PROVE Inductive'
<1>0. PICK q \in Process : q = proc[p] /\ Knows(q) /\ Cancels(q) BY CallFacts
<1>1. /\ Goto(p, "done") /\ q.pc = "audit" /\ q.biz \in Bizs
      /\ UNCHANGED <<user, token, resv, cleanup, compared, blocks>>
  BY <1>0 DEF Audit, Knows, ChangesStatus
<1>2. "done" \in PCs BY DEF PCs
<1>3. Grows /\ Tables' /\ Data'
  <2>1. CASE UNCHANGED biz BY <1>1, <2>1, StillKeeps DEF Still
  <2>2. CASE biz' = [biz EXCEPT ![q.biz].logged = TRUE]
    <3>1. PICK w \in Business : w = biz[q.biz] BY <1>1, RowFacts DEF Tables
    <3> DEFINE v == [w EXCEPT !.logged = TRUE]
    <3>2. v \in Business /\ SameOwner(v, w) BY DEF Business, SameOwner
    <3>3. biz' = [biz EXCEPT ![q.biz] = v] BY <2>2, <3>1
    <3> HIDE DEF v
    <3> QED BY <1>1, <3>1, <3>2, <3>3, RowFacts, BizStep DEF Tables
  <2> QED BY <1>0, <2>1, <2>2 DEF Audit
<1>4. Knows(q)' /\ Cancels(q)' BY <1>0, <1>3, Kept
<1>5. \A r \in Process : r.pc = "done" /\ SameCall(r, q) => Knows(r)' /\ Cancels(r)'
  BY <1>1, <1>4 DEF Knows, Cancels, Applying, ChangesStatus, SameCall
<1> QED BY <1>0, <1>1, <1>2, <1>3, <1>5, GotoStep

LEMMA CommitKeeps == ASSUME Inductive, NEW p \in Procs, Commit(p) PROVE Inductive'
<1>0. PICK q \in Process : q = proc[p] /\ Knows(q) /\ Cancels(q) BY CallFacts
<1>1. /\ q.pc = "commit" /\ q.biz \in Bizs /\ q.to \in Operated
      /\ UNCHANGED <<user, token, resv, cleanup, compared>>
  BY <1>0 DEF Commit, Knows, ChangesStatus
<1>2. CASE Refuse(p) /\ UNCHANGED <<biz, blocks>>
  BY <1>0, <1>1, <1>2, RefuseStill DEF Still, ChangesStatus
<1>3. CASE /\ biz' = [biz EXCEPT ![q.biz].status = q.to]
           /\ blocks' = IF q.to = "BLOCKED" THEN blocks \cup {q.biz} ELSE blocks
           /\ Goto(p, IF q.cancel THEN "cancel" ELSE "audit")
  <2>1. PICK w \in Business : w = biz[q.biz] BY <1>1, RowFacts DEF Tables
  <2> DEFINE v == [w EXCEPT !.status = q.to]
             c == IF q.cancel THEN "cancel" ELSE "audit"
  <2>2. q.to \in Statuses BY DEF Process
  <2>3. v \in Business /\ SameOwner(v, w) BY <2>2 DEF Business, SameOwner
  <2>4. biz' = [biz EXCEPT ![q.biz] = v] BY <1>3, <2>1
  <2> HIDE DEF v
  <2>5. blocks \subseteq blocks' /\ blocks' \in SUBSET Bizs BY <1>1, <1>3, RowFacts DEF Tables
  <2>6. Grows /\ Tables' /\ Data' BY <1>1, <2>1, <2>3, <2>4, <2>5, BizStep
  <2>7. Knows(q)' /\ Cancels(q)' BY <1>0, <2>6, Kept
  <2>8. q.cancel => q.biz \in blocks' BY <1>0, <1>3 DEF Cancels
  <2>9. c \in PCs /\ c = (IF q.cancel THEN "cancel" ELSE "audit") BY DEF PCs
  <2> HIDE DEF c
  <2>10. Goto(p, c) BY <1>3, <2>9
  <2>11. \A r \in Process : r.pc = c /\ SameCall(r, q) => Knows(r)' /\ Cancels(r)'
    <3> TAKE r \in Process
    <3> HAVE r.pc = c /\ SameCall(r, q)
    <3>1. Knows(r)' BY <1>1, <2>9 DEF Knows, Applying, ChangesStatus, SameCall
    <3>2. Cancels(r)' BY <1>1, <2>7, <2>8, <2>9 DEF Cancels, SameCall
    <3> QED BY <3>1, <3>2
  <2> QED BY <1>0, <2>6, <2>9, <2>10, <2>11, GotoStep
<1> QED BY <1>0, <1>2, <1>3 DEF Commit

(* A code changes, but neither whose it is nor how often it was tried. *)
SameCode(v, w) ==
  /\ w.there => v.there
  /\ v.user = w.user /\ v.attempts = w.attempts /\ (w.used => v.used)
  /\ ~w.there => ~v.there

LEMMA TokensStep ==
  ASSUME Inductive, UNCHANGED <<biz, user, resv, cleanup, compared, blocks>>,
         token' \in [Tokens -> Code], \A t \in Tokens : SameCode(token'[t], token[t])
  PROVE  Grows /\ Tables' /\ Data'
<1>1. Tables' BY RowFacts DEF Tables
<1>2. Grows BY DEF Grows, SameCode
<1>3. Data'
  <2>1. Rows' BY RowFacts DEF Rows, SameCode
  <2>2. Counted' BY RowFacts DEF Counted, SameCode
  <2>3. OneBusinessPerOwner' /\ ByAdminBlocked' BY RowFacts DEF OneBusinessPerOwner, ByAdminBlocked
  <2> QED BY <2>1, <2>2, <2>3 DEF Data
<1> QED BY <1>1, <1>2, <1>3

LEMMA CodeExpiresKeeps == ASSUME Inductive, NEW t \in Tokens, CodeExpires(t) PROVE Inductive'
<1>1. /\ token' = [token EXCEPT ![t].expired = TRUE]
      /\ UNCHANGED <<biz, user, resv, cleanup, compared, blocks, proc>>
  BY DEF CodeExpires
<1>2. PICK w \in Code : w = token[t] BY RowFacts DEF Tables
<1> DEFINE v == [w EXCEPT !.expired = TRUE]
<1>3. v \in Code /\ SameCode(v, w) BY DEF Code, SameCode
<1>4. token' = [token EXCEPT ![t] = v] BY <1>1, <1>2
<1> HIDE DEF v
<1>5. token' \in [Tokens -> Code] BY <1>3, <1>4, RowFacts DEF Tables
<1>6. \A k \in Tokens : SameCode(token'[k], token[k])
  BY <1>2, <1>3, <1>4, RowFacts DEF Tables, SameCode
<1> QED BY <1>1, <1>5, <1>6, TokensStep, OtherStep

LEMMA RetireKeeps == ASSUME Inductive, NEW p \in Procs, Retire(p) PROVE Inductive'
<1>1. /\ proc[p].pc = "retire" /\ Goto(p, "insert")
      /\ UNCHANGED <<biz, user, resv, cleanup, compared, blocks>>
  BY DEF Retire
<1>2. \A t \in Tokens : token'[t] \in Code /\ SameCode(token'[t], token[t])
  <2> TAKE t \in Tokens
  <2>1. PICK w \in Code : w = token[t] BY RowFacts DEF Tables
  <2>2. token'[t] = [w EXCEPT !.used = TRUE] \/ token'[t] = w BY <2>1 DEF Retire
  <2> QED BY <2>1, <2>2 DEF Code, SameCode
<1>3. token' \in [Tokens -> Code]
  <2>1. token' = [t \in Tokens |-> token'[t]] BY DEF Retire
  <2> QED BY <1>2, <2>1
<1>4. "insert" \in PCs BY DEF PCs
<1>5. \A r \in Process : r.pc = "insert" /\ SameCall(r, proc[p]) => Knows(r)' /\ Cancels(r)'
  BY <1>1, CallFacts DEF Knows, Cancels, Applying, ChangesStatus, SameCall
<1> QED BY <1>1, <1>2, <1>3, <1>4, <1>5, TokensStep, GotoStep

LEMMA InsertKeeps == ASSUME Inductive, NEW p \in Procs, Insert(p) PROVE Inductive'
<1>1. /\ proc[p].pc = "insert" /\ End(p) /\ proc[p].user \in Users
      /\ UNCHANGED <<biz, user, resv, cleanup, compared, blocks>>
  BY CallFacts DEF Insert, Knows
<1>2. CASE UNCHANGED token BY <1>1, <1>2, EndStill DEF Still
<1>3. ASSUME NEW t \in Tokens, ~token[t].there, user[proc[p].user].there,
             token' = [token EXCEPT ![t] = [NoToken EXCEPT !.there = TRUE, !.user = proc[p].user]]
      PROVE  Inductive'
  <2> DEFINE v == [NoToken EXCEPT !.there = TRUE, !.user = proc[p].user]
  <2>1. v \in Code /\ v.there /\ v.user = proc[p].user /\ v.attempts = 0
    <3>1. 0 \in 0 .. MaxAttempts BY BoundsAssumption
    <3> QED BY <1>1, <3>1 DEF NoToken, Code
  <2> HIDE DEF v
  <2>2. token' = [token EXCEPT ![t] = v] BY <1>3 DEF v
  <2>3. \A k \in Tokens : token'[k] = IF k = t THEN v ELSE token[k] BY <2>2, RowFacts DEF Tables
  <2>4. Tables' BY <1>1, <2>1, <2>2, RowFacts DEF Tables
  <2>5. Grows BY <1>1, <2>1, <2>3 DEF Grows
  <2>6. Rows' BY <1>1, <1>3, <2>1, <2>3, RowFacts, IdsAssumption DEF Rows
  <2>7. Counted'
    <3>1. \A k \in Tokens : compared'[k] = compared[k] BY <1>1
    <3>2. compared[t] = 0 BY <1>3, RowFacts DEF Counted
    <3>3. \A k \in Tokens \ {t} : token'[k] = token[k] BY <2>3
    <3>4. token'[t] = v BY <2>3
    <3> QED BY <2>1, <3>1, <3>2, <3>3, <3>4, RowFacts DEF Counted
  <2>8. OneBusinessPerOwner' /\ ByAdminBlocked' BY <1>1, RowFacts DEF OneBusinessPerOwner, ByAdminBlocked
  <2> QED BY <1>1, <2>4, <2>5, <2>6, <2>7, <2>8, EndStep DEF Data
<1> QED BY <1>2, <1>3 DEF Insert

(* A code is tried: MaxAttempts times at most, and each time it is counted. *)
LEMMA ClaimKeeps == ASSUME Inductive, NEW p \in Procs, Claim(p) PROVE Inductive'
<1>0. PICK q \in Process : q = proc[p] /\ Knows(q) BY CallFacts
<1> DEFINE t == q.token
<1>1. /\ End(p) /\ q.pc = "claim" /\ t \in Tokens /\ token[t].there /\ q.biz \in Bizs
      /\ UNCHANGED <<user, resv, cleanup, blocks>>
  BY <1>0 DEF Claim, Knows
<1> HIDE DEF t
<1>2. PICK w \in Code : w = token[t] BY <1>1, RowFacts DEF Tables
<1>3. CASE ~Claims(q)
  <2>1. token' = [token EXCEPT ![t].used = TRUE] /\ UNCHANGED <<biz, compared>>
    BY <1>0, <1>3 DEF Claim, t
  <2> DEFINE v == [w EXCEPT !.used = TRUE]
  <2>2. v \in Code /\ SameCode(v, w) BY DEF Code, SameCode
  <2>3. token' = [token EXCEPT ![t] = v] BY <1>2, <2>1
  <2> HIDE DEF v
  <2>4. token' \in [Tokens -> Code] BY <2>2, <2>3, RowFacts DEF Tables
  <2>5. \A k \in Tokens : SameCode(token'[k], token[k])
    BY <1>2, <2>2, <2>3, RowFacts DEF Tables, SameCode
  <2> QED BY <1>1, <2>1, <2>4, <2>5, TokensStep, EndStep
<1>4. CASE Claims(q)
  <2>1. w.attempts < MaxAttempts BY <1>2, <1>4 DEF Claims, t
  <2>2. PICK right \in BOOLEAN :
          /\ token' = [token EXCEPT ![t] = IF right THEN AfterRight(t) ELSE AfterWrong(t)]
          /\ biz' = IF right /\ biz[q.biz].there THEN [biz EXCEPT ![q.biz].verified = TRUE] ELSE biz
    BY <1>0, <1>4 DEF Claim, t
  <2>3. compared' = [compared EXCEPT ![t] = @ + 1] BY <1>0, <1>4 DEF Claim, t
  <2> DEFINE u == IF right THEN TRUE ELSE w.used \/ w.attempts + 1 >= MaxAttempts
             v == [w EXCEPT !.attempts = w.attempts + 1, !.used = u]
  <2>4. token' = [token EXCEPT ![t] = v]
    <3>1. CASE right
      <4>1. u = TRUE BY <3>1
      <4> HIDE DEF u
      <4> QED BY <1>2, <2>2, <3>1, <4>1 DEF AfterRight
    <3>2. CASE ~right
      <4>1. u = (w.used \/ w.attempts + 1 >= MaxAttempts) BY <3>2
      <4> HIDE DEF u
      <4> QED BY <1>2, <2>2, <3>2, <4>1 DEF AfterWrong
    <3> QED BY <3>1, <3>2
  <2>5. u \in BOOLEAN /\ w.attempts + 1 \in 0 .. MaxAttempts
    <3>1. w.used \in BOOLEAN /\ w.attempts \in 0 .. MaxAttempts BY DEF Code
    <3>2. w.attempts + 1 \in 0 .. MaxAttempts BY <2>1, <3>1, BoundsAssumption
    <3>3. u \in BOOLEAN BY <3>1
    <3> QED BY <3>2, <3>3
  <2> HIDE DEF u
  <2>6. /\ v \in Code /\ v.there = w.there /\ v.user = w.user /\ v.attempts = w.attempts + 1
        /\ v.user = None => (w.used => v.used)
    <3>1. v \in Code BY <2>5 DEF Code
    <3>2. w.used => u BY DEF u
    <3> QED BY <3>1, <3>2 DEF Code
  <2> HIDE DEF v
  <2>7. \A k \in Tokens : token'[k] = IF k = t THEN v ELSE token[k] BY <2>4, RowFacts DEF Tables
  <2>8. \A k \in Tokens : compared'[k] = IF k = t THEN compared[k] + 1 ELSE compared[k]
    BY <2>3, RowFacts DEF Tables
  <2>9. /\ biz' \in [Bizs -> Business] /\ \A b \in Bizs : SameOwner(biz'[b], biz[b])
    <3>1. CASE biz' = biz BY <3>1, RowFacts DEF Tables, SameOwner
    <3>2. CASE biz' = [biz EXCEPT ![q.biz].verified = TRUE]
      <4>1. PICK x \in Business : x = biz[q.biz] BY <1>1, RowFacts DEF Tables
      <4> DEFINE y == [x EXCEPT !.verified = TRUE]
      <4>2. y \in Business /\ SameOwner(y, x) BY DEF Business, SameOwner
      <4>3. biz' = [biz EXCEPT ![q.biz] = y] BY <3>2, <4>1
      <4> HIDE DEF y
      <4> QED BY <4>1, <4>2, <4>3, RowFacts DEF Tables, SameOwner
    <3> QED BY <2>2, <3>1, <3>2
  <2>10. Tables'
    <3>1. token' \in [Tokens -> Code] BY <2>4, <2>6, RowFacts DEF Tables
    <3>2. compared' \in [Tokens -> Nat]
      <4>1. compared[t] + 1 \in Nat BY <1>1, RowFacts DEF Tables
      <4> QED BY <2>3, <4>1, RowFacts DEF Tables
    <3> QED BY <1>1, <2>9, <3>1, <3>2, RowFacts DEF Tables
  <2>11. Grows BY <1>1, <1>2, <2>6, <2>7 DEF Grows
  <2>12. Data'
    <3>1. Rows' BY <1>1, <1>2, <2>6, <2>7, <2>9, RowFacts DEF Rows, SameOwner
    <3>2. OneBusinessPerOwner' BY <2>9, RowFacts DEF OneBusinessPerOwner, SameOwner
    <3>3. Counted' BY <1>1, <1>2, <2>6, <2>7, <2>8, RowFacts DEF Counted
    <3>4. ByAdminBlocked' BY <1>1, RowFacts DEF ByAdminBlocked
    <3> QED BY <3>1, <3>2, <3>3, <3>4 DEF Data
  <2> QED BY <1>1, <2>10, <2>11, <2>12, EndStep
<1> QED BY <1>3, <1>4

-----------------------------------------------------------------------------
(* Purges and applications. *)

(* What is left after a purge. *)
LEMMA PurgeFacts ==
  ASSUME Inductive, NEW bs \in SUBSET Bizs
  PROVE  /\ BizAfterPurge(bs) \in [Bizs -> Business]
         /\ UserAfterPurge(bs) \in [Users -> Account]
         /\ TokenAfterPurge(bs) \in [Tokens -> Code]
         /\ \A b \in Bizs : BizAfterPurge(bs)[b].there
              => b \notin bs /\ BizAfterPurge(bs)[b] = biz[b] /\ biz[b].owner \notin GoneUsers(bs)
         /\ \A u \in Users : IF u \in GoneUsers(bs) THEN ~UserAfterPurge(bs)[u].there
                                                    ELSE UserAfterPurge(bs)[u] = user[u]
         /\ \A t \in Tokens :
              LET v == TokenAfterPurge(bs)[t] IN
              /\ v.there = token[t].there /\ v.attempts = token[t].attempts
              /\ v.there /\ v.user = None => v.used
              /\ v.user \in Users => user[v.user].there /\ v.user \notin GoneUsers(bs)
              /\ ~v.there => v.user = None
<1>1. /\ [NoBiz EXCEPT !.spent = TRUE] \in Business /\ ~[NoBiz EXCEPT !.spent = TRUE].there
      /\ [NoUser EXCEPT !.spent = TRUE] \in Account /\ ~[NoUser EXCEPT !.spent = TRUE].there
  BY DEF NoBiz, NoUser, Business, Account, Statuses
<1>2. BizAfterPurge(bs) \in [Bizs -> Business] BY <1>1, RowFacts DEF Tables, BizAfterPurge
<1>3. UserAfterPurge(bs) \in [Users -> Account] BY <1>1, RowFacts DEF Tables, UserAfterPurge
<1>4. \A b \in Bizs : BizAfterPurge(bs)[b].there
              => b \notin bs /\ BizAfterPurge(bs)[b] = biz[b] /\ biz[b].owner \notin GoneUsers(bs)
  <2> TAKE b \in Bizs
  <2> HAVE BizAfterPurge(bs)[b].there
  <2>1. b \notin bs /\ BizAfterPurge(bs)[b] = biz[b] BY <1>1 DEF BizAfterPurge
  <2>2. b \in OwnedBy(biz[b].owner) BY <2>1 DEF OwnedBy
  <2> QED BY <2>1, <2>2 DEF GoneUsers
<1>5. \A u \in Users : IF u \in GoneUsers(bs) THEN ~UserAfterPurge(bs)[u].there
                                              ELSE UserAfterPurge(bs)[u] = user[u]
  BY <1>1 DEF UserAfterPurge
<1>6. \A t \in Tokens :
        LET v == TokenAfterPurge(bs)[t] IN
        /\ v \in Code
        /\ v.there = token[t].there /\ v.attempts = token[t].attempts
        /\ v.there /\ v.user = None => v.used
        /\ v.user \in Users => user[v.user].there /\ v.user \notin GoneUsers(bs)
        /\ ~v.there => v.user = None
  <2> TAKE t \in Tokens
  <2> DEFINE v == TokenAfterPurge(bs)[t]
  <2>1. PICK w \in Code : w = token[t] BY RowFacts DEF Tables
  <2>2. CASE w.there /\ w.user \in GoneUsers(bs)
    <3>1. v = [w EXCEPT !.user = None, !.used = TRUE] BY <2>1, <2>2 DEF TokenAfterPurge
    <3> HIDE DEF v
    <3>2. v \in Code /\ v.there = w.there /\ v.attempts = w.attempts /\ v.user = None /\ v.used
      BY <3>1 DEF Code
    <3> QED BY <2>1, <3>2, IdsAssumption DEF v
  <2>3. CASE w.there /\ w.user \notin GoneUsers(bs)
    <3>1. v = w BY <2>1, <2>3 DEF TokenAfterPurge
    <3> QED BY <2>1, <2>3, <3>1, RowFacts DEF Rows
  <2>4. CASE ~w.there
    <3>1. v = w BY <2>1, <2>4 DEF TokenAfterPurge
    <3> QED BY <2>1, <2>4, <3>1, RowFacts, IdsAssumption DEF Rows
  <2> QED BY <2>2, <2>3, <2>4
<1>7. TokenAfterPurge(bs) \in [Tokens -> Code]
  <2>1. TokenAfterPurge(bs) = [t \in Tokens |-> TokenAfterPurge(bs)[t]] BY DEF TokenAfterPurge
  <2> QED BY <1>6, <2>1
<1> QED BY <1>2, <1>3, <1>4, <1>5, <1>6, <1>7

LEMMA CleanupListKeeps == ASSUME Inductive, CleanupList PROVE Inductive'
<1>1. /\ cleanup' \in SUBSET Bizs /\ UNCHANGED <<biz, user, token, resv, compared, blocks, proc>>
  BY DEF CleanupList
<1>2. Tables' BY <1>1, RowFacts DEF Tables
<1>3. Data'
  BY <1>1, RowFacts DEF Data, Rows, OneBusinessPerOwner, Counted, ByAdminBlocked
<1>4. Grows BY <1>1 DEF Grows
<1> QED BY <1>1, <1>2, <1>3, <1>4, OtherStep

LEMMA CleanupPurgeKeeps == ASSUME Inductive, NEW b \in Bizs, CleanupPurge(b) PROVE Inductive'
<1>1. UNCHANGED <<resv, compared, blocks, proc>> /\ cleanup' = cleanup \ {b}
  BY DEF CleanupPurge, AfterFailure
<1>2. cleanup' \in SUBSET Bizs BY <1>1, RowFacts DEF Tables
<1>3. CASE UNCHANGED <<biz, user, token>>
  <2>1. Tables' BY <1>1, <1>2, <1>3, RowFacts DEF Tables
  <2>2. Data'
    BY <1>1, <1>3, RowFacts DEF Data, Rows, OneBusinessPerOwner, Counted, ByAdminBlocked
  <2>3. Grows BY <1>1, <1>3 DEF Grows
  <2> QED BY <1>1, <2>1, <2>2, <2>3, OtherStep
<1>4. CASE /\ biz' = BizAfterPurge({b}) /\ user' = UserAfterPurge({b})
           /\ token' = TokenAfterPurge({b})
  <2> DEFINE bs == {b}
  <2>0. bs \in SUBSET Bizs OBVIOUS
  <2> HIDE DEF bs
  <2>1. /\ biz' \in [Bizs -> Business] /\ user' \in [Users -> Account] /\ token' \in [Tokens -> Code]
        /\ \A c \in Bizs : biz'[c].there => biz'[c] = biz[c] /\ biz[c].owner \notin GoneUsers(bs)
        /\ \A u \in Users : IF u \in GoneUsers(bs) THEN ~user'[u].there ELSE user'[u] = user[u]
        /\ \A t \in Tokens :
              /\ token'[t].there = token[t].there /\ token'[t].attempts = token[t].attempts
              /\ token'[t].there /\ token'[t].user = None => token'[t].used
              /\ token'[t].user \in Users
                   => user[token'[t].user].there /\ token'[t].user \notin GoneUsers(bs)
              /\ ~token'[t].there => token'[t].user = None
    BY <1>4, <2>0, PurgeFacts DEF bs
  <2>2. Tables' BY <1>1, <1>2, <2>1, RowFacts DEF Tables
  <2>3. Grows BY <1>1, <2>1 DEF Grows
  <2>4. Rows'
    <3>1. \A c \in Bizs : biz'[c].there => /\ biz'[c].spent /\ biz'[c].reg \in Regs
                                           /\ biz'[c].owner \in Users /\ user'[biz'[c].owner].there
      BY <2>1, RowFacts DEF Rows
    <3>2. \A u \in Users : user'[u].there => user'[u].spent /\ user'[u].email \in Emails
      BY <2>1, RowFacts DEF Rows
    <3>3. \A t \in Tokens : token'[t].user \in Users => user'[token'[t].user].there
      BY <2>1
    <3> QED BY <2>1, <3>1, <3>2, <3>3 DEF Rows
  <2>5. OneBusinessPerOwner' BY <2>1, RowFacts DEF OneBusinessPerOwner
  <2>6. Counted' /\ ByAdminBlocked' BY <1>1, <2>1, RowFacts DEF Counted, ByAdminBlocked
  <2> QED BY <1>1, <2>2, <2>3, <2>4, <2>5, <2>6, OtherStep DEF Data
<1> QED BY <1>3, <1>4 DEF CleanupPurge

(* An application is stored.  Its owner has no other business: an account of old *)
(* is free to attach, and a new one owns nothing.                             *)
LEMMA CreateKeeps == ASSUME Inductive, NEW p \in Procs, Create(p) PROVE Inductive'
<1>0. PICK q \in Process : q = proc[p] /\ Knows(q) BY CallFacts
<1> DEFINE bs == {b \in q.purge \cup ({q.dup} \ {None}) : biz[b].there}
           Stored(b, u) ==
             /\ biz' = [BizAfterPurge(bs) EXCEPT ![b] =
                         [NoBiz EXCEPT !.there = TRUE, !.spent = TRUE, !.owner = u, !.reg = q.reg,
                                       !.withAccount = q.attach = None]]
             /\ user' = [UserAfterPurge(bs) EXCEPT ![u] = [there |-> TRUE, spent |-> TRUE, email |-> q.email]]
             /\ token' = TokenAfterPurge(bs)
             /\ proc' = [proc EXCEPT ![p] = [NoProc EXCEPT !.pc = "retire", !.user = u]]
<1>1. bs \in SUBSET Bizs BY DEF Process
<1>2. /\ q.pc = "create" /\ q.email \in Emails /\ q.reg \in Regs
      /\ UNCHANGED <<resv, cleanup, compared, blocks>>
  <2>1. proc[p].pc = "create" /\ UNCHANGED <<resv, cleanup, compared, blocks>>
    BY Zenon DEF Create
  <2> QED BY <1>0, <2>1 DEF Knows, Applying
<1>3. CASE End(p) /\ UNCHANGED <<biz, user, token>> BY <1>2, <1>3, EndStill DEF Still
<1>4. ASSUME NEW b \in Bizs, NEW u \in Users, ~biz[b].spent,
             \/ q.attach = u /\ FreeToAttach(u, bs)
             \/ ~user[u].spent,
             Stored(b, u)
      PROVE  Inductive'
  <2> HIDE DEF bs
  <2> DEFINE wa == q.attach = None
             v == [NoBiz EXCEPT !.there = TRUE, !.spent = TRUE, !.owner = u, !.reg = q.reg,
                                !.withAccount = wa]
             a == [there |-> TRUE, spent |-> TRUE, email |-> q.email]
             r == [NoProc EXCEPT !.pc = "retire", !.user = u]
  <2>1. v \in Business /\ v.there /\ v.spent /\ v.owner = u /\ v.reg = q.reg
    <3>1. wa \in BOOLEAN OBVIOUS
    <3> HIDE DEF wa
    <3> QED BY <1>2, <3>1 DEF NoBiz, Business, Statuses
  <2>2. a \in Account /\ a.there /\ a.spent /\ a.email = q.email BY <1>2 DEF Account
  <2>3. r \in Process /\ r.pc = "retire" /\ r.user = u /\ ~r.cancel
    <3>1. "retire" \in PCs /\ ~NoProc.cancel BY DEF PCs, NoProc
    <3>2. PICK n \in Process : n = NoProc BY NoProcType
    <3>3. r = [n EXCEPT !.pc = "retire", !.user = u] BY <3>2
    <3> HIDE DEF r
    <3> QED BY <3>1, <3>2, <3>3 DEF Process
  <2>4. Becomes(p, r) BY <1>4 DEF Becomes
  <2>5. biz' = [BizAfterPurge(bs) EXCEPT ![b] = v] /\ user' = [UserAfterPurge(bs) EXCEPT ![u] = a]
    BY <1>4
  <2> HIDE DEF wa, v, a, r
  <2>6. Knows(r)' /\ Cancels(r)' BY <2>3 DEF Knows, Cancels, Applying, ChangesStatus
  <2>7. /\ \A c \in Bizs \ {b} : biz'[c].there
              => c \notin bs /\ biz'[c] = biz[c] /\ biz[c].owner \notin GoneUsers(bs)
        /\ biz'[b] = v
        /\ biz' \in [Bizs -> Business]
    BY <1>1, <2>1, <2>5, PurgeFacts
  <2>8. /\ \A w \in Users \ {u} : IF w \in GoneUsers(bs) THEN ~user'[w].there ELSE user'[w] = user[w]
        /\ user'[u] = a
        /\ user' \in [Users -> Account]
    BY <1>1, <2>2, <2>5, PurgeFacts
  <2>9. /\ token' \in [Tokens -> Code]
        /\ \A t \in Tokens :
              /\ token'[t].there = token[t].there /\ token'[t].attempts = token[t].attempts
              /\ token'[t].there /\ token'[t].user = None => token'[t].used
              /\ token'[t].user \in Users
                   => user[token'[t].user].there /\ token'[t].user \notin GoneUsers(bs)
              /\ ~token'[t].there => token'[t].user = None
    BY <1>1, <1>4, PurgeFacts
  <2>10. Tables' BY <1>2, <2>7, <2>8, <2>9, RowFacts DEF Tables
  <2>11. Grows BY <1>2, <2>9 DEF Grows
  <2>12. Rows'
    <3>1. \A c \in Bizs : biz'[c].there => /\ biz'[c].spent /\ biz'[c].reg \in Regs
                                           /\ biz'[c].owner \in Users /\ user'[biz'[c].owner].there
      BY <1>2, <2>1, <2>2, <2>7, <2>8, RowFacts DEF Rows
    <3>2. \A w \in Users : user'[w].there => user'[w].spent /\ user'[w].email \in Emails
      BY <1>2, <2>2, <2>8, RowFacts DEF Rows
    <3>3. \A t \in Tokens : token'[t].user \in Users => user'[token'[t].user].there
      BY <2>2, <2>8, <2>9
    <3> QED BY <2>9, <3>1, <3>2, <3>3 DEF Rows
  <2>13. \A c \in Bizs \ {b} : biz'[c].there => biz'[c].owner # u
    <3> TAKE c \in Bizs \ {b}
    <3> HAVE biz'[c].there
    <3>1. biz[c].there /\ biz'[c] = biz[c] /\ c \notin bs BY <2>7
    <3>2. biz[c].owner = u => user[u].there /\ user[u].spent BY <3>1, RowFacts DEF Rows
    <3>3. biz[c].owner = u => c \in OwnedBy(u) BY <3>1 DEF OwnedBy
    <3> QED BY <1>4, <3>1, <3>2, <3>3 DEF FreeToAttach
  <2>14. OneBusinessPerOwner'
    BY <2>1, <2>7, <2>13, RowFacts DEF OneBusinessPerOwner
  <2>15. Counted' /\ ByAdminBlocked' BY <1>2, <2>9, RowFacts DEF Counted, ByAdminBlocked
  <2> QED BY <2>3, <2>4, <2>6, <2>10, <2>11, <2>12, <2>14, <2>15, TableStep DEF Data
<1>5. \/ End(p) /\ UNCHANGED <<biz, user, token>>
      \/ \E b \in Bizs, u \in Users :
           /\ ~biz[b].spent
           /\ (q.attach = u /\ FreeToAttach(u, bs)) \/ ~user[u].spent
           /\ Stored(b, u)
  <2> DEFINE owners == IF q.attach # None THEN {q.attach} ELSE {u \in Users : ~user[u].spent}
             free == IF q.attach # None THEN FreeToAttach(q.attach, bs)
                     ELSE \A x \in Users : UserAfterPurge(bs)[x].email # q.email
  <2>1. q.attach # None => q.attach \in Users BY DEF Process
  <2>2. ASSUME NEW u \in owners, free
        PROVE  u \in Users /\ ((q.attach = u /\ FreeToAttach(u, bs)) \/ ~user[u].spent)
    BY <2>1, <2>2
  <2>3. \/ End(p) /\ UNCHANGED <<biz, user, token>>
        \/ \E b \in Bizs, u \in owners :
           /\ ~biz[b].spent /\ free
           /\ Stored(b, u)
    BY <1>0, Zenon DEF Create
  <2> HIDE DEF owners, free, bs, Stored
  <2> QED BY <2>2, <2>3
<1> HIDE DEF bs, Stored
<1> QED BY <1>3, <1>4, <1>5

-----------------------------------------------------------------------------
(* Every step. *)

LEMMA CallKeeps == ASSUME Inductive, NEW p \in Procs, Call(p) PROVE Inductive'
BY ReadDupKeeps, ReadEmailKeeps, ReadMemberKeeps, CreateKeeps, ReapplyKeeps, RetireKeeps,
   InsertKeeps, ResendTargetKeeps, VerifyTargetKeeps, SelectLiveKeeps, ClaimKeeps, DecideReadKeeps,
   DecideKeeps, StatusReadKeeps, ListKeeps, CommitKeeps, CancelNextKeeps, LastReadKeeps,
   CancelDoneKeeps, AuditKeeps, BookReadKeeps, BookKeeps
DEF Call

LEMMA NextInductive == ASSUME Inductive, [Next]_vars PROVE Inductive'
<1>1. CASE UNCHANGED vars
  <2>1. Still /\ UNCHANGED proc BY <1>1 DEF vars, Still
  <2> QED BY <2>1, StillKeeps, OtherStep
<1>2. ASSUME NEW p \in Procs, Call(p) \/ Starts(p) PROVE Inductive'
  BY <1>2, CallKeeps, StartsKeeps
<1>3. CASE Cleanup BY <1>3, CleanupListKeeps, CleanupPurgeKeeps DEF Cleanup
<1>4. ASSUME NEW t \in Tokens, CodeExpires(t) PROVE Inductive' BY <1>4, CodeExpiresKeeps
<1>5. ASSUME NEW b \in Bizs, GrowsOld(b) PROVE Inductive' BY <1>5, GrowsOldKeeps
<1>6. ASSUME NEW x \in Resvs, Ends(x) PROVE Inductive' BY <1>6, EndsKeeps
<1>7. CASE Finished BY <1>1, <1>7 DEF Finished
<1> QED BY <1>1, <1>2, <1>3, <1>4, <1>5, <1>6, <1>7 DEF Next

(* The invariant behind the properties below: what every call of business-signup.ts  *)
(* and businesses.ts knows at each of its statements stays true while others run.   *)
THEOREM OnboardingInvariant == Spec => []Inductive
BY InitInductive, NextInductive, PTL DEF Spec

LEMMA InductiveTypes == Inductive => TypeOK
<1> SUFFICES ASSUME Inductive PROVE TypeOK OBVIOUS
<1>1. \A b \in Bizs : biz[b].there => /\ biz[b].status \in Statuses
                                      /\ biz[b].owner \in Users /\ user[biz[b].owner].there
                                      /\ biz[b].reg \in Regs
  BY RowFacts DEF Tables, Rows, Business
<1>2. \A u \in Users : user[u].there => user[u].email \in Emails BY RowFacts DEF Rows
<1>3. \A t \in Tokens : /\ token[t].attempts \in 0 .. MaxAttempts
                        /\ token[t].there /\ token[t].user = None => token[t].used
                        /\ token[t].user \in Users => user[token[t].user].there
  BY RowFacts DEF Tables, Rows, Code
<1>4. \A r \in Resvs : resv[r].status \in {"NONE", "LIVE", "BY_ADMIN", "ENDED"}
  BY RowFacts DEF Tables, Reservation
<1>5. \A p \in Procs : proc[p].pc \in PCs BY CallFacts DEF Process
<1>6. cleanup \subseteq Bizs BY RowFacts DEF Tables
<1> QED BY <1>1, <1>2, <1>3, <1>4, <1>5, <1>6 DEF TypeOK

(* The rows keep their types, a business always has an owner with an account, and a *)
(* code whose user was purged is used up (purgeBusiness, business-signup.ts).        *)
THEOREM OnboardingTypes == Spec => []TypeOK
BY OnboardingInvariant, InductiveTypes, PTL

(* However many applications, re-applications and purges overlap, an account owns one *)
(* business at most (applyBusiness, business-signup.ts:150).                          *)
THEOREM OneBusiness == Spec => []OneBusinessPerOwner
<1>1. Inductive => OneBusinessPerOwner BY RowFacts
<1> QED BY <1>1, OnboardingInvariant, PTL

(* However many requests try a code at once, it is compared MaxAttempts times at most *)
(* (verifyOtp, tokens.ts).                                                            *)
THEOREM Attempts == Spec => []AttemptsBounded
<1>1. Inductive => AttemptsBounded
  <2> SUFFICES ASSUME Inductive, NEW t \in Tokens PROVE compared[t] <= MaxAttempts
    BY DEF AttemptsBounded
  <2>1. compared[t] = token[t].attempts BY RowFacts DEF Counted
  <2>2. token[t].attempts \in 0 .. MaxAttempts BY RowFacts DEF Tables, Code
  <2> QED BY <2>1, <2>2, BoundsAssumption
<1> QED BY <1>1, OnboardingInvariant, PTL

(* The operator cancels only where a block is committed, and a block that has answered *)
(* with success has left none of the reservations it listed live, whatever customers   *)
(* did meanwhile (setBusinessStatus, businesses.ts:211-246).                           *)
THEOREM Block == Spec => []BlockCancelsListed
<1>1. Inductive => BlockCancelsListed
  <2> SUFFICES ASSUME Inductive PROVE BlockCancelsListed OBVIOUS
  <2>1. \A x \in Resvs : resv[x].status = "BY_ADMIN" => resv[x].biz \in blocks
    BY RowFacts DEF ByAdminBlocked
  <2>2. ASSUME NEW p \in Procs, proc[p].pc = "done", proc[p].cancel
        PROVE  proc[p].listed \cap LiveReservations(proc[p].biz) = {}
    BY <2>2, CallFacts DEF Cancels, LiveReservations
  <2> QED BY <2>1, <2>2 DEF BlockCancelsListed
<1> QED BY <1>1, OnboardingInvariant, PTL

-----------------------------------------------------------------------------
(* Decisions. *)

(* What a step may make of the status s of a business that stays. *)
DecidedStays(s, t) ==
  s \in Operated \cup {"REJECTED"}
    => (t # "REJECTED" \/ s = "REJECTED") /\ (s = "REJECTED" => t \in {"REJECTED", "PENDING"})

DecisionsStay == \A b \in Bizs : biz[b].there /\ biz'[b].there => DecidedStays(biz[b].status, biz'[b].status)

LEMMA NoDecision ==
  ASSUME \A b \in Bizs : biz[b].there /\ biz'[b].there => biz'[b].status = biz[b].status
  PROVE  DecisionsStay
BY DEF DecisionsStay, DecidedStays

LEMMA CallDecisions == ASSUME Inductive, NEW p \in Procs, Call(p) PROVE DecisionsStay
<1>1. CASE UNCHANGED biz BY <1>1, NoDecision
<1>2. CASE Create(p)
  <2>1. ASSUME NEW bs \in SUBSET Bizs, NEW b \in Bizs, NEW v, ~biz[b].spent,
               biz' = [BizAfterPurge(bs) EXCEPT ![b] = v]
        PROVE  DecisionsStay
    <3>1. ~biz[b].there BY <2>1, RowFacts DEF Rows
    <3>2. \A c \in Bizs \ {b} : biz'[c].there => biz'[c] = biz[c] BY <2>1, PurgeFacts
    <3> QED BY <3>1, <3>2, NoDecision
  <2> DEFINE q == proc[p]
             bs == {b \in q.purge \cup ({q.dup} \ {None}) : biz[b].there}
  <2>2. bs \in SUBSET Bizs BY CallFacts DEF Process
  <2>3. UNCHANGED biz \/ \E b \in Bizs : ~biz[b].spent /\ \E v : biz' = [BizAfterPurge(bs) EXCEPT ![b] = v]
    BY <1>2, Zenon DEF Create
  <2> HIDE DEF bs
  <2> QED BY <1>1, <2>1, <2>2, <2>3
<1>3. CASE Reapply(p)
  <2>1. \A b \in Bizs : biz'[b].status \in {biz[b].status, "PENDING"}
    BY <1>3, CallFacts, RowFacts DEF Reapply, Knows, Tables, Business
  <2> QED BY <2>1 DEF DecisionsStay, DecidedStays
<1>4. CASE Claim(p)
  <2>1. UNCHANGED biz \/ biz' = [biz EXCEPT ![proc[p].biz].verified = TRUE] BY <1>4 DEF Claim
  <2>2. \A b \in Bizs : biz'[b].status = biz[b].status BY <2>1, RowFacts DEF Tables, Business
  <2> QED BY <2>2, NoDecision
<1>5. CASE Decide(p)
  <2>1. \A b \in Bizs : biz'[b].status = biz[b].status \/ biz[b].status = "PENDING"
    BY <1>5, RowFacts DEF Decide, StillPending, Tables, Business
  <2> QED BY <2>1 DEF DecisionsStay, DecidedStays, Operated
<1>6. CASE Commit(p)
  <2>1. proc[p].status \in Operated /\ proc[p].to \in Operated
    BY <1>6, CallFacts DEF Commit, Knows, ChangesStatus
  <2>2. \A b \in Bizs : \/ biz'[b].status = biz[b].status
                        \/ biz[b].status \in Operated /\ biz'[b].status \in Operated
    BY <1>6, <2>1, RowFacts DEF Commit, Tables, Business
  <2> QED BY <2>2 DEF DecisionsStay, DecidedStays, Operated
<1>7. CASE Audit(p)
  <2>1. UNCHANGED biz \/ biz' = [biz EXCEPT ![proc[p].biz].logged = TRUE] BY <1>7 DEF Audit
  <2>2. \A b \in Bizs : biz'[b].status = biz[b].status BY <2>1, RowFacts DEF Tables, Business
  <2> QED BY <2>2, NoDecision
<1>8. ASSUME ~Create(p), ~Reapply(p), ~Claim(p), ~Decide(p), ~Commit(p), ~Audit(p) PROVE UNCHANGED biz
  BY <1>8, Zenon
  DEF Call, ReadDup, ReadEmail, ReadMember, Retire, Insert, ResendTarget, VerifyTarget, SelectLive,
      DecideRead, StatusRead, List, CancelNext, CancelFails, CancelDone, Answered, BookRead, Book
<1> QED BY <1>1, <1>2, <1>3, <1>4, <1>5, <1>6, <1>7, <1>8

LEMMA NextDecisions == ASSUME Inductive, [Next]_vars PROVE DecisionsStay
<1>1. CASE UNCHANGED biz BY <1>1, NoDecision
<1>2. ASSUME NEW p \in Procs, Starts(p) PROVE UNCHANGED biz
  <2>1. ASSUME NEW k, NEW r, Start(p, k, r) PROVE UNCHANGED biz BY <2>1 DEF Start
  <2> QED
    BY <1>2, <2>1, Zenon
    DEF Starts, StartApply, StartResend, StartVerify, StartDecide, StartStatus, StartBook
<1>3. ASSUME NEW b \in Bizs, CleanupPurge(b) PROVE DecisionsStay
  <2>1. UNCHANGED biz \/ biz' = BizAfterPurge({b}) BY <1>3 DEF CleanupPurge
  <2>2. \A c \in Bizs : BizAfterPurge({b})[c].there => BizAfterPurge({b})[c] = biz[c] BY PurgeFacts
  <2> QED BY <1>1, <2>1, <2>2, NoDecision
<1>4. ASSUME NEW b \in Bizs, GrowsOld(b) PROVE DecisionsStay
  <2>1. biz' = [biz EXCEPT ![b].old = TRUE] BY <1>4 DEF GrowsOld
  <2>2. \A c \in Bizs : biz'[c].status = biz[c].status BY <2>1, RowFacts DEF Tables, Business
  <2> QED BY <2>2, NoDecision
<1>5. CASE UNCHANGED vars BY <1>1, <1>5 DEF vars
<1>6. CASE CleanupList BY <1>1, <1>6 DEF CleanupList
<1>7. ASSUME NEW t \in Tokens, CodeExpires(t) PROVE DecisionsStay BY <1>1, <1>7 DEF CodeExpires
<1>8. ASSUME NEW x \in Resvs, Ends(x) PROVE DecisionsStay BY <1>1, <1>8 DEF Ends
<1>9. CASE Finished BY <1>5, <1>9 DEF Finished
<1> QED BY <1>1, <1>2, <1>3, <1>4, <1>5, <1>6, <1>7, <1>8, <1>9, CallDecisions DEF Next, Cleanup

(* An application that has been decided is not decided the other way: a shop that was *)
(* approved is not rejected, and a rejected one has to apply again                    *)
(* (decideApplication, businesses.ts:143-151).                                        *)
THEOREM Decided == Spec => DecidedOnce
<1>1. DecisionsStay
        => \A b \in Bizs :
             biz[b].there /\ biz[b].status \in Operated \cup {"REJECTED"} /\ biz'[b].there
               => /\ biz'[b].status # "REJECTED" \/ biz[b].status = "REJECTED"
                  /\ biz[b].status = "REJECTED" => biz'[b].status \in {"REJECTED", "PENDING"}
  BY DEF DecisionsStay, DecidedStays
<1>2. Inductive /\ [Next]_vars
        => [\A b \in Bizs :
             biz[b].there /\ biz[b].status \in Operated \cup {"REJECTED"} /\ biz'[b].there
               => /\ biz'[b].status # "REJECTED" \/ biz[b].status = "REJECTED"
                  /\ biz[b].status = "REJECTED" => biz'[b].status \in {"REJECTED", "PENDING"}]_vars
  BY <1>1, NextDecisions
<1> QED BY <1>2, OnboardingInvariant, PTL DEF Spec, DecidedOnce
----------------------------------------------------------------------------
(* The addresses of a business (Site). *)

Entry == [slug : Addresses, biz : Businesses, recent : BOOLEAN]
Change == [step : {"check", "write", "revalidate"}, biz : Businesses, slug : Addresses, before : Addresses]

SiteTyped ==
  /\ slug \in [Businesses -> Addresses]
  /\ history \subseteq Entry /\ IsFiniteSet(history)
  /\ call \in [Callers -> Change \cup {NoCall}]
  /\ used \in [Businesses -> SUBSET Addresses]

(* A request that writes holds the lock of the row, and has room. *)
OneWriter ==
  \A c, w \in Callers : call[c].step = "write" /\ call[w].step = "write" /\ call[c].biz = call[w].biz => c = w
RoomToWrite == \A c \in Callers : call[c].step = "write" => Cardinality(Recent(call[c].biz)) < SlugChanges

(* The history has one row per address; the row of every address a business has or had names it. *)
OneRow == \A h, k \in history : h.slug = k.slug => h = k
RowOf(rows, b, s) == \E h \in rows : h.slug = s /\ h.biz = b
AllRemembered == \A b \in Businesses : RowOf(history, b, slug[b]) /\ \A s \in used[b] : RowOf(history, b, s)

SiteInductive == SiteTyped /\ OneWriter /\ RoomToWrite /\ AddressesLimited /\ OneRow /\ AllRemembered

(* An address never changes hands: of whatever a business ever chose, the first statement finds *)
(* it while the address is its current one, and the second one finds the current one afterwards. *)
AddressesKept ==
  \A b \in Businesses : \A s \in used[b] :
    IF slug[b] = s THEN Holder(s) = Page(b) ELSE Holder(s) = NotFound /\ Former(s) = MovedTo(slug[b])

(* The image of a finite set under a function is finite. *)
LEMMA ImageFinite ==
  ASSUME NEW S, IsFiniteSet(S), NEW f
  PROVE  IsFiniteSet({f[x] : x \in S})
<1> DEFINE T == {f[x] : x \in S}
           g == [x \in S |-> f[x]]
<1>1. g \in Surjection(S, T) BY DEF Surjection
<1> QED BY <1>1, FS_Surjection

(* The recent addresses of a business are finitely many, and no more when the history shrinks. *)
LEMMA FewerRecent ==
  ASSUME NEW S, NEW T \in SUBSET S, IsFiniteSet(S)
  PROVE  IsFiniteSet(T) /\ Cardinality(T) \in Nat /\ Cardinality(S) \in Nat /\ Cardinality(T) <= Cardinality(S)
BY FS_Subset, FS_CardinalityType

(* The first state: every business has the address it signed up with. *)
LEMMA SiteStarts == SiteInit => SiteInductive
<1> SUFFICES ASSUME SiteInit PROVE SiteInductive OBVIOUS
<1> USE SiteAssumption
<1> DEFINE first == [b \in Businesses |-> [slug |-> Temp[b], biz |-> b, recent |-> TRUE]]
<1>1. history = {first[b] : b \in Businesses} BY DEF SiteInit
<1>2. IsFiniteSet(history)
  <2> HIDE DEF first
  <2> QED BY <1>1, ImageFinite
<1>a. \A h \in history : h.biz \in Businesses /\ h.slug = Temp[h.biz] /\ h = first[h.biz]
  BY DEF SiteInit
<1>b. \A b \in Businesses : first[b] \in Entry BY DEF Entry
<1>c. slug = Temp /\ used = [b \in Businesses |-> {}] /\ call = [c \in Callers |-> NoCall] BY DEF SiteInit
<1> HIDE DEF first
<1>3. SiteTyped BY <1>a, <1>b, <1>c, <1>2 DEF SiteTyped
<1>4. OneWriter /\ RoomToWrite BY <1>c DEF OneWriter, RoomToWrite, NoCall
<1>5. \A b \in Businesses : Recent(b) = {} BY <1>a DEF Recent, Temps
<1>6. AddressesLimited BY <1>5, FS_EmptySet DEF AddressesLimited
<1>7. OneRow BY <1>a DEF OneRow
<1>8. AllRemembered
  <2>1. ASSUME NEW b \in Businesses PROVE RowOf(history, b, slug[b])
    <3>1. first[b] \in history /\ first[b].slug = slug[b] /\ first[b].biz = b BY <1>1, <1>c DEF first
    <3> QED BY <3>1 DEF RowOf
  <2> QED BY <2>1 DEF AllRemembered, SiteInit
<1> QED BY <1>3, <1>4, <1>6, <1>7, <1>8 DEF SiteInductive

(* What neither the history nor a request notices. *)
LEMMA SiteStill == SiteInductive /\ UNCHANGED <<slug, history, call, used>> => SiteInductive'
BY DEF SiteInductive, SiteTyped, OneWriter, RoomToWrite, AddressesLimited, OneRow, AllRemembered, RowOf, Recent

(* A request moves on without writing, and not into its writes. *)
LEMMA RequestMoves ==
  ASSUME SiteInductive, UNCHANGED <<slug, history, used>>,
         NEW c \in Callers, NEW r \in Change \cup {NoCall}, r.step # "write", call' = [call EXCEPT ![c] = r]
  PROVE  SiteInductive'
<1> USE DEF SiteInductive
<1>1. SiteTyped' BY DEF SiteTyped
<1>2. \A w \in Callers : call'[w].step = "write" => call'[w] = call[w] BY DEF SiteTyped
<1>3. OneWriter' BY <1>2 DEF OneWriter
<1>4. RoomToWrite'
  <2>1. \A w \in Callers : call'[w].step = "write" => Cardinality(Recent(call'[w].biz)) < SlugChanges
    BY <1>2 DEF RoomToWrite
  <2> QED BY <2>1 DEF RoomToWrite, Recent
<1> QED BY <1>1, <1>3, <1>4 DEF AddressesLimited, OneRow, AllRemembered, RowOf, Recent

(* A change is asked for. *)
LEMMA AskKeeps ==
  ASSUME SiteInductive, NEW c \in Callers, NEW b \in Businesses, NEW s \in Addresses, Ask(c, b, s)
  PROVE  SiteInductive'
<1> DEFINE r == [step |-> "check", biz |-> b, slug |-> s, before |-> slug[b]]
<1>1. r \in Change BY DEF SiteInductive, SiteTyped, Change
<1>2. call' = [call EXCEPT ![c] = r] /\ UNCHANGED <<slug, history, used>> BY DEF Ask
<1> QED BY <1>1, <1>2, RequestMoves

(* The row is locked and the limit counted. *)
LEMMA CheckKeeps == ASSUME SiteInductive, NEW c \in Callers, Check(c) PROVE SiteInductive'
<1> DEFINE b == call[c].biz
<1>0. call[c].step = "check" /\ Unlocked(b) /\ UNCHANGED <<slug, history, used>> BY DEF Check
<1>1. call[c] \in Change BY <1>0 DEF SiteInductive, SiteTyped, NoCall
<1>2. CASE Closes(c)
  <2>1. NoCall.step # "write" BY DEF NoCall
  <2> QED BY <1>0, <1>2, <2>1, RequestMoves DEF Closes
<1>3. CASE Proceed(c, "write") /\ Cardinality(Recent(b)) < SlugChanges
  <2> DEFINE r == [call[c] EXCEPT !.step = "write"]
  <2>1. call' = [call EXCEPT ![c] = r] BY <1>3 DEF Proceed
  <2>2. r \in Change /\ r.step = "write" /\ r.biz = b BY <1>1 DEF Change
  <2>3. call'[c] = r /\ \A w \in Callers : w # c => call'[w] = call[w] BY <2>1 DEF SiteInductive, SiteTyped
  <2> HIDE DEF r
  <2>4. SiteTyped' BY <1>0, <2>1, <2>2 DEF SiteInductive, SiteTyped
  <2>5. OneWriter'
    <3> SUFFICES ASSUME NEW w \in Callers, NEW v \in Callers, call'[w].step = "write", call'[v].step = "write",
                        call'[w].biz = call'[v].biz
                 PROVE  w = v
      BY DEF OneWriter
    <3> QED BY <1>0, <2>2, <2>3 DEF Unlocked, SiteInductive, OneWriter
  <2>6. \A d : Recent(d)' = Recent(d) BY <1>0 DEF Recent
  <2>7. RoomToWrite'
    <3>1. ASSUME NEW w \in Callers, call'[w].step = "write" PROVE Cardinality(Recent(call'[w].biz)) < SlugChanges
      BY <1>3, <2>2, <2>3, <3>1 DEF SiteInductive, RoomToWrite
    <3> QED BY <1>0, <3>1 DEF RoomToWrite, Recent
  <2>8. (AddressesLimited /\ OneRow /\ AllRemembered)'
    BY <1>0 DEF SiteInductive, AddressesLimited, OneRow, AllRemembered, RowOf, Recent
  <2> QED BY <2>4, <2>5, <2>7, <2>8 DEF SiteInductive
<1>4. Cardinality(Recent(b)) \in Nat
  BY FewerRecent DEF SiteInductive, SiteTyped, Recent
<1> QED BY <1>2, <1>3, <1>4, SiteAssumption DEF Check

(* The address is written: the history grows by its row, or had it. *)
LEMMA WriteKeeps == ASSUME SiteInductive, NEW c \in Callers, Write(c) PROVE SiteInductive'
<1>0. call[c].step = "write" BY DEF Write
<1>1. call[c] \in Change BY <1>0 DEF SiteInductive, SiteTyped, NoCall
<1>a. PICK b, s : b = call[c].biz /\ s = call[c].slug OBVIOUS
<1> DEFINE n == [slug |-> s, biz |-> b, recent |-> TRUE]
<1>2. CASE Closes(c) /\ UNCHANGED <<slug, history, used>>
  <2>1. NoCall.step # "write" BY DEF NoCall
  <2> QED BY <1>2, <2>1, RequestMoves DEF Closes
<1>3. CASE /\ ~TakenByOther(b, s)
           /\ slug' = [slug EXCEPT ![b] = s]
           /\ history' = Recorded(b, s)
           /\ used' = [used EXCEPT ![b] = @ \cup {s}]
           /\ Proceed(c, "revalidate")
  <2> DEFINE r == [call[c] EXCEPT !.step = "revalidate"]
  <2>1. call' = [call EXCEPT ![c] = r] BY <1>3 DEF Proceed
  <2>2. r \in Change /\ r.step # "write" /\ b \in Businesses /\ s \in Addresses /\ n \in Entry
    BY <1>1, <1>a DEF Change, Entry
  <2>3. call'[c] = r /\ \A w \in Callers : w # c => call'[w] = call[w] BY <2>1 DEF SiteInductive, SiteTyped
  <2>4. \A h \in history : h.slug = s => h.biz = b BY <1>3 DEF TakenByOther
  <2>5. \/ history' = history /\ RowOf(history, b, s)
        \/ history' = history \cup {n} /\ \A h \in history : h.slug # s
    BY <1>3, <2>4 DEF Recorded, RowOf
  <2>n. n.slug = s /\ n.biz = b OBVIOUS
  <2> HIDE DEF r, n
  <2>6. SiteTyped'
    <3>1. history' \subseteq Entry /\ IsFiniteSet(history')
      BY <2>2, <2>5, FS_AddElement DEF SiteInductive, SiteTyped
    <3>2. slug' \in [Businesses -> Addresses] /\ used' \in [Businesses -> SUBSET Addresses]
      BY <1>3, <2>2 DEF SiteInductive, SiteTyped
    <3>3. call' \in [Callers -> Change \cup {NoCall}] BY <2>1, <2>2 DEF SiteInductive, SiteTyped
    <3> QED BY <3>1, <3>2, <3>3 DEF SiteTyped
  <2>7. OneWriter'
    <3> SUFFICES ASSUME NEW w \in Callers, NEW v \in Callers, call'[w].step = "write", call'[v].step = "write",
                        call'[w].biz = call'[v].biz
                 PROVE  w = v
      BY DEF OneWriter
    <3> QED BY <2>2, <2>3 DEF SiteInductive, OneWriter
  <2>8. \A d \in Businesses \ {b} : Recent(d)' = Recent(d) BY <2>5, <2>n DEF Recent
  <2>9. Cardinality(Recent(b)') <= SlugChanges
    <3>1. IsFiniteSet(Recent(b)) /\ Cardinality(Recent(b)) \in Nat
      BY FewerRecent DEF SiteInductive, SiteTyped, Recent
    <3>2. Cardinality(Recent(b)) < SlugChanges BY <1>0, <1>a DEF SiteInductive, RoomToWrite
    <3>3. Recent(b)' \subseteq Recent(b) \cup {n} BY <2>5 DEF Recent
    <3>4. IsFiniteSet(Recent(b) \cup {n}) /\ Cardinality(Recent(b) \cup {n}) <= Cardinality(Recent(b)) + 1
      <4>1. /\ IsFiniteSet(Recent(b) \cup {n})
            /\ Cardinality(Recent(b) \cup {n})
                 = IF n \in Recent(b) THEN Cardinality(Recent(b)) ELSE Cardinality(Recent(b)) + 1
        <5> HIDE DEF Recent
        <5> QED BY <3>1, FS_AddElement, Zenon
      <4> QED BY <3>1, <4>1
    <3>5. /\ Cardinality(Recent(b)') <= Cardinality(Recent(b) \cup {n})
          /\ Cardinality(Recent(b)') \in Nat /\ Cardinality(Recent(b) \cup {n}) \in Nat
      BY <3>3, <3>4, FewerRecent
    <3> QED BY <3>1, <3>2, <3>4, <3>5, SiteAssumption
  <2>10. AddressesLimited'
    <3>1. \A d \in Businesses : Cardinality(Recent(d)') <= SlugChanges
      BY <2>8, <2>9 DEF SiteInductive, AddressesLimited
    <3> QED BY <3>1 DEF AddressesLimited
  <2>11. RoomToWrite'
    <3>1. ASSUME NEW w \in Callers, call'[w].step = "write"
          PROVE  call'[w] = call[w] /\ call[w].biz \in Businesses \ {b}
      <4>1. w # c /\ call'[w] = call[w] BY <2>2, <2>3, <3>1
      <4>2. call[w] \in Change BY <3>1, <4>1 DEF SiteInductive, SiteTyped, NoCall
      <4>3. call[w].biz # b BY <1>0, <1>a, <3>1, <4>1 DEF SiteInductive, OneWriter
      <4> QED BY <4>1, <4>2, <4>3 DEF Change
    <3>2. \A w \in Callers : call'[w].step = "write" => Cardinality(Recent(call[w].biz)') < SlugChanges
      BY <2>8, <3>1 DEF SiteInductive, RoomToWrite
    <3> QED BY <3>1, <3>2 DEF RoomToWrite, Recent
  <2>12. OneRow' BY <2>5, <2>n DEF SiteInductive, OneRow
  <2>13. AllRemembered'
    <3>1. \A d, a : RowOf(history, d, a) => RowOf(history', d, a) BY <2>5 DEF RowOf
    <3>2. RowOf(history', b, s) BY <2>5, <2>n DEF RowOf
    <3>3. slug'[b] = s /\ used'[b] = used[b] \cup {s} BY <1>3, <2>2 DEF SiteInductive, SiteTyped
    <3>4. \A d \in Businesses : d # b => slug'[d] = slug[d] /\ used'[d] = used[d]
      BY <1>3 DEF SiteInductive, SiteTyped
    <3>5. \A d \in Businesses : RowOf(history', d, slug'[d]) /\ \A a \in used'[d] : RowOf(history', d, a)
      BY <3>1, <3>2, <3>3, <3>4 DEF SiteInductive, AllRemembered
    <3> QED BY <3>5 DEF AllRemembered, RowOf
  <2> QED BY <2>6, <2>7, <2>10, <2>11, <2>12, <2>13 DEF SiteInductive
<1> QED BY <1>2, <1>3, <1>a DEF Write

(* The pages of the old and of the new address are forgotten; the request ends. *)
LEMMA RevalidateKeeps == ASSUME SiteInductive, NEW c \in Callers, Revalidate(c) PROVE SiteInductive'
<1>1. NoCall.step # "write" BY DEF NoCall
<1> QED BY <1>1, RequestMoves DEF Revalidate, Closes

(* Thirty days pass: no address is recent any more, and none is forgotten. *)
LEMMA MonthKeeps == ASSUME SiteInductive, Month PROVE SiteInductive'
<1> DEFINE older == [h \in history |-> [h EXCEPT !.recent = FALSE]]
<1>0. history' = {older[h] : h \in history} /\ UNCHANGED <<slug, call, used>> BY DEF Month
<1>1. \A h \in history : /\ older[h] \in Entry /\ ~older[h].recent
                         /\ older[h].slug = h.slug /\ older[h].biz = h.biz
  BY DEF SiteInductive, SiteTyped, Entry
<1> HIDE DEF older
<1>2. IsFiniteSet(history') BY <1>0, ImageFinite DEF SiteInductive, SiteTyped
<1>3. SiteTyped' BY <1>0, <1>1, <1>2 DEF SiteInductive, SiteTyped
<1>4. \A d : Recent(d)' = {} BY <1>0, <1>1 DEF Recent
<1>5. AddressesLimited' BY <1>4, FS_EmptySet, SiteAssumption DEF AddressesLimited
<1>6. RoomToWrite'
  <2>1. ASSUME NEW w \in Callers, call[w].step = "write" PROVE 0 < SlugChanges
    <3>1. Cardinality(Recent(call[w].biz)) < SlugChanges /\ Cardinality(Recent(call[w].biz)) \in Nat
      BY <2>1, FewerRecent DEF SiteInductive, RoomToWrite, SiteTyped, Recent
    <3> QED BY <3>1, SiteAssumption
  <2>2. \A w \in Callers : call[w].step = "write" => Cardinality(Recent(call[w].biz)') < SlugChanges
    BY <1>4, <2>1, FS_EmptySet
  <2> QED BY <1>0, <2>2 DEF RoomToWrite, Recent
<1>7. OneWriter' BY <1>0 DEF SiteInductive, OneWriter
<1>8. OneRow' BY <1>0, <1>1 DEF SiteInductive, OneRow
<1>9. AllRemembered'
  <2>1. \A d, a : RowOf(history, d, a) => RowOf(history', d, a) BY <1>0, <1>1 DEF RowOf
  <2>2. \A d \in Businesses : RowOf(history', d, slug'[d]) /\ \A a \in used'[d] : RowOf(history', d, a)
    BY <1>0, <2>1 DEF SiteInductive, AllRemembered
  <2> QED BY <2>2 DEF AllRemembered, RowOf
<1> QED BY <1>3, <1>5, <1>6, <1>7, <1>8, <1>9 DEF SiteInductive

(* A render changes nothing of the console's. *)
LEMMA VisitsKeep == ASSUME NEW s \in Visited, Visit(s) \/ Rendering(s) PROVE UNCHANGED console
BY DEF Visit, Rendering, Look, Again, Load, Offer, Renders, Answers

(* Every step. *)
LEMMA SiteStep == SiteInductive /\ [SiteNext]_siteVars => SiteInductive'
<1> SUFFICES ASSUME SiteInductive, [SiteNext]_siteVars PROVE SiteInductive' OBVIOUS
<1>1. CASE \E s \in Visited : Visit(s) \/ Rendering(s) BY <1>1, VisitsKeep, SiteStill DEF console
<1>2. CASE \E s \in Visited : Age(s) BY <1>2, SiteStill DEF Age, console
<1>3. ASSUME NEW c \in Callers, Changing(c) PROVE SiteInductive'
  BY <1>3, CheckKeeps, WriteKeeps, RevalidateKeeps DEF Changing
<1>4. ASSUME NEW c \in Callers, NEW b \in Businesses, NEW s \in Addresses, Ask(c, b, s) PROVE SiteInductive'
  BY <1>4, AskKeeps
<1>5. CASE \E b \in Businesses : SetInfo(b) \/ SetStatus(b) \/ SetScheme(b) \/ Publish(b)
  BY <1>5, SiteStill DEF SetInfo, SetStatus, SetScheme, Publish, Shown
<1>6. CASE \E p \in Products : ToggleProduct(p) BY <1>6, SiteStill DEF ToggleProduct, Shown
<1>7. CASE \E r \in Resources : ToggleResource(r) BY <1>7, SiteStill DEF ToggleResource, Shown
<1>8. CASE Month BY <1>8, MonthKeeps
<1>9. CASE UNCHANGED siteVars BY <1>9, SiteStill DEF siteVars
<1> QED BY <1>1, <1>2, <1>3, <1>4, <1>5, <1>6, <1>7, <1>8, <1>9 DEF SiteNext

(* The limit on new addresses holds for every number of parallel requests: the row is locked    *)
(* from the count to the insert.                                                                *)
THEOREM LimitOnAddresses == SiteSpec => []AddressesLimited
<1>1. SiteInductive => AddressesLimited BY DEF SiteInductive
<1> QED BY <1>1, SiteStarts, SiteStep, PTL DEF SiteSpec

(* An address once chosen is found as the one of the business that chose it. *)
LEMMA KeptNow == SiteInductive => AddressesKept
<1> SUFFICES ASSUME SiteInductive, NEW b \in Businesses, NEW s \in used[b]
             PROVE  IF slug[b] = s THEN Holder(s) = Page(b)
                    ELSE Holder(s) = NotFound /\ Former(s) = MovedTo(slug[b])
  BY DEF AddressesKept
<1>1. \A x \in Businesses, h \in history : h.slug = slug[x] => h.biz = x
  BY DEF SiteInductive, AllRemembered, RowOf, OneRow
<1>2. \A x, y \in Businesses : slug[x] = slug[y] => x = y
  BY <1>1 DEF SiteInductive, AllRemembered, RowOf
<1>3. \A h \in history : h.slug = s => h.biz = b
  BY DEF SiteInductive, AllRemembered, RowOf, OneRow
<1>4. \E h \in history : h.slug = s BY DEF SiteInductive, AllRemembered, RowOf
<1>5. CASE slug[b] = s
  <2>1. (CHOOSE x \in Businesses : slug[x] = s) = b BY <1>2, <1>5
  <2> QED BY <1>5, <2>1 DEF Holder
<1>6. CASE slug[b] # s
  <2>1. Holder(s) = NotFound BY <1>1, <1>3, <1>4, <1>6 DEF Holder
  <2> DEFINE left == {h \in history : h.slug = s /\ slug[h.biz] # s}
  <2>2. left # {} /\ \A h \in left : h.biz = b BY <1>3, <1>4, <1>6
  <2>3. (CHOOSE h \in left : TRUE) \in left BY <2>2
  <2>4. Former(s) = MovedTo(slug[(CHOOSE h \in left : TRUE).biz]) BY <2>2 DEF Former
  <2> HIDE DEF left
  <2> QED BY <1>6, <2>1, <2>2, <2>3, <2>4
<1> QED BY <1>5, <1>6

(* The safety behind LinksRecover: no business takes an address another one ever chose.         *)
THEOREM AddressesStay == SiteSpec => []AddressesKept
BY SiteStarts, SiteStep, KeptNow, PTL DEF SiteSpec

-----------------------------------------------------------------------------
(* The answers that are kept or being rendered (Site). *)

Answer == [kind : {"page"}, biz : Businesses] \cup [kind : {"moved"}, to : Addresses] \cup {NotFound, Unasked}
Render ==
  {NoVisit, [step |-> "history"]} \cup [step : {"again"}, answer : Answer]
  \cup [step : {"load", "products"}, biz : Businesses, answer : Answer]

AnswersTyped == cache \in [Visited -> Answer] /\ visit \in [Visited -> Render]

(* A row of the history is the first address of its business or one it chose; what is asked for *)
(* is no temporary address; and a business that chose one has one of those it chose.            *)
Chosen ==
  /\ \A h \in history : h.slug = Temp[h.biz] \/ h.slug \in used[h.biz]
  /\ \A b \in Businesses : used[b] \cap Temps = {} /\ (used[b] # {} => slug[b] \in used[b])
  /\ \A c \in Callers : call[c] # NoCall => call[c].slug \notin Temps

(* An answer for the address s, by the rows and by what was chosen so far. *)
OwnAnswer(rows, chosen, s, a) ==
  /\ a.kind = "page" => RowOf(rows, a.biz, s)
  /\ a.kind = "moved" /\ s \notin Temps => \E d \in Businesses : RowOf(rows, d, s) /\ a.to \in chosen[d]

Carrying == {"again", "load", "products"}
AnswersOwn ==
  \A s \in Visited : /\ OwnAnswer(history, used, s, cache[s])
                     /\ visit[s].step \in Carrying => OwnAnswer(history, used, s, visit[s].answer)

Own == AnswersTyped /\ Chosen /\ AnswersOwn

(* Rows and choices are only added. *)
Remembers ==
  /\ \A d, a : RowOf(history, d, a) => RowOf(history', d, a)
  /\ \A d \in Businesses : used[d] \subseteq used'[d]

LEMMA AnswerStays ==
  ASSUME Remembers, NEW s, NEW a, OwnAnswer(history, used, s, a) PROVE OwnAnswer(history', used', s, a)
BY DEF Remembers, OwnAnswer

LEMMA OwnAtFirst == SiteInit => Own
<1> SUFFICES ASSUME SiteInit PROVE Own OBVIOUS
<1>1. AnswersTyped BY DEF SiteInit, AnswersTyped, Answer, Render
<1>2. Chosen BY SiteAssumption DEF SiteInit, Chosen
<1>3. AnswersOwn BY DEF SiteInit, AnswersOwn, OwnAnswer, Unasked, NoVisit, Carrying
<1> QED BY <1>1, <1>2, <1>3 DEF Own

(* No answer and no render, or the ones there were: what a step of the console leaves. *)
LEMMA ConsoleKeepsAnswers ==
  ASSUME Own, Remembers, visit' = visit, cache' \in [Visited -> Answer],
         \A s \in Visited : cache'[s] \in {cache[s], Unasked}
  PROVE  AnswersTyped' /\ AnswersOwn'
<1>1. AnswersTyped' BY DEF Own, AnswersTyped
<1>2. ASSUME NEW s \in Visited
      PROVE  /\ OwnAnswer(history', used', s, cache'[s])
             /\ visit'[s].step \in Carrying => OwnAnswer(history', used', s, visit'[s].answer)
  <2>1. OwnAnswer(history, used, s, cache[s]) BY DEF Own, AnswersOwn
  <2>2. OwnAnswer(history', used', s, cache[s]) BY <2>1, AnswerStays
  <2>3. OwnAnswer(history', used', s, Unasked) BY DEF OwnAnswer, Unasked
  <2>4. visit[s].step \in Carrying => OwnAnswer(history', used', s, visit[s].answer)
    BY AnswerStays DEF Own, AnswersOwn
  <2> QED BY <2>2, <2>3, <2>4
<1> QED BY <1>1, <1>2 DEF AnswersOwn

(* What revalidatePath forgets, or nothing. *)
LEMMA Forgets ==
  ASSUME AnswersTyped, NEW S, Revalidated(S) \/ cache' = cache
  PROVE  cache' \in [Visited -> Answer] /\ \A s \in Visited : cache'[s] \in {cache[s], Unasked}
BY DEF AnswersTyped, Revalidated, Answer

LEMMA StillRemembers == UNCHANGED <<history, used>> => Remembers
BY DEF Remembers

LEMMA StillChosen == Chosen /\ UNCHANGED <<slug, history, used, call>> => Chosen'
BY DEF Chosen

(* A step of a request that writes nothing. *)
LEMMA RequestChosen ==
  ASSUME SiteInductive, Chosen, UNCHANGED <<slug, history, used>>,
         NEW c \in Callers, NEW r, r # NoCall => r.slug \notin Temps, call' = [call EXCEPT ![c] = r]
  PROVE  Chosen'
<1>1. \A w \in Callers : call'[w] = IF w = c THEN r ELSE call[w] BY DEF SiteInductive, SiteTyped
<1>2. \A w \in Callers : call'[w] # NoCall => call'[w].slug \notin Temps BY <1>1 DEF Chosen
<1> QED BY <1>2 DEF Chosen

(* An edit that leaves addresses and requests alone. *)
LEMMA EditKeepsOwn ==
  ASSUME Own, UNCHANGED <<slug, history, used, call, visit>>, NEW S, Revalidated(S) \/ cache' = cache
  PROVE  Own'
<1>1. Chosen' BY StillChosen DEF Own
<1>2. AnswersTyped' /\ AnswersOwn' BY Forgets, ConsoleKeepsAnswers, StillRemembers DEF Own
<1> QED BY <1>1, <1>2 DEF Own

(* An answer is given and kept. *)
LEMMA AnswersKeep ==
  ASSUME Own, NEW s \in Visited, NEW a \in Answer, OwnAnswer(history, used, s, a), Answers(s, a)
  PROVE  Own'
<1>1. UNCHANGED console /\ cache' = [cache EXCEPT ![s] = a] /\ visit' = [visit EXCEPT ![s] = NoVisit]
  BY DEF Answers
<1>2. Chosen' BY <1>1, StillChosen DEF Own, console
<1>3. AnswersTyped' BY <1>1 DEF Own, AnswersTyped, Render
<1>4. ASSUME NEW t \in Visited
      PROVE  /\ OwnAnswer(history', used', t, cache'[t])
             /\ visit'[t].step \in Carrying => OwnAnswer(history', used', t, visit'[t].answer)
  <2>1. UNCHANGED <<history, used>> BY <1>1 DEF console
  <2>2. CASE t = s
    <3>1. cache'[t] = a /\ visit'[t] = NoVisit BY <1>1, <2>2 DEF Own, AnswersTyped
    <3>2. NoVisit.step \notin Carrying BY DEF NoVisit, Carrying
    <3> QED BY <2>1, <2>2, <3>1, <3>2
  <2>3. CASE t # s
    <3>1. cache'[t] = cache[t] /\ visit'[t] = visit[t] BY <1>1, <2>3 DEF Own, AnswersTyped
    <3> QED BY <2>1, <3>1 DEF Own, AnswersOwn
  <2> QED BY <2>2, <2>3
<1> QED BY <1>2, <1>3, <1>4 DEF Own, AnswersOwn

(* A render goes on. *)
LEMMA RendersKeep ==
  ASSUME Own, NEW s \in Visited, NEW v \in Render, Renders(s, v),
         v.step \in Carrying => OwnAnswer(history, used, s, v.answer)
  PROVE  Own'
<1>1. UNCHANGED <<console, cache>> /\ visit' = [visit EXCEPT ![s] = v] BY DEF Renders, kept
<1>2. Chosen' BY <1>1, StillChosen DEF Own, console
<1>3. AnswersTyped' BY <1>1 DEF Own, AnswersTyped
<1>4. ASSUME NEW t \in Visited
      PROVE  /\ OwnAnswer(history', used', t, cache'[t])
             /\ visit'[t].step \in Carrying => OwnAnswer(history', used', t, visit'[t].answer)
  <2>1. UNCHANGED <<history, used>> BY <1>1 DEF console
  <2>2. visit'[t] = IF t = s THEN v ELSE visit[t] BY <1>1 DEF Own, AnswersTyped
  <2> QED BY <1>1, <2>1, <2>2 DEF Own, AnswersOwn
<1> QED BY <1>2, <1>3, <1>4 DEF Own, AnswersOwn

(* What the two statements of resolveSlug find is the address's own. *)
LEMMA HolderOwns ==
  ASSUME SiteInductive, NEW s, Holder(s) # NotFound
  PROVE  /\ Holder(s).biz \in Businesses /\ Holder(s) \in Answer
         /\ OwnAnswer(history, used, s, Holder(s))
<1> DEFINE b == CHOOSE x \in Businesses : slug[x] = s
<1>1. (\E x \in Businesses : slug[x] = s) /\ Holder(s) = Page(b) BY DEF Holder
<1>2. b \in Businesses /\ slug[b] = s BY <1>1
<1> HIDE DEF b
<1>3. RowOf(history, b, s) BY <1>2 DEF SiteInductive, AllRemembered
<1> QED BY <1>1, <1>2, <1>3 DEF Page, Answer, OwnAnswer

LEMMA FormerOwns ==
  ASSUME SiteInductive, Own, NEW s, Former(s) # NotFound
  PROVE  Former(s) \in Answer /\ OwnAnswer(history, used, s, Former(s))
<1> DEFINE left == {h \in history : h.slug = s /\ slug[h.biz] # s}
           h == CHOOSE k \in left : TRUE
<1>1. left # {} /\ Former(s) = MovedTo(slug[h.biz]) BY DEF Former
<1>2. h \in left BY <1>1
<1>3. h \in history /\ h.slug = s /\ h.biz \in Businesses BY <1>2 DEF SiteInductive, SiteTyped, Entry
<1> HIDE DEF left, h
<1>4. slug[h.biz] \in Addresses BY <1>3 DEF SiteInductive, SiteTyped
<1>5. RowOf(history, h.biz, s) BY <1>3 DEF RowOf
<1>6. s \notin Temps => slug[h.biz] \in used[h.biz] BY <1>3 DEF Own, Chosen, Temps
<1> QED BY <1>1, <1>3, <1>4, <1>5, <1>6 DEF MovedTo, Answer, OwnAnswer

(* A render, statement by statement. *)
LEMMA RenderingOwn ==
  ASSUME SiteInductive, Own, NEW s \in Visited, Visit(s) \/ Rendering(s) PROVE Own'
<1>0. NotFound \in Answer /\ OwnAnswer(history, used, s, NotFound) BY DEF Answer, OwnAnswer, NotFound
<1>1. visit[s] \in Render BY DEF Own, AnswersTyped
<1>2. CASE Visit(s)
  <2>1. CASE Holder(s) = NotFound
    <3> DEFINE v == [step |-> "history"]
    <3>1. v \in Render /\ v.step \notin Carrying BY DEF Render, Carrying
    <3>2. Renders(s, v) BY <1>2, <2>1 DEF Visit
    <3> HIDE DEF v
    <3> QED BY <3>1, <3>2, RendersKeep
  <2>2. CASE Holder(s) # NotFound
    <3> DEFINE v == Found(s, Holder(s), Holder(s))
    <3>1. v \in Render /\ v.answer = Holder(s) BY <2>2, HolderOwns DEF Found, Render
    <3>2. Renders(s, v) BY <1>2, <2>2 DEF Visit
    <3>3. OwnAnswer(history, used, s, Holder(s)) BY <2>2, HolderOwns
    <3> HIDE DEF v
    <3> QED BY <3>1, <3>2, <3>3, RendersKeep
  <2> QED BY <2>1, <2>2
<1>3. CASE Look(s)
  <2>1. CASE Former(s) = NotFound BY <1>0, <1>3, <2>1, AnswersKeep DEF Look
  <2>2. CASE Former(s) # NotFound
    <3> DEFINE v == [step |-> "again", answer |-> Former(s)]
    <3>1. v \in Render /\ v.answer = Former(s) BY <2>2, FormerOwns DEF Render
    <3>2. Renders(s, v) BY <1>3, <2>2 DEF Look
    <3>3. OwnAnswer(history, used, s, Former(s)) BY <2>2, FormerOwns
    <3> HIDE DEF v
    <3> QED BY <3>1, <3>2, <3>3, RendersKeep
  <2> QED BY <2>1, <2>2
<1>4. CASE Again(s)
  <2> DEFINE t == visit[s].answer.to
  <2>0. visit[s].step = "again" BY <1>4 DEF Again
  <2>1. visit[s].answer \in Answer /\ OwnAnswer(history, used, s, visit[s].answer)
    BY <1>1, <2>0 DEF Render, NoVisit, Own, AnswersOwn, Carrying
  <2>2. CASE Holder(t) = NotFound BY <1>0, <1>4, <2>2, AnswersKeep DEF Again
  <2>3. CASE Holder(t) # NotFound
    <3> DEFINE v == Found(s, Holder(t), visit[s].answer)
    <3>0. Holder(t).biz \in Businesses BY <2>3, HolderOwns
    <3>1. v \in Render /\ v.answer = visit[s].answer BY <2>1, <3>0 DEF Found, Render
    <3>2. Renders(s, v) BY <1>4, <2>3 DEF Again
    <3> HIDE DEF v
    <3> QED BY <2>1, <3>1, <3>2, RendersKeep
  <2> QED BY <2>2, <2>3
<1>5. CASE Load(s)
  <2>0. visit[s].step = "load" BY <1>5 DEF Load
  <2>1. /\ visit[s] \in [step : {"load", "products"}, biz : Businesses, answer : Answer]
        /\ OwnAnswer(history, used, s, visit[s].answer)
    BY <1>1, <2>0 DEF Render, NoVisit, Own, AnswersOwn, Carrying
  <2>2. CASE ~GateOpen(visit[s].biz) BY <1>0, <1>5, <2>2, AnswersKeep DEF Load
  <2>3. CASE GateOpen(visit[s].biz)
    <3> DEFINE v == [visit[s] EXCEPT !.step = "products"]
    <3>1. v \in Render /\ v.answer = visit[s].answer BY <2>1 DEF Render
    <3>2. Renders(s, v) BY <1>5, <2>3 DEF Load
    <3> HIDE DEF v
    <3> QED BY <2>1, <3>1, <3>2, RendersKeep
  <2> QED BY <2>2, <2>3
<1>6. CASE Offer(s)
  <2>0. visit[s].step = "products" BY <1>6 DEF Offer
  <2>1. visit[s].answer \in Answer /\ OwnAnswer(history, used, s, visit[s].answer)
    BY <1>1, <2>0 DEF Render, NoVisit, Own, AnswersOwn, Carrying
  <2>2. Answers(s, NotFound) \/ Answers(s, visit[s].answer) BY <1>6 DEF Offer
  <2> QED BY <1>0, <2>1, <2>2, AnswersKeep
<1> QED BY <1>2, <1>3, <1>4, <1>5, <1>6 DEF Rendering

(* The request of a console, its writes included. *)
LEMMA ChangingOwn == ASSUME SiteInductive, Own, NEW c \in Callers, Changing(c) PROVE Own'
<1>1. call \in [Callers -> Change \cup {NoCall}] BY DEF SiteInductive, SiteTyped
<1>2. call[c] # NoCall /\ call[c] \in Change /\ call[c].slug \notin Temps
  BY <1>1 DEF Changing, Check, Write, Revalidate, NoCall, Own, Chosen
<1>3. ASSUME NEW st, Proceed(c, st), UNCHANGED <<slug, history, used>> PROVE Chosen'
  <2> DEFINE r == [call[c] EXCEPT !.step = st]
  <2>1. r.slug = call[c].slug BY <1>2 DEF Change
  <2>2. call' = [call EXCEPT ![c] = r] BY <1>3 DEF Proceed
  <2> HIDE DEF r
  <2> QED BY <1>2, <1>3, <2>1, <2>2, RequestChosen DEF Own
<1>4. ASSUME Closes(c), UNCHANGED <<slug, history, used>> PROVE Chosen'
  BY <1>4, RequestChosen DEF Own, Closes
<1>5. CASE Check(c)
  <2>1. UNCHANGED <<slug, history, used, kept, visit>> BY <1>5 DEF Check
  <2>2. Chosen' BY <1>3, <1>4, <1>5, <2>1 DEF Check
  <2>3. cache' = cache BY <2>1 DEF kept
  <2> QED BY <2>1, <2>2, <2>3, Forgets, ConsoleKeepsAnswers, StillRemembers DEF Own
<1>6. CASE Revalidate(c)
  <2>1. UNCHANGED <<slug, history, used, visit>> /\ \E S : Revalidated(S) BY <1>6 DEF Revalidate
  <2>2. Chosen' BY <1>4, <1>6, <2>1 DEF Revalidate
  <2> QED BY <2>1, <2>2, Forgets, ConsoleKeepsAnswers, StillRemembers DEF Own
<1>7. CASE Write(c)
  <2>0. UNCHANGED <<kept, visit>> /\ cache' = cache BY <1>7 DEF Write, kept
  <2>1. CASE Closes(c) /\ UNCHANGED <<slug, history, used>>
    <3>1. Chosen' BY <1>4, <2>1
    <3> QED BY <2>0, <2>1, <3>1, Forgets, ConsoleKeepsAnswers, StillRemembers DEF Own
  <2>2. PICK b, s : b = call[c].biz /\ s = call[c].slug OBVIOUS
  <2>3. CASE /\ slug' = [slug EXCEPT ![b] = s]
             /\ history' = Recorded(b, s)
             /\ used' = [used EXCEPT ![b] = @ \cup {s}]
             /\ Proceed(c, "revalidate")
    <3>1. b \in Businesses /\ s \in Addresses /\ s \notin Temps BY <1>2, <2>2 DEF Change
    <3>2. slug'[b] = s /\ used'[b] = used[b] \cup {s}
      BY <2>3, <3>1 DEF SiteInductive, SiteTyped
    <3>3. \A d \in Businesses : d # b => slug'[d] = slug[d] /\ used'[d] = used[d]
      BY <2>3, <3>1 DEF SiteInductive, SiteTyped
    <3>4. \A h \in history' : h \in history \/ (h.slug = s /\ h.biz = b) BY <2>3 DEF Recorded
    <3>5. history \subseteq history' BY <2>3 DEF Recorded
    <3>6. Remembers BY <3>2, <3>3, <3>5 DEF Remembers, RowOf
    <3>7. Chosen'
      <4>1. \A h \in history' : h.slug = Temp[h.biz] \/ h.slug \in used'[h.biz]
        <5>1. \A h \in history : h.biz \in Businesses BY DEF SiteInductive, SiteTyped, Entry
        <5> QED BY <3>1, <3>2, <3>3, <3>4, <5>1 DEF Own, Chosen
      <4>2. \A d \in Businesses : used'[d] \cap Temps = {} /\ (used'[d] # {} => slug'[d] \in used'[d])
        <5>1. ASSUME NEW d \in Businesses
              PROVE  used'[d] \cap Temps = {} /\ (used'[d] # {} => slug'[d] \in used'[d])
          <6>1. used[d] \cap Temps = {} /\ (used[d] # {} => slug[d] \in used[d]) BY DEF Own, Chosen
          <6>2. CASE d = b BY <3>1, <3>2, <6>1, <6>2
          <6>3. CASE d # b BY <3>3, <6>1, <6>3
          <6> QED BY <6>2, <6>3
        <5> QED BY <5>1
      <4>3. \A w \in Callers : call'[w] # NoCall => call'[w].slug \notin Temps
        <5> DEFINE r == [call[c] EXCEPT !.step = "revalidate"]
        <5>1. r.slug = s BY <1>2, <2>2 DEF Change
        <5>2. \A w \in Callers : call'[w] = IF w = c THEN r ELSE call[w] BY <1>1, <2>3 DEF Proceed
        <5> HIDE DEF r
        <5> QED BY <3>1, <5>1, <5>2 DEF Own, Chosen
      <4> QED BY <4>1, <4>2, <4>3 DEF Chosen, Temps
    <3> QED BY <2>0, <3>6, <3>7, Forgets, ConsoleKeepsAnswers DEF Own
  <2> QED BY <1>7, <2>1, <2>2, <2>3 DEF Write
<1> QED BY <1>5, <1>6, <1>7 DEF Changing

(* Every step. *)
LEMMA OwnStep == SiteInductive /\ Own /\ [SiteNext]_siteVars => Own'
<1> SUFFICES ASSUME SiteInductive, Own, [SiteNext]_siteVars PROVE Own' OBVIOUS
<1>1. CASE \E s \in Visited : Visit(s) \/ Rendering(s) BY <1>1, RenderingOwn
<1>2. CASE \E s \in Visited : Age(s) BY <1>2, EditKeepsOwn DEF Age, console
<1>3. CASE \E c \in Callers : Changing(c) BY <1>3, ChangingOwn
<1>4. ASSUME NEW c \in Callers, NEW b \in Businesses, NEW s \in Addresses, Ask(c, b, s) PROVE Own'
  <2> DEFINE r == [step |-> "check", biz |-> b, slug |-> s, before |-> slug[b]]
  <2>1. r.slug \notin Temps /\ call' = [call EXCEPT ![c] = r] /\ UNCHANGED <<slug, history, used, kept, visit>>
    BY <1>4 DEF Ask
  <2> HIDE DEF r
  <2>2. Chosen' BY <2>1, RequestChosen DEF Own
  <2>3. cache' = cache BY <2>1 DEF kept
  <2> QED BY <2>1, <2>2, <2>3, Forgets, ConsoleKeepsAnswers, StillRemembers DEF Own
<1>5. CASE \E b \in Businesses : SetInfo(b) \/ SetScheme(b)
  BY <1>5, EditKeepsOwn DEF SetInfo, SetScheme, Shown
<1>6. CASE \E b \in Businesses : SetStatus(b) \/ Publish(b)
  BY <1>6, EditKeepsOwn DEF SetStatus, Publish, kept
<1>7. CASE (\E p \in Products : ToggleProduct(p)) \/ (\E r \in Resources : ToggleResource(r))
  BY <1>7, EditKeepsOwn DEF ToggleProduct, ToggleResource, Shown
<1>8. CASE Month
  <2> DEFINE older == [h \in history |-> [h EXCEPT !.recent = FALSE]]
  <2>0. history' = {older[h] : h \in history} /\ UNCHANGED <<slug, call, used, kept, visit>> BY <1>8 DEF Month
  <2>1. \A h \in history : older[h].slug = h.slug /\ older[h].biz = h.biz
    BY DEF SiteInductive, SiteTyped, Entry
  <2> HIDE DEF older
  <2>2. Remembers BY <2>0, <2>1 DEF Remembers, RowOf
  <2>3. Chosen' BY <2>0, <2>1 DEF Own, Chosen
  <2>4. cache' = cache BY <2>0 DEF kept
  <2> QED BY <2>0, <2>2, <2>3, <2>4, Forgets, ConsoleKeepsAnswers DEF Own
<1>9. CASE UNCHANGED siteVars BY <1>9, EditKeepsOwn DEF siteVars
<1> QED BY <1>1, <1>2, <1>3, <1>4, <1>5, <1>6, <1>7, <1>8, <1>9 DEF SiteNext

(* An answer that is kept for an address a business chose is that business's own. *)
LEMMA OwnStays == SiteInductive /\ Own => LinksStay
<1> SUFFICES ASSUME SiteInductive, Own, NEW b \in Businesses, NEW s \in used[b] \cap Visited
             PROVE  /\ cache[s].kind = "page" => cache[s].biz = b
                    /\ cache[s].kind = "moved" => cache[s].to \in used[b]
  BY DEF LinksStay
<1>1. RowOf(history, b, s) /\ s \notin Temps BY DEF SiteInductive, AllRemembered, Own, Chosen
<1>2. \A d : RowOf(history, d, s) => d = b BY <1>1 DEF RowOf, SiteInductive, OneRow
<1>3. OwnAnswer(history, used, s, cache[s]) BY DEF Own, AnswersOwn
<1> QED BY <1>1, <1>2, <1>3 DEF OwnAnswer

(* However changes of addresses, renders and revalidations overlap, no kept answer leads from   *)
(* an address a business chose to anybody else.                                                 *)
THEOREM LinksNeverStray == SiteSpec => []LinksStay
BY SiteStarts, SiteStep, OwnAtFirst, OwnStep, OwnStays, PTL DEF SiteSpec
=============================================================================
