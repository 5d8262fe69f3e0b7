-------------------------------- MODULE Team --------------------------------
(***************************************************************************)
(* The people of a business and the staff resources that stand for them:   *)
(* the invitations of src/features/auth/members.ts with the single-use     *)
(* links of tokens.ts, (de)activation of members-admin.ts, and the         *)
(* resources of src/features/business/resources.ts.                        *)
(*                                                                         *)
(* A call is a process with one step per statement outside a transaction;  *)
(* a transaction is one step, except that an invitation picks the resource *)
(* to link in one step and commits in the next: the subselect of           *)
(* members.ts:75 is not evaluated again for the locked row.                *)
(*                                                                         *)
(* A user stands for an address too.  Not here: permissions and ending the *)
(* sessions of a deactivated member (module Sessions), mails, audit rows.  *)
(* Bounds: MaxStarts calls, MaxTokens links, the ids of the tables.        *)
(***************************************************************************)
EXTENDS Integers, FiniteSets

CONSTANTS
  Bizs, Users, Members, Staff,  \* ids of businesses, users, business_members, resources
  Procs,      \* calls in progress
  None,
  MaxTokens,  \* bound: rows of auth_tokens
  MaxStarts,  \* bound: calls
  Kinds       \* the calls that are made

AllKinds == {"INVITE", "RESEND", "ACCEPT", "DEACTIVATE", "ACTIVATE", "CREATE", "UPDATE", "REMOVE", "SWITCH"}

ASSUME IdsAssumption ==
  /\ Bizs # {} /\ Users # {} /\ Members # {} /\ Staff # {}
  /\ None \notin Bizs \cup Users \cup Members \cup Staff

ASSUME BoundsAssumption == MaxTokens \in Nat /\ MaxStarts \in Nat /\ Kinds \subseteq AllKinds

VARIABLES
  user,      \* users
  member,    \* business_members, managers only
  staff,     \* resources of type STAFF
  link,      \* INVITE rows of auth_tokens, in the order of their creation
  proc,      \* calls in progress
  starts     \* calls made so far

vars == <<user, member, staff, link, proc, starts>>

Links == 1 .. MaxTokens

NoMember == [there |-> FALSE, user |-> None, biz |-> None, status |-> "INVITED"]
NoStaff == [there |-> FALSE, spent |-> FALSE, biz |-> None, named |-> None, member |-> None,
            active |-> FALSE, booked |-> FALSE]
NoLink == [there |-> FALSE, user |-> None, used |-> FALSE, expired |-> FALSE]
NoProc == [pc |-> "idle", biz |-> None, user |-> None, known |-> FALSE, member |-> None,
           staff |-> None, pick |-> None, link |-> 0, found |-> FALSE]

PCs == {"idle", "invite", "pick", "commit", "retire", "insert", "resend", "peek", "context", "accept",
        "readActive", "deactivate", "readInactive", "activate", "check", "write", "count", "remove",
        "removed", "switch"}

-----------------------------------------------------------------------------
(* Queries *)

MembershipsOf(u) == {m \in Members : member[m].there /\ member[m].user = u}
LinkedTo(m) == {s \in Staff : staff[s].there /\ staff[s].member = m}
One(rows) == IF rows = {} THEN {None} ELSE rows

\* The resources without an account that carry the name of the invited person.
Namesakes(b, u) ==
  {s \in Staff : staff[s].there /\ staff[s].biz = b /\ staff[s].member = None /\ staff[s].named = u}

LiveLinks(u) == {l \in Links : link[l].there /\ link[l].user = u /\ ~link[l].used}
Opens(l) == link[l].there /\ ~link[l].used /\ ~link[l].expired

-----------------------------------------------------------------------------
(* Calls *)

Goto(p, pc) == proc' = [proc EXCEPT ![p].pc = pc]
End(p) == proc' = [proc EXCEPT ![p] = NoProc]

Start(p, k, r) ==
  /\ proc[p].pc = "idle"
  /\ k \in Kinds /\ starts < MaxStarts
  /\ starts' = starts + 1
  /\ proc' = [proc EXCEPT ![p] = r]
  /\ UNCHANGED <<user, member, staff, link>>

StartCall(p) ==
  \/ \E b \in Bizs, u \in Users, s \in Staff \cup {None} :
       /\ s # None => staff[s].there
       /\ Start(p, "INVITE", [NoProc EXCEPT !.pc = "invite", !.biz = b, !.user = u, !.staff = s])
  \/ \E m \in Members : member[m].there /\
       \/ Start(p, "RESEND", [NoProc EXCEPT !.pc = "resend", !.member = m])
       \/ Start(p, "DEACTIVATE", [NoProc EXCEPT !.pc = "readActive", !.member = m])
       \/ Start(p, "ACTIVATE", [NoProc EXCEPT !.pc = "readInactive", !.member = m])
  \/ \E l \in Links : link[l].there /\ Start(p, "ACCEPT", [NoProc EXCEPT !.pc = "peek", !.link = l])
  \/ \E b \in Bizs, m \in Members \cup {None} :
       Start(p, "CREATE", [NoProc EXCEPT !.pc = "check", !.biz = b, !.member = m])
  \/ \E s \in Staff : staff[s].there /\
       \/ \E m \in Members \cup {None} :
            Start(p, "UPDATE", [NoProc EXCEPT !.pc = "check", !.biz = staff[s].biz, !.staff = s, !.member = m])
       \/ Start(p, "REMOVE", [NoProc EXCEPT !.pc = "count", !.staff = s])
       \/ Start(p, "SWITCH", [NoProc EXCEPT !.pc = "switch", !.staff = s])

-----------------------------------------------------------------------------
(* inviteManager *)

\* The reads before the transaction: the invited account belongs to nobody, and the
\* chosen resource is a free one of this business.
InviteChecks(p) ==
  LET r == proc[p] IN
  /\ r.pc = "invite"
  /\ IF MembershipsOf(r.user) = {}
          /\ (r.staff # None => staff[r.staff].there /\ staff[r.staff].biz = r.biz
                                 /\ staff[r.staff].member = None)
       THEN proc' = [proc EXCEPT ![p].pc = "pick", ![p].known = user[r.user].there]
       ELSE End(p)
  /\ UNCHANGED <<user, member, staff, link, starts>>

\* The resource with the person's name, when none was chosen.
InvitePick(p) ==
  LET r == proc[p] IN
  /\ r.pc = "pick"
  /\ \E s \in One(IF r.staff # None THEN {} ELSE Namesakes(r.biz, r.user)) :
       proc' = [proc EXCEPT ![p].pick = s, ![p].pc = "commit"]
  /\ UNCHANGED <<user, member, staff, link, starts>>

\* The condition on the chosen resource.
ChosenStillFree(s) == staff[s].there /\ staff[s].member = None

\* The transaction.  An address taken meanwhile, a second membership in the same
\* business or a chosen resource that is no longer free undo it.
InviteCommit(p) ==
  LET r == proc[p]
      feasible ==
        /\ r.known = user[r.user].there
        /\ \A m \in MembershipsOf(r.user) : member[m].biz # r.biz
        /\ r.staff # None => ChosenStillFree(r.staff)
      target == IF r.staff # None THEN r.staff ELSE r.pick
      linked == target # None /\ staff[target].there
  IN
  /\ r.pc = "commit"
  /\ \/ \E m \in Members, s \in IF linked THEN {target} ELSE {t \in Staff : ~staff[t].spent} :
          /\ feasible /\ ~member[m].there
          /\ user' = [user EXCEPT ![r.user].there = TRUE]
          /\ member' = [member EXCEPT ![m] = [there |-> TRUE, user |-> r.user, biz |-> r.biz,
                                              status |-> "INVITED"]]
          /\ staff' = IF linked
               THEN [staff EXCEPT ![s].member = m]
               ELSE [staff EXCEPT ![s] = [NoStaff EXCEPT !.there = TRUE, !.spent = TRUE, !.biz = r.biz,
                                            !.named = r.user, !.member = m, !.active = TRUE]]
          /\ proc' = [proc EXCEPT ![p] = [NoProc EXCEPT !.pc = "retire", !.user = r.user]]
     \/ /\ ~feasible \/ (\A m \in Members : member[m].there)
              \/ (~linked /\ \A t \in Staff : staff[t].spent)    \* bound: no id left
        /\ End(p)
        /\ UNCHANGED <<user, member, staff>>
  /\ UNCHANGED <<link, starts>>

\* issueToken: the older links of the user are used up, then the new one is inserted.
Retire(p) ==
  /\ proc[p].pc = "retire"
  /\ link' = [l \in Links |-> IF l \in LiveLinks(proc[p].user) THEN [link[l] EXCEPT !.used = TRUE] ELSE link[l]]
  /\ Goto(p, "insert")
  /\ UNCHANGED <<user, member, staff, starts>>

Insert(p) ==
  LET free == {l \in Links : ~link[l].there} IN
  /\ proc[p].pc = "insert"
  /\ \/ \E l \in free :
          /\ \A k \in free : l <= k
          /\ link' = [link EXCEPT ![l] = [NoLink EXCEPT !.there = TRUE, !.user = proc[p].user]]
     \/ free = {} /\ UNCHANGED link    \* bound: no id left
  /\ End(p)
  /\ UNCHANGED <<user, member, staff, starts>>

\* resendInvite.
Resend(p) ==
  LET m == proc[p].member IN
  /\ proc[p].pc = "resend"
  /\ IF member[m].there /\ member[m].status = "INVITED"
       THEN proc' = [proc EXCEPT ![p] = [NoProc EXCEPT !.pc = "retire", !.user = member[m].user]]
       ELSE End(p)
  /\ UNCHANGED <<user, member, staff, link, starts>>

\* A link gets older than INVITE_TTL_HOURS.
LinkExpires(l) ==
  /\ Opens(l)
  /\ link' = [link EXCEPT ![l].expired = TRUE]
  /\ UNCHANGED <<user, member, staff, proc, starts>>

-----------------------------------------------------------------------------
(* acceptInvite *)

\* peekToken.
Peek(p) ==
  LET l == proc[p].link IN
  /\ proc[p].pc = "peek"
  /\ IF Opens(l) THEN proc' = [proc EXCEPT ![p].pc = "context", ![p].user = link[l].user] ELSE End(p)
  /\ UNCHANGED <<user, member, staff, link, starts>>

\* inviteContext: a membership of the user, which has to be INVITED.
Context(p) ==
  /\ proc[p].pc = "context"
  /\ \E m \in One(MembershipsOf(proc[p].user)) :
       IF m # None /\ member[m].status = "INVITED"
         THEN proc' = [proc EXCEPT ![p].member = m, ![p].pc = "accept"] ELSE End(p)
  /\ UNCHANGED <<user, member, staff, link, starts>>

(* Mutant: the link was looked at before, and is taken as it is. *)
ConsumesAnyway(l) == link[l].there

\* The UPDATE of consumeToken.
Consumes(l) == Opens(l)

\* The transaction: the link, then the membership; Abort leaves both as they were.
Accept(p) ==
  LET l == proc[p].link
      m == proc[p].member
  IN
  /\ proc[p].pc = "accept"
  /\ CASE Consumes(l) /\ member[m].status = "INVITED" ->
            /\ link' = [link EXCEPT ![l].used = TRUE]
            /\ member' = [member EXCEPT ![m].status = "ACTIVE"]
       [] OTHER -> UNCHANGED <<link, member>>
  /\ End(p)
  /\ UNCHANGED <<user, staff, starts>>

-----------------------------------------------------------------------------
(* setMemberActive *)

\* What is asked before the transaction and again by its UPDATE.
Deactivatable(m) == member[m].status = "ACTIVE"

ReadActive(p) ==
  /\ proc[p].pc = "readActive"
  /\ IF Deactivatable(proc[p].member) THEN Goto(p, "deactivate") ELSE End(p)
  /\ UNCHANGED <<user, member, staff, link, starts>>

\* The member and the resource in its name are switched off together.
Deactivate(p) ==
  LET m == proc[p].member IN
  /\ proc[p].pc = "deactivate"
  /\ IF Deactivatable(m)
       THEN /\ member' = [member EXCEPT ![m].status = "INACTIVE"]
            /\ staff' = [s \in Staff |-> IF s \in LinkedTo(m) THEN [staff[s] EXCEPT !.active = FALSE] ELSE staff[s]]
       ELSE UNCHANGED <<member, staff>>
  /\ End(p)
  /\ UNCHANGED <<user, link, starts>>

ReadInactive(p) ==
  /\ proc[p].pc = "readInactive"
  /\ IF member[proc[p].member].status = "INACTIVE" THEN Goto(p, "activate") ELSE End(p)
  /\ UNCHANGED <<user, member, staff, link, starts>>

\* The resource stays off.
Activate(p) ==
  LET m == proc[p].member IN
  /\ proc[p].pc = "activate"
  /\ member' = IF member[m].status = "INACTIVE" THEN [member EXCEPT ![m].status = "ACTIVE"] ELSE member
  /\ End(p)
  /\ UNCHANGED <<user, staff, link, starts>>

-----------------------------------------------------------------------------
(* createResource, updateResource, removeResource, setResourceActive *)

\* assertMemberLinkable: a member of this business without another resource.
CheckLinkable(p) ==
  LET r == proc[p] IN
  /\ r.pc = "check"
  /\ IF r.member = None \/ ( /\ member[r.member].there /\ member[r.member].biz = r.biz
                             /\ LinkedTo(r.member) \subseteq {r.staff})
       THEN Goto(p, "write") ELSE End(p)
  /\ UNCHANGED <<user, member, staff, link, starts>>

(* Mutant: no unique constraint on resources.member_id. *)
LinkAllowedUnchecked(m, s) == TRUE

\* The unique constraint of resources.member_id.
LinkAllowed(m, s) == m = None \/ LinkedTo(m) \subseteq {s}

\* The INSERT or the UPDATE; the constraint refuses a member linked meanwhile.
WriteStaff(p) ==
  LET r == proc[p] IN
  /\ r.pc = "write"
  /\ \/ \E s \in Staff :
          /\ LinkAllowed(r.member, s)
          /\ IF r.staff = None THEN ~staff[s].spent ELSE s = r.staff /\ staff[s].there
          /\ staff' = IF r.staff = None
               THEN [staff EXCEPT ![s] = [NoStaff EXCEPT !.there = TRUE, !.spent = TRUE, !.biz = r.biz,
                                            !.member = r.member, !.active = TRUE]]
               ELSE [staff EXCEPT ![s].member = r.member]
     \/ /\ \/ ~LinkAllowed(r.member, r.staff)
           \/ r.staff = None /\ (\A s \in Staff : staff[s].spent)        \* bound: no id left
           \/ r.staff # None /\ ~staff[r.staff].there
        /\ UNCHANGED staff
  /\ End(p)
  /\ UNCHANGED <<user, member, link, starts>>

\* Reservations and products that refer to the resource are counted.
CountRefs(p) ==
  LET s == proc[p].staff IN
  /\ proc[p].pc = "count"
  /\ IF staff[s].there THEN proc' = [proc EXCEPT ![p].found = staff[s].booked, ![p].pc = "remove"] ELSE End(p)
  /\ UNCHANGED <<user, member, staff, link, starts>>

\* What is left of a resource that cannot be deleted.
Fallback(s) == [staff EXCEPT ![s].active = FALSE]

\* DELETE when nothing was counted; a reference made meanwhile (23503) leads to the
\* same end as one that was counted.
RemoveStaff(p) ==
  LET s == proc[p].staff IN
  /\ proc[p].pc = "remove"
  /\ staff' = CASE ~staff[s].there -> staff
                [] staff[s].there /\ ~proc[p].found /\ ~staff[s].booked -> [staff EXCEPT ![s] = [NoStaff EXCEPT !.spent = TRUE]]
                [] staff[s].there /\ proc[p].found -> [staff EXCEPT ![s].active = FALSE]
                [] OTHER -> Fallback(s)
  /\ Goto(p, "removed")
  /\ UNCHANGED <<user, member, link, starts>>

Answered(p) ==
  /\ proc[p].pc = "removed"
  /\ End(p)
  /\ UNCHANGED <<user, member, staff, link, starts>>

Switch(p) ==
  LET s == proc[p].staff IN
  /\ proc[p].pc = "switch"
  /\ staff' = IF staff[s].there THEN [staff EXCEPT ![s].active = ~@] ELSE staff
  /\ End(p)
  /\ UNCHANGED <<user, member, link, starts>>

\* A reservation or a product refers to an active resource from now on.
IsBooked(s) ==
  /\ staff[s].there /\ staff[s].active /\ ~staff[s].booked
  /\ staff' = [staff EXCEPT ![s].booked = TRUE]
  /\ UNCHANGED <<user, member, link, proc, starts>>

-----------------------------------------------------------------------------
(* Specification *)

\* A business has a resource named after a person, with or without an account, or that
\* person is a manager already: invited (with one live link, or two issued at once), active or
\* switched off.
Init ==
  LET b0 == CHOOSE b \in Bizs : TRUE
      u0 == CHOOSE u \in Users : TRUE
      m0 == CHOOSE m \in Members : TRUE
      s0 == CHOOSE s \in Staff : TRUE
  IN
  \E status \in {"NONE", "INVITED", "ACTIVE", "INACTIVE"}, issued \in 1 .. 2,
     known \in BOOLEAN :
    /\ status # "NONE" => known
    /\ user = [u \in Users |-> [there |-> u = u0 /\ known]]
    /\ member = [m \in Members |-> IF m = m0 /\ status # "NONE"
         THEN [there |-> TRUE, user |-> u0, biz |-> b0, status |-> status] ELSE NoMember]
    /\ staff = [s \in Staff |-> IF s = s0
         THEN [there |-> TRUE, spent |-> TRUE, biz |-> b0, named |-> u0,
               member |-> IF status = "NONE" THEN None ELSE m0,
               active |-> status # "INACTIVE", booked |-> FALSE] ELSE NoStaff]
    /\ link = [l \in Links |-> IF l <= issued /\ status = "INVITED"
         THEN [NoLink EXCEPT !.there = TRUE, !.user = u0] ELSE NoLink]
    /\ proc = [p \in Procs |-> NoProc]
    /\ starts = 0

Call(p) ==
  \/ InviteChecks(p) \/ InvitePick(p) \/ InviteCommit(p) \/ Retire(p) \/ Insert(p) \/ Resend(p)
  \/ Peek(p) \/ Context(p) \/ Accept(p)
  \/ ReadActive(p) \/ Deactivate(p) \/ ReadInactive(p) \/ Activate(p)
  \/ CheckLinkable(p) \/ WriteStaff(p) \/ CountRefs(p) \/ RemoveStaff(p) \/ Answered(p) \/ Switch(p)

\* Bound: the calls are used up.
Finished ==
  /\ starts = MaxStarts /\ \A p \in Procs : proc[p].pc = "idle"
  /\ UNCHANGED vars

Next ==
  \/ \E p \in Procs : Call(p) \/ StartCall(p)
  \/ \E l \in Links : LinkExpires(l)
  \/ \E s \in Staff : IsBooked(s)
  \/ Finished

Spec == Init /\ [][Next]_vars

-----------------------------------------------------------------------------
(* Properties *)

\* The rows have the types of their tables, and every reference leads to a row.
TypeOK ==
  /\ \A m \in Members : member[m].there =>
       /\ member[m].status \in {"INVITED", "ACTIVE", "INACTIVE"}
       /\ user[member[m].user].there /\ member[m].biz \in Bizs
  /\ \A s \in Staff : staff[s].there /\ staff[s].member # None => member[staff[s].member].there
  /\ \A l \in Links : link[l].there => user[link[l].user].there
  /\ \A p \in Procs : proc[p].pc \in PCs

TakesPartByLink ==
  \A m \in Members :
    member[m].status = "INVITED" /\ member[m].there /\ member'[m].there /\ member'[m].status # "INVITED"
      => \E l \in LiveLinks(member[m].user) : ~link[l].expired /\ link'[l].used

UsedForActive ==
  \A p \in Procs :
    proc[p].pc = "accept" /\ proc'[p].pc = "idle" /\ link' # link
      => /\ member[proc[p].member].status = "INVITED"
         /\ member'[proc[p].member].status = "ACTIVE"

\* An invited member takes part for the first time with a link that was live at that
\* moment (one replaced by a newer one while its page was open does not count), and an
\* acceptance that does not make a member active uses no link up, although two links of
\* one person can be live at once (tokens.ts:17, :41; members.ts:147-166).
AcceptanceWhole ==
  [][TakesPartByLink /\ UsedForActive]_vars

\* A member stands behind one resource at most, in the same business, whether an
\* invitation or an edit of the resource made the link.
OneResourcePerMember ==
  \A s, t \in Staff :
    staff[s].there /\ staff[s].member # None
      => /\ member[staff[s].member].biz = staff[s].biz
         /\ (staff[t].there /\ staff[t].member = staff[s].member => s = t)
=============================================================================
