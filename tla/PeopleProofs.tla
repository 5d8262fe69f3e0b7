-------------------------------- MODULE PeopleProofs --------------------------------
(***************************************************************************)
(* Safety of Team and of Visits for every value of their constants.  No    *)
(* property is inductive.                                                  *)
(*                                                                         *)
(* Team: Inductive adds to OneResourcePerMember what a call knows at each  *)
(* of its statements (Knows) and what holds between the rows (Rows).  Ids  *)
(* are the reason: a member and a link stay what they were once they are   *)
(* there, and a resource that was deleted does not come back for another   *)
(* business.                                                               *)
(*                                                                         *)
(* Visits, in three invariants that build on each other where they must:   *)
(*   Reviewed  an open form has its reservation to itself, and a review    *)
(*             its author changed is marked so;                            *)
(*   Noticed   every mail under way has a row of its own, which says how   *)
(*             far it is: rows are told apart by a number, since settings  *)
(*             and ticks may ask for the same notice again;                *)
(*   Once      a tick's sends are of different visits and none was sent    *)
(*             before, the row of a reminder outlives the window of its    *)
(*             visit, and every visit of a past window was reminded of, or *)
(*             a tick under way is about to.                               *)
(***************************************************************************)
EXTENDS Team, Visits, FiniteSetTheorems, SequenceTheorems, TLAPS

Account == [there : BOOLEAN]
Manager == [there : BOOLEAN, user : Users \cup {None}, biz : Bizs \cup {None},
            status : {"INVITED", "ACTIVE", "INACTIVE"}]
Resource == [there : BOOLEAN, spent : BOOLEAN, biz : Bizs \cup {None}, named : Users \cup {None},
             member : Members \cup {None}, active : BOOLEAN, booked : BOOLEAN]
Invitation == [there : BOOLEAN, user : Users \cup {None}, used : BOOLEAN, expired : BOOLEAN]
Process == [pc : PCs, biz : Bizs \cup {None}, user : Users \cup {None}, known : BOOLEAN,
            member : Members \cup {None}, staff : Staff \cup {None}, pick : Staff \cup {None},
            link : Nat, found : BOOLEAN]

Tables ==
  /\ user \in [Users -> Account]
  /\ member \in [Members -> Manager]
  /\ staff \in [Staff -> Resource]
  /\ link \in [Links -> Invitation]

Typed == Tables /\ proc \in [Procs -> Process]

(* A resource is of business b, or was deleted. *)
Of(s, b) == staff[s].spent /\ (staff[s].there => staff[s].biz = b)

(* What a call r knows at the statement it is about to run. *)
Knows(r) ==
  /\ r.pc \in {"invite", "pick", "commit"} => r.biz \in Bizs /\ r.user \in Users
  /\ r.pc \in {"pick", "commit", "check", "write"} /\ r.staff # None => Of(r.staff, r.biz)
  /\ r.pc = "commit" /\ r.pick # None => Of(r.pick, r.biz)
  /\ r.pc \in {"retire", "insert"} => r.user \in Users /\ user[r.user].there
  /\ r.pc \in {"resend", "readActive", "deactivate", "readInactive", "activate"} => r.member \in Members
  /\ r.pc \in {"peek", "context", "accept"} => r.link \in Links /\ link[r.link].there
  /\ r.pc \in {"context", "accept"} => r.user \in Users /\ link[r.link].user = r.user
  /\ r.pc = "accept" => /\ r.member \in Members
                        /\ member[r.member].there /\ member[r.member].user = r.user
  /\ r.pc \in {"check", "write"} => r.biz \in Bizs
  /\ r.pc = "write" /\ r.member # None => member[r.member].there /\ member[r.member].biz = r.biz
  /\ r.pc \in {"count", "remove", "switch"} => r.staff \in Staff

(* What holds between the rows. *)
Rows ==
  /\ \A m \in Members : member[m].there => /\ member[m].user \in Users /\ user[member[m].user].there
                                           /\ member[m].biz \in Bizs
  /\ \A s \in Staff : staff[s].there => staff[s].spent /\ staff[s].biz \in Bizs
  /\ \A s \in Staff : staff[s].there /\ staff[s].member # None => member[staff[s].member].there
  /\ \A l \in Links : link[l].there => link[l].user \in Users /\ user[link[l].user].there

Data == Rows /\ OneResourcePerMember
Calls == \A p \in Procs : Knows(proc[p])

(* The inductive invariant. *)
Inductive == Typed /\ Data /\ Calls

LEMMA NoProcType == NoProc \in Process /\ Knows(NoProc) /\ Knows(NoProc)'
BY DEF NoProc, Process, PCs, Knows

LEMMA NoRowTypes ==
  /\ NoMember \in Manager /\ ~NoMember.there
  /\ NoStaff \in Resource /\ ~NoStaff.there
  /\ NoLink \in Invitation /\ ~NoLink.there
BY DEF NoMember, NoStaff, NoLink, Manager, Resource, Invitation

(* The initial states. *)
LEMMA InitInductive == Init => Inductive
<1> SUFFICES ASSUME Init PROVE Inductive OBVIOUS
<1> DEFINE b0 == CHOOSE b \in Bizs : TRUE
           u0 == CHOOSE u \in Users : TRUE
           m0 == CHOOSE m \in Members : TRUE
           s0 == CHOOSE s \in Staff : TRUE
<1>1. b0 \in Bizs /\ u0 \in Users /\ m0 \in Members /\ s0 \in Staff BY IdsAssumption
<1> HIDE DEF b0, u0, m0, s0
<1>2. PICK status \in {"NONE", "INVITED", "ACTIVE", "INACTIVE"}, issued \in 1 .. 2, known \in BOOLEAN :
        /\ status # "NONE" => known
        /\ user = [u \in Users |-> [there |-> u = u0 /\ known]]
        /\ member = [m \in Members |-> IF m = m0 /\ status # "NONE"
             THEN [there |-> TRUE, user |-> u0, biz |-> b0, status |-> status] ELSE NoMember]
        /\ staff = [s \in Staff |-> IF s = s0
             THEN [there |-> TRUE, spent |-> TRUE, biz |-> b0, named |-> u0,
                   member |-> IF status = "NONE" THEN None ELSE m0,
                   active |-> status # "INACTIVE", booked |-> FALSE] ELSE NoStaff]
        /\ link = [l \in Links |-> IF l <= issued /\ status = "INVITED"
             THEN [NoLink EXCEPT !.there = TRUE, !.user = u0] ELSE NoLink]
        /\ proc = [p \in Procs |-> NoProc]
        /\ starts = 0
  BY Zenon DEF Init, b0, u0, m0, s0
<1> DEFINE row == [there |-> TRUE, user |-> u0, biz |-> b0, status |-> status]
           res == [there |-> TRUE, spent |-> TRUE, biz |-> b0, named |-> u0,
                   member |-> IF status = "NONE" THEN None ELSE m0,
                   active |-> status # "INACTIVE", booked |-> FALSE]
           inv == [NoLink EXCEPT !.there = TRUE, !.user = u0]
<1>3. /\ row.user = u0 /\ row.biz = b0 /\ row.there
      /\ status # "NONE" => row \in Manager
  <2>1. ASSUME status # "NONE" PROVE row \in Manager
    <3>1. status \in {"INVITED", "ACTIVE", "INACTIVE"} BY <2>1
    <3> QED BY <1>1, <3>1 DEF Manager
  <2> QED BY <2>1
<1>4. /\ res \in Resource /\ res.spent /\ res.biz = b0
      /\ res.member = IF status = "NONE" THEN None ELSE m0
  BY <1>1, <1>2 DEF Resource
<1>5. inv \in Invitation /\ inv.user = u0 BY <1>1 DEF NoLink, Invitation
<1>6. /\ \A m \in Members : member[m] = IF m = m0 /\ status # "NONE" THEN row ELSE NoMember
      /\ \A s \in Staff : staff[s] = IF s = s0 THEN res ELSE NoStaff
      /\ \A l \in Links : link[l] = IF l <= issued /\ status = "INVITED" THEN inv ELSE NoLink
      /\ \A u \in Users : user[u].there <=> (u = u0 /\ known)
  BY <1>2
<1>7. Typed
  <2>1. user \in [Users -> Account] BY <1>2 DEF Account
  <2>2. member \in [Members -> Manager] BY <1>2, <1>3, NoRowTypes
  <2>3. staff \in [Staff -> Resource] BY <1>2, <1>4, NoRowTypes
  <2>4. link \in [Links -> Invitation] BY <1>2, <1>5, NoRowTypes
  <2> QED BY <1>2, <2>1, <2>2, <2>3, <2>4, NoProcType DEF Typed, Tables
<1> HIDE DEF row, res, inv
<1>8. Rows BY <1>1, <1>2, <1>3, <1>4, <1>5, <1>6, NoRowTypes DEF Rows
<1>9. OneResourcePerMember BY <1>1, <1>3, <1>4, <1>6, NoRowTypes, IdsAssumption DEF OneResourcePerMember
<1>10. Calls BY <1>2, NoProcType DEF Calls
<1> QED BY <1>7, <1>8, <1>9, <1>10 DEF Inductive, Data

-----------------------------------------------------------------------------
(* Steps.  A call p that takes a step becomes r. *)

Becomes(p, r) == proc' = [proc EXCEPT ![p] = r]

(* What a step of the tables may not take away from a call. *)
Grows ==
  /\ \A u \in Users : user[u].there => user'[u].there
  /\ \A m \in Members : member[m].there
       => member'[m].there /\ member'[m].user = member[m].user /\ member'[m].biz = member[m].biz
  /\ \A s \in Staff : staff[s].spent
       => staff'[s].spent /\ (staff'[s].there => staff[s].there /\ staff'[s].biz = staff[s].biz)
  /\ \A l \in Links : link[l].there => link'[l].there /\ link'[l].user = link[l].user

(* What a call knows stays true while the tables grow. *)
LEMMA Kept == ASSUME Grows, NEW r \in Process, Knows(r) PROVE Knows(r)'
<1>1. /\ r.staff \in Staff \cup {None} /\ r.pick \in Staff \cup {None}
      /\ r.member \in Members \cup {None}
  BY DEF Process
<1>2. ASSUME NEW s \in Staff, NEW b, Of(s, b) PROVE Of(s, b)' BY <1>2 DEF Of, Grows
<1> QED BY <1>1, <1>2 DEF Knows, Grows

LEMMA CallFacts ==
  ASSUME Inductive, NEW p \in Procs PROVE proc[p] \in Process /\ Knows(proc[p])
BY DEF Inductive, Typed, Calls

(* What is known of the rows, opened up. *)
LEMMA RowFacts == ASSUME Inductive PROVE Tables /\ Rows /\ OneResourcePerMember
BY DEF Inductive, Typed, Data

(* A step of one call, which knows what it needs for its next statement. *)
LEMMA TableStep ==
  ASSUME Inductive, Grows, Tables', Data',
         NEW p \in Procs, NEW r \in Process, Becomes(p, r), Knows(r)'
  PROVE  Inductive'
<1>1. proc' \in [Procs -> Process] BY DEF Inductive, Typed, Becomes
<1>2. ASSUME NEW q \in Procs PROVE Knows(proc[q])'
  <2>1. CASE q = p
    <3>1. proc'[q] = r BY <2>1 DEF Inductive, Typed, Becomes
    <3> QED BY <3>1
  <2>2. CASE q # p
    <3>1. proc'[q] = proc[q] BY <2>2 DEF Inductive, Typed, Becomes
    <3> QED BY <3>1, CallFacts, Kept
  <2> QED BY <2>1, <2>2
<1> QED BY <1>1, <1>2 DEF Inductive, Typed, Calls

(* The tables stay as they are. *)
Still == UNCHANGED <<user, member, staff, link>>

LEMMA StillKeeps == ASSUME Inductive, Still PROVE Grows /\ Tables' /\ Data'
<1>1. Tables' BY RowFacts DEF Tables, Still
<1>2. Data' BY RowFacts DEF Data, Rows, OneResourcePerMember, Still
<1>3. Grows BY DEF Grows, Still
<1> QED BY <1>1, <1>2, <1>3

(* A step of one call that only reads. *)
LEMMA LocalStep ==
  ASSUME Inductive, Still, NEW p \in Procs, NEW r \in Process, Becomes(p, r), Knows(r)
  PROVE  Inductive'
BY StillKeeps, Kept, TableStep

(* The end of a call. *)
LEMMA EndStep ==
  ASSUME Inductive, Grows, Tables', Data', NEW p \in Procs, End(p) PROVE Inductive'
BY NoProcType, TableStep DEF End, Becomes

LEMMA EndStill == ASSUME Inductive, Still, NEW p \in Procs, End(p) PROVE Inductive'
BY StillKeeps, EndStep

(* A call that goes on to another statement keeps the rest. *)
SameCall(r, q) ==
  /\ r.biz = q.biz /\ r.user = q.user /\ r.member = q.member
  /\ r.staff = q.staff /\ r.pick = q.pick /\ r.link = q.link

LEMMA GotoStep ==
  ASSUME Inductive, Grows, Tables', Data', NEW p \in Procs, NEW c \in PCs, Goto(p, c),
         \A r \in Process : r.pc = c /\ SameCall(r, proc[p]) => Knows(r)'
  PROVE  Inductive'
<1>1. PICK q \in Process : q = proc[p] BY CallFacts
<1> DEFINE r == [q EXCEPT !.pc = c]
<1>2. Becomes(p, r) BY <1>1 DEF Goto, Becomes
<1>3. r \in Process /\ r.pc = c /\ SameCall(r, q) BY DEF Process, SameCall
<1> HIDE DEF r
<1> QED BY <1>1, <1>2, <1>3, TableStep

LEMMA GotoStill ==
  ASSUME Inductive, Still, NEW p \in Procs, NEW c \in PCs, Goto(p, c),
         \A r \in Process : r.pc = c /\ SameCall(r, proc[p]) => Knows(r)
  PROVE  Inductive'
BY StillKeeps, Kept, GotoStep

(* A step that is no call's. *)
LEMMA OtherStep == ASSUME Inductive, Grows, Tables', Data', UNCHANGED proc PROVE Inductive'
<1>1. ASSUME NEW q \in Procs PROVE Knows(proc[q])'
  <2>1. proc'[q] = proc[q] OBVIOUS
  <2> QED BY <2>1, CallFacts, Kept
<1> QED BY <1>1 DEF Inductive, Typed, Calls

-----------------------------------------------------------------------------
(* The tables, one at a time. *)

(* A resource changes: v is a row of a member nobody else stands for. *)
LEMMA StaffStep ==
  ASSUME Inductive, UNCHANGED <<user, member, link>>,
         NEW s \in Staff, NEW v \in Resource, staff' = [staff EXCEPT ![s] = v],
         staff[s].spent => v.spent /\ (v.there => staff[s].there /\ v.biz = staff[s].biz),
         v.there => v.spent /\ v.biz \in Bizs,
         v.there /\ v.member # None
           => /\ member[v.member].there /\ member[v.member].biz = v.biz
              /\ \A t \in Staff : staff[t].there /\ staff[t].member = v.member => t = s
  PROVE  Grows /\ Tables' /\ Data'
<1>1. Tables' BY RowFacts DEF Tables
<1>2. \A t \in Staff : staff'[t] = IF t = s THEN v ELSE staff[t] BY RowFacts DEF Tables
<1>3. Grows BY <1>2 DEF Grows
<1>4. Rows' BY <1>2, RowFacts DEF Rows
<1>5. OneResourcePerMember' BY <1>2, RowFacts DEF OneResourcePerMember
<1> QED BY <1>1, <1>3, <1>4, <1>5 DEF Data

(* A resource keeps what it is and who stands behind it, or is gone. *)
LEMMA StaffKept ==
  ASSUME Inductive, UNCHANGED <<user, member, link>>,
         NEW s \in Staff, NEW v \in Resource, staff' = [staff EXCEPT ![s] = v],
         staff[s].there, v.spent,
         v.there => v.biz = staff[s].biz /\ v.member = staff[s].member
  PROVE  Grows /\ Tables' /\ Data'
<1>1. staff[s].biz \in Bizs BY RowFacts DEF Rows
<1>2. v.there /\ v.member # None
        => /\ member[v.member].there /\ member[v.member].biz = v.biz
           /\ \A t \in Staff : staff[t].there /\ staff[t].member = v.member => t = s
  BY RowFacts DEF Rows, OneResourcePerMember
<1> QED BY <1>1, <1>2, StaffStep

(* Only what a resource shows changes: whether it is active, whether it is booked. *)
LEMMA StaffShown ==
  ASSUME Inductive, UNCHANGED <<user, member, link>>, NEW s \in Staff, staff[s].there,
         NEW a \in BOOLEAN, NEW b \in BOOLEAN,
         staff' = [staff EXCEPT ![s].active = a, ![s].booked = b]
  PROVE  Grows /\ Tables' /\ Data'
<1>1. PICK w \in Resource : w = staff[s] BY RowFacts DEF Tables
<1> DEFINE v == [w EXCEPT !.active = a, !.booked = b]
<1>2. v \in Resource /\ v.spent = w.spent /\ v.there = w.there /\ v.biz = w.biz /\ v.member = w.member
  BY DEF Resource
<1>3. staff' = [staff EXCEPT ![s] = v] BY <1>1
<1> HIDE DEF v
<1>4. w.spent BY <1>1, RowFacts DEF Rows
<1> QED BY <1>1, <1>2, <1>3, <1>4, StaffKept

(* A link changes, but not its user. *)
LEMMA LinkKept ==
  ASSUME Inductive, UNCHANGED <<user, member, staff>>, link' \in [Links -> Invitation],
         \A l \in Links : link'[l].there = link[l].there /\ link'[l].user = link[l].user
  PROVE  Grows /\ Tables' /\ Data'
<1>1. Tables' BY RowFacts DEF Tables
<1>2. Grows BY DEF Grows
<1>3. Rows' BY RowFacts DEF Rows
<1>4. OneResourcePerMember' BY RowFacts DEF OneResourcePerMember
<1> QED BY <1>1, <1>2, <1>3, <1>4 DEF Data

(* The status of a member changes; resources keep who stands behind them. *)
LEMMA MemberKept ==
  ASSUME Inductive, UNCHANGED user, Grows, link' \in [Links -> Invitation],
         staff' \in [Staff -> Resource], member' \in [Members -> Manager],
         \A m \in Members : /\ member'[m].there = member[m].there
                            /\ member'[m].user = member[m].user /\ member'[m].biz = member[m].biz,
         \A l \in Links : link'[l].there = link[l].there /\ link'[l].user = link[l].user,
         \A s \in Staff : /\ staff'[s].there = staff[s].there /\ staff'[s].spent = staff[s].spent
                          /\ staff'[s].biz = staff[s].biz /\ staff'[s].member = staff[s].member
  PROVE  Tables' /\ Data'
<1>1. Tables' BY RowFacts DEF Tables
<1>2. \A s \in Staff : staff[s].member \in Members \cup {None} BY RowFacts DEF Tables, Resource
<1>3. Rows' BY <1>2, RowFacts DEF Rows
<1>4. OneResourcePerMember' BY <1>2, RowFacts DEF OneResourcePerMember
<1> QED BY <1>1, <1>3, <1>4 DEF Data

-----------------------------------------------------------------------------
(* A call starts. *)

LEMMA StartStep ==
  ASSUME Inductive, NEW p \in Procs, NEW k, NEW r \in Process, Start(p, k, r), Knows(r)
  PROVE  Inductive'
<1>1. Still /\ Becomes(p, r) BY DEF Start, Still, Becomes
<1> QED BY <1>1, LocalStep

LEMMA StartCallKeeps == ASSUME Inductive, NEW p \in Procs, StartCall(p) PROVE Inductive'
<1>1. ASSUME NEW b \in Bizs, NEW u \in Users, NEW s \in Staff \cup {None},
             Start(p, "INVITE", [NoProc EXCEPT !.pc = "invite", !.biz = b, !.user = u, !.staff = s])
      PROVE  Inductive'
  <2> DEFINE r == [NoProc EXCEPT !.pc = "invite", !.biz = b, !.user = u, !.staff = s]
  <2>1. r \in Process /\ r.pc = "invite" /\ r.biz = b /\ r.user = u BY DEF NoProc, Process, PCs
  <2>2. Start(p, "INVITE", r) BY <1>1
  <2> HIDE DEF r
  <2>3. Knows(r) BY <2>1 DEF Knows
  <2> QED BY <2>1, <2>2, <2>3, StartStep
<1>2. ASSUME NEW m \in Members, NEW k, NEW c \in {"resend", "readActive", "readInactive"},
             Start(p, k, [NoProc EXCEPT !.pc = c, !.member = m])
      PROVE  Inductive'
  <2> DEFINE r == [NoProc EXCEPT !.pc = c, !.member = m]
  <2>1. c \in PCs BY DEF PCs
  <2>2. r \in Process /\ r.pc = c /\ r.member = m BY <2>1 DEF NoProc, Process
  <2>3. Start(p, k, r) BY <1>2
  <2> HIDE DEF r
  <2>4. Knows(r) BY <2>2 DEF Knows
  <2> QED BY <2>2, <2>3, <2>4, StartStep
<1>3. ASSUME NEW l \in Links, link[l].there, Start(p, "ACCEPT", [NoProc EXCEPT !.pc = "peek", !.link = l])
      PROVE  Inductive'
  <2> DEFINE r == [NoProc EXCEPT !.pc = "peek", !.link = l]
  <2>1. r \in Process /\ r.pc = "peek" /\ r.link = l
    <3>1. l \in Nat /\ "peek" \in PCs BY BoundsAssumption DEF Links, PCs
    <3> QED BY <3>1, NoProcType DEF Process
  <2>2. Start(p, "ACCEPT", r) BY <1>3
  <2> HIDE DEF r
  <2>3. Knows(r) BY <1>3, <2>1 DEF Knows
  <2> QED BY <2>1, <2>2, <2>3, StartStep
<1>4. ASSUME NEW b \in Bizs, NEW m \in Members \cup {None},
             Start(p, "CREATE", [NoProc EXCEPT !.pc = "check", !.biz = b, !.member = m])
      PROVE  Inductive'
  <2> DEFINE r == [NoProc EXCEPT !.pc = "check", !.biz = b, !.member = m]
  <2>1. r \in Process /\ r.pc = "check" /\ r.biz = b /\ r.staff = None BY DEF NoProc, Process, PCs
  <2>2. Start(p, "CREATE", r) BY <1>4
  <2> HIDE DEF r
  <2>3. Knows(r) BY <2>1 DEF Knows
  <2> QED BY <2>1, <2>2, <2>3, StartStep
<1>5. ASSUME NEW s \in Staff, staff[s].there, NEW m \in Members \cup {None},
             Start(p, "UPDATE", [NoProc EXCEPT !.pc = "check", !.biz = staff[s].biz, !.staff = s, !.member = m])
      PROVE  Inductive'
  <2>1. PICK b \in Bizs : b = staff[s].biz BY <1>5, RowFacts DEF Rows
  <2> DEFINE r == [NoProc EXCEPT !.pc = "check", !.biz = b, !.staff = s, !.member = m]
  <2>2. r \in Process /\ r.pc = "check" /\ r.biz = b /\ r.staff = s BY DEF NoProc, Process, PCs
  <2>3. Start(p, "UPDATE", r) BY <1>5, <2>1
  <2> HIDE DEF r
  <2>4. Of(s, b) BY <1>5, <2>1, RowFacts DEF Rows, Of
  <2>5. Knows(r) BY <2>2, <2>4 DEF Knows
  <2> QED BY <2>2, <2>3, <2>5, StartStep
<1>6. ASSUME NEW s \in Staff, NEW k, NEW c \in {"count", "switch"},
             Start(p, k, [NoProc EXCEPT !.pc = c, !.staff = s])
      PROVE  Inductive'
  <2> DEFINE r == [NoProc EXCEPT !.pc = c, !.staff = s]
  <2>1. c \in PCs BY DEF PCs
  <2>2. r \in Process /\ r.pc = c /\ r.staff = s BY <2>1 DEF NoProc, Process
  <2>3. Start(p, k, r) BY <1>6
  <2> HIDE DEF r
  <2>4. Knows(r) BY <2>2 DEF Knows
  <2> QED BY <2>2, <2>3, <2>4, StartStep
<1> QED BY <1>1, <1>2, <1>3, <1>4, <1>5, <1>6 DEF StartCall

-----------------------------------------------------------------------------
(* inviteManager and its link. *)

LEMMA InviteChecksKeeps == ASSUME Inductive, NEW p \in Procs, InviteChecks(p) PROVE Inductive'
<1>0. PICK q \in Process : q = proc[p] /\ Knows(q) BY CallFacts
<1>1. Still /\ q.pc = "invite" BY <1>0 DEF InviteChecks, Still
<1>2. CASE End(p) BY <1>1, <1>2, EndStill
<1>3. CASE /\ q.staff # None => staff[q.staff].there /\ staff[q.staff].biz = q.biz
           /\ proc' = [proc EXCEPT ![p].pc = "pick", ![p].known = user[q.user].there]
  <2>1. PICK k \in BOOLEAN : k = user[q.user].there BY <1>0, <1>1, RowFacts DEF Knows, Tables, Account
  <2> DEFINE r == [q EXCEPT !.pc = "pick", !.known = k]
  <2>2. Becomes(p, r) BY <1>0, <1>3, <2>1 DEF Becomes
  <2>3. "pick" \in PCs BY DEF PCs
  <2>4. r \in Process /\ r.pc = "pick" /\ r.biz = q.biz /\ r.user = q.user /\ r.staff = q.staff
    BY <2>3 DEF Process
  <2> HIDE DEF r
  <2>5. q.staff # None => Of(q.staff, q.biz) BY <1>3, RowFacts DEF Of, Rows, Process
  <2>6. Knows(r) BY <1>0, <1>1, <2>4, <2>5 DEF Knows
  <2> QED BY <1>1, <2>2, <2>4, <2>6, LocalStep
<1> QED BY <1>0, <1>2, <1>3 DEF InviteChecks

LEMMA InvitePickKeeps == ASSUME Inductive, NEW p \in Procs, InvitePick(p) PROVE Inductive'
<1>0. PICK q \in Process : q = proc[p] /\ Knows(q) BY CallFacts
<1>1. Still /\ q.pc = "pick" BY <1>0 DEF InvitePick, Still
<1>2. PICK s \in Staff \cup {None} :
        /\ s # None => s \in Namesakes(q.biz, q.user)
        /\ proc' = [proc EXCEPT ![p].pick = s, ![p].pc = "commit"]
  BY <1>0 DEF InvitePick, One, Namesakes
<1>3. s # None => Of(s, q.biz) BY <1>2, RowFacts DEF Namesakes, Of, Rows
<1> DEFINE r == [q EXCEPT !.pick = s, !.pc = "commit"]
<1>4. Becomes(p, r) BY <1>0, <1>2 DEF Becomes
<1>5. "commit" \in PCs BY DEF PCs
<1>6. /\ r \in Process /\ r.pc = "commit" /\ r.biz = q.biz /\ r.user = q.user
      /\ r.staff = q.staff /\ r.pick = s
  BY <1>5 DEF Process
<1> HIDE DEF r
<1>7. Knows(r) BY <1>0, <1>1, <1>3, <1>6 DEF Knows
<1> QED BY <1>1, <1>4, <1>6, <1>7, LocalStep

(* The transaction: m is a new member, and s the resource that stands for it. *)
LEMMA InviteCommitKeeps == ASSUME Inductive, NEW p \in Procs, InviteCommit(p) PROVE Inductive'
<1>0. PICK q \in Process : q = proc[p] /\ Knows(q) BY CallFacts
<1>1. q.pc = "commit" /\ q.biz \in Bizs /\ q.user \in Users /\ UNCHANGED <<link, starts>>
  BY <1>0 DEF InviteCommit, Knows
<1> DEFINE target == IF q.staff # None THEN q.staff ELSE q.pick
           linked == target # None /\ staff[target].there
<1>2. CASE End(p) /\ UNCHANGED <<user, member, staff>> BY <1>1, <1>2, EndStill DEF Still
<1>3. ASSUME NEW m \in Members, ~member[m].there,
             NEW s \in IF linked THEN {target} ELSE {t \in Staff : ~staff[t].spent},
             user' = [user EXCEPT ![q.user].there = TRUE],
             member' = [member EXCEPT ![m] = [there |-> TRUE, user |-> q.user, biz |-> q.biz,
                                              status |-> "INVITED"]],
             staff' = IF linked
               THEN [staff EXCEPT ![s].member = m]
               ELSE [staff EXCEPT ![s] = [NoStaff EXCEPT !.there = TRUE, !.spent = TRUE, !.biz = q.biz,
                                            !.named = q.user, !.member = m, !.active = TRUE]],
             proc' = [proc EXCEPT ![p] = [NoProc EXCEPT !.pc = "retire", !.user = q.user]]
      PROVE  Inductive'
  <2>1. target \in Staff \cup {None} /\ (target # None => Of(target, q.biz))
    BY <1>0, <1>1 DEF Knows, Process
  <2>2. s \in Staff /\ (linked => staff[s].there /\ staff[s].biz = q.biz) /\ (~linked => ~staff[s].spent)
    BY <1>3, <2>1 DEF Of
  <2>3. PICK w \in Resource : w = staff[s] BY <2>2, RowFacts DEF Tables
  <2>4. PICK v \in Resource :
          /\ staff' = [staff EXCEPT ![s] = v]
          /\ v.there /\ v.spent /\ v.biz = q.biz /\ v.member = m
    <3>1. CASE linked
      <4> DEFINE v == [w EXCEPT !.member = m]
      <4>1. staff' = [staff EXCEPT ![s] = v] BY <1>3, <2>3, <3>1
      <4>2. w.there /\ w.spent /\ w.biz = q.biz BY <2>2, <2>3, <3>1, RowFacts DEF Rows
      <4>3. v \in Resource /\ v.there /\ v.spent /\ v.biz = q.biz /\ v.member = m
        BY <4>2 DEF Resource
      <4> HIDE DEF v
      <4> QED BY <4>1, <4>3
    <3>2. CASE ~linked
      <4> DEFINE v == [NoStaff EXCEPT !.there = TRUE, !.spent = TRUE, !.biz = q.biz,
                                      !.named = q.user, !.member = m, !.active = TRUE]
      <4>1. staff' = [staff EXCEPT ![s] = v] BY <1>3, <3>2
      <4>2. v \in Resource /\ v.there /\ v.spent /\ v.biz = q.biz /\ v.member = m
        BY <1>1 DEF NoStaff, Resource
      <4> HIDE DEF v
      <4> QED BY <4>1, <4>2
    <3> QED BY <3>1, <3>2
  <2> HIDE DEF linked, target
  <2> DEFINE n == [there |-> TRUE, user |-> q.user, biz |-> q.biz, status |-> "INVITED"]
  <2>5. n \in Manager /\ n.there /\ n.user = q.user /\ n.biz = q.biz BY <1>1 DEF Manager
  <2>6. member' = [member EXCEPT ![m] = n] BY <1>3
  <2> HIDE DEF n
  <2>7. /\ \A k \in Members : member'[k] = IF k = m THEN n ELSE member[k]
        /\ \A t \in Staff : staff'[t] = IF t = s THEN v ELSE staff[t]
        /\ \A u \in Users : user[u].there => user'[u].there
        /\ user'[q.user].there
        /\ user' \in [Users -> Account]
    <3>1. \A k \in Members : member'[k] = IF k = m THEN n ELSE member[k]
      BY <2>6, RowFacts DEF Tables
    <3>2. \A t \in Staff : staff'[t] = IF t = s THEN v ELSE staff[t] BY <2>4, RowFacts DEF Tables
    <3>3. PICK a \in Account : a = user[q.user] BY <1>1, RowFacts DEF Tables
    <3> DEFINE here == [a EXCEPT !.there = TRUE]
    <3>4. here \in Account /\ here.there BY DEF Account
    <3>5. user' = [user EXCEPT ![q.user] = here] BY <1>3, <3>3
    <3> HIDE DEF here
    <3> QED BY <1>1, <3>1, <3>2, <3>4, <3>5, RowFacts DEF Tables
  <2>8. Tables' BY <1>1, <2>2, <2>4, <2>5, <2>6, <2>7, RowFacts DEF Tables
  <2>9. Grows BY <1>1, <1>3, <2>2, <2>4, <2>7, RowFacts DEF Grows, Rows
  <2>10. \A t \in Staff : staff[t].member \in Members \cup {None} BY RowFacts DEF Tables, Resource
  <2>11. \A t \in Staff : staff[t].there => staff[t].member # m BY <1>3, RowFacts, IdsAssumption DEF Rows
  <2>12. Rows'
    <3>1. \A k \in Members : member'[k].there => /\ member'[k].user \in Users
                                                 /\ user'[member'[k].user].there /\ member'[k].biz \in Bizs
      BY <1>1, <2>5, <2>7, RowFacts DEF Rows
    <3>2. \A t \in Staff : staff'[t].there => staff'[t].spent /\ staff'[t].biz \in Bizs
      BY <1>1, <2>4, <2>7, RowFacts DEF Rows
    <3>3. \A t \in Staff : staff'[t].there /\ staff'[t].member # None => member'[staff'[t].member].there
      BY <2>4, <2>5, <2>7, <2>10, RowFacts DEF Rows
    <3>4. \A l \in Links : link'[l].there => link'[l].user \in Users /\ user'[link'[l].user].there
      BY <1>1, <2>7, RowFacts DEF Rows
    <3> QED BY <3>1, <3>2, <3>3, <3>4 DEF Rows
  <2>13. OneResourcePerMember'
    BY <2>4, <2>5, <2>7, <2>10, <2>11, RowFacts DEF OneResourcePerMember
  <2> DEFINE r == [NoProc EXCEPT !.pc = "retire", !.user = q.user]
  <2>14. r \in Process /\ r.pc = "retire" /\ r.user = q.user BY <1>1 DEF NoProc, Process, PCs
  <2>15. Becomes(p, r) BY <1>3 DEF Becomes
  <2> HIDE DEF r
  <2>16. Knows(r)' BY <1>1, <2>7, <2>14 DEF Knows
  <2> QED BY <2>8, <2>9, <2>12, <2>13, <2>14, <2>15, <2>16, TableStep DEF Data
<1> QED
  <2>1. \/ End(p) /\ UNCHANGED <<user, member, staff>>
        \/ \E m \in Members, s \in IF linked THEN {target} ELSE {t \in Staff : ~staff[t].spent} :
             /\ ~member[m].there
             /\ user' = [user EXCEPT ![q.user].there = TRUE]
             /\ member' = [member EXCEPT ![m] = [there |-> TRUE, user |-> q.user, biz |-> q.biz,
                                              status |-> "INVITED"]]
             /\ staff' = IF linked
               THEN [staff EXCEPT ![s].member = m]
               ELSE [staff EXCEPT ![s] = [NoStaff EXCEPT !.there = TRUE, !.spent = TRUE, !.biz = q.biz,
                                            !.named = q.user, !.member = m, !.active = TRUE]]
             /\ proc' = [proc EXCEPT ![p] = [NoProc EXCEPT !.pc = "retire", !.user = q.user]]
    BY <1>0, Zenon DEF InviteCommit
  <2> HIDE DEF linked, target
  <2> QED BY <1>2, <1>3, <2>1, Zenon

LEMMA RetireKeeps == ASSUME Inductive, NEW p \in Procs, Retire(p) PROVE Inductive'
<1>0. PICK q \in Process : q = proc[p] /\ Knows(q) BY CallFacts
<1>1. q.pc = "retire" /\ Goto(p, "insert") /\ UNCHANGED <<user, member, staff>> BY <1>0 DEF Retire
<1>2. /\ link' \in [Links -> Invitation]
      /\ \A l \in Links : link'[l].there = link[l].there /\ link'[l].user = link[l].user
  <2>1. ASSUME NEW l \in Links
        PROVE  /\ [link[l] EXCEPT !.used = TRUE] \in Invitation
               /\ [link[l] EXCEPT !.used = TRUE].there = link[l].there
               /\ [link[l] EXCEPT !.used = TRUE].user = link[l].user
    <3>1. link[l] \in Invitation BY RowFacts DEF Tables
    <3> QED BY <3>1 DEF Invitation
  <2>2. link' = [l \in Links |-> IF l \in LiveLinks(proc[p].user) THEN [link[l] EXCEPT !.used = TRUE] ELSE link[l]]
    BY DEF Retire
  <2>3. \A l \in Links : link[l] \in Invitation BY RowFacts DEF Tables
  <2>4. link' \in [Links -> Invitation] BY <2>1, <2>2, <2>3
  <2>5. ASSUME NEW l \in Links PROVE link'[l].there = link[l].there /\ link'[l].user = link[l].user
    <3>1. link'[l] = link[l] \/ link'[l] = [link[l] EXCEPT !.used = TRUE] BY <2>2
    <3> QED BY <2>1, <3>1
  <2> QED BY <2>4, <2>5
<1>3. Grows /\ Tables' /\ Data' BY <1>1, <1>2, LinkKept
<1>4. "insert" \in PCs BY DEF PCs
<1>5. \A r \in Process : r.pc = "insert" /\ SameCall(r, q) => Knows(r)'
  BY <1>0, <1>1, <1>3 DEF Knows, SameCall, Grows
<1> QED BY <1>0, <1>1, <1>3, <1>4, <1>5, GotoStep

LEMMA InsertKeeps == ASSUME Inductive, NEW p \in Procs, Insert(p) PROVE Inductive'
<1>0. PICK q \in Process : q = proc[p] /\ Knows(q) BY CallFacts
<1>1. q.pc = "insert" /\ End(p) /\ UNCHANGED <<user, member, staff>> BY <1>0 DEF Insert
<1>2. CASE UNCHANGED link BY <1>1, <1>2, EndStill DEF Still
<1>3. ASSUME NEW l \in Links, ~link[l].there,
             link' = [link EXCEPT ![l] = [NoLink EXCEPT !.there = TRUE, !.user = q.user]]
      PROVE  Inductive'
  <2> DEFINE v == [NoLink EXCEPT !.there = TRUE, !.user = q.user]
  <2>1. q.user \in Users /\ user[q.user].there BY <1>0, <1>1 DEF Knows
  <2>2. v \in Invitation /\ v.there /\ v.user = q.user BY <2>1 DEF NoLink, Invitation
  <2>3. link' = [link EXCEPT ![l] = v] BY <1>3
  <2> HIDE DEF v
  <2>4. Tables' BY <1>1, <2>2, <2>3, RowFacts DEF Tables
  <2>5. \A k \in Links : link'[k] = IF k = l THEN v ELSE link[k] BY <2>3, RowFacts DEF Tables
  <2>6. Grows BY <1>1, <1>3, <2>5 DEF Grows
  <2>7. Rows' BY <1>1, <2>1, <2>2, <2>5, RowFacts DEF Rows
  <2>8. OneResourcePerMember' BY <1>1, RowFacts DEF OneResourcePerMember
  <2> QED BY <1>1, <2>4, <2>6, <2>7, <2>8, EndStep DEF Data
<1> QED BY <1>0, <1>2, <1>3 DEF Insert

LEMMA ResendKeeps == ASSUME Inductive, NEW p \in Procs, Resend(p) PROVE Inductive'
<1>0. PICK q \in Process : q = proc[p] /\ Knows(q) BY CallFacts
<1>1. Still /\ q.member \in Members BY <1>0 DEF Resend, Still, Knows
<1>2. CASE End(p) BY <1>1, <1>2, EndStill
<1>3. CASE /\ member[q.member].there
           /\ proc' = [proc EXCEPT ![p] = [NoProc EXCEPT !.pc = "retire", !.user = member[q.member].user]]
  <2>1. PICK u \in Users : u = member[q.member].user /\ user[u].there BY <1>1, <1>3, RowFacts DEF Rows
  <2> DEFINE r == [NoProc EXCEPT !.pc = "retire", !.user = u]
  <2>2. r \in Process /\ r.pc = "retire" /\ r.user = u BY DEF NoProc, Process, PCs
  <2>3. Becomes(p, r) BY <1>3, <2>1 DEF Becomes
  <2> HIDE DEF r
  <2>4. Knows(r) BY <2>1, <2>2 DEF Knows
  <2> QED BY <1>1, <2>2, <2>3, <2>4, LocalStep
<1> QED BY <1>0, <1>2, <1>3 DEF Resend

(* One link is used up or gets old. *)
LEMMA LinkStep ==
  ASSUME Inductive, UNCHANGED <<user, member, staff>>, NEW l \in Links, NEW v \in Invitation,
         link' = [link EXCEPT ![l] = v], v.there = link[l].there, v.user = link[l].user
  PROVE  Grows /\ Tables' /\ Data'
<1>1. link' \in [Links -> Invitation] BY RowFacts DEF Tables
<1>2. \A k \in Links : link'[k].there = link[k].there /\ link'[k].user = link[k].user
  BY RowFacts DEF Tables
<1> QED BY <1>1, <1>2, LinkKept

LEMMA LinkExpiresKeeps == ASSUME Inductive, NEW l \in Links, LinkExpires(l) PROVE Inductive'
<1>1. PICK w \in Invitation : w = link[l] BY RowFacts DEF Tables
<1> DEFINE v == [w EXCEPT !.expired = TRUE]
<1>2. v \in Invitation /\ v.there = w.there /\ v.user = w.user BY DEF Invitation
<1>3. link' = [link EXCEPT ![l] = v] /\ UNCHANGED <<user, member, staff, proc>>
  BY <1>1 DEF LinkExpires
<1> HIDE DEF v
<1> QED BY <1>1, <1>2, <1>3, LinkStep, OtherStep

-----------------------------------------------------------------------------
(* acceptInvite. *)

LEMMA PeekKeeps == ASSUME Inductive, NEW p \in Procs, Peek(p) PROVE Inductive'
<1>0. PICK q \in Process : q = proc[p] /\ Knows(q) BY CallFacts
<1>1. Still /\ q.pc = "peek" /\ q.link \in Links /\ link[q.link].there
  BY <1>0 DEF Peek, Still, Knows
<1>2. CASE End(p) BY <1>1, <1>2, EndStill
<1>3. CASE proc' = [proc EXCEPT ![p].pc = "context", ![p].user = link[q.link].user]
  <2>1. PICK u \in Users : u = link[q.link].user BY <1>1, RowFacts DEF Rows
  <2> DEFINE r == [q EXCEPT !.pc = "context", !.user = u]
  <2>2. Becomes(p, r) BY <1>0, <1>3, <2>1 DEF Becomes
  <2>3. "context" \in PCs BY DEF PCs
  <2>4. r \in Process /\ r.pc = "context" /\ r.link = q.link /\ r.user = u BY <2>3 DEF Process
  <2> HIDE DEF r
  <2>5. Knows(r) BY <1>1, <2>1, <2>4 DEF Knows
  <2> QED BY <1>1, <2>2, <2>4, <2>5, LocalStep
<1> QED BY <1>0, <1>2, <1>3 DEF Peek

LEMMA ContextKeeps == ASSUME Inductive, NEW p \in Procs, Context(p) PROVE Inductive'
<1>0. PICK q \in Process : q = proc[p] /\ Knows(q) BY CallFacts
<1>1. Still /\ q.pc = "context" BY <1>0 DEF Context, Still
<1>2. CASE End(p) BY <1>1, <1>2, EndStill
<1>3. ASSUME NEW m \in MembershipsOf(q.user), proc' = [proc EXCEPT ![p].member = m, ![p].pc = "accept"]
      PROVE  Inductive'
  <2>1. m \in Members /\ member[m].there /\ member[m].user = q.user BY <1>3 DEF MembershipsOf
  <2> DEFINE r == [q EXCEPT !.member = m, !.pc = "accept"]
  <2>2. Becomes(p, r) BY <1>0, <1>3 DEF Becomes
  <2>3. "accept" \in PCs BY DEF PCs
  <2>4. /\ r \in Process /\ r.pc = "accept" /\ r.link = q.link /\ r.user = q.user /\ r.member = m
    BY <2>1, <2>3 DEF Process
  <2> HIDE DEF r
  <2>5. Knows(r) BY <1>0, <1>1, <2>1, <2>4 DEF Knows
  <2> QED BY <1>1, <2>2, <2>4, <2>5, LocalStep
<1> QED BY <1>0, <1>2, <1>3 DEF Context, One

(* What the transaction of an acceptance leaves. *)
LEMMA AcceptFacts ==
  ASSUME Inductive, NEW p \in Procs, Accept(p)
  PROVE  \/ UNCHANGED <<link, member>>
         \/ \E l \in Links, m \in Members, v \in Invitation, n \in Manager :
              /\ l = proc[p].link /\ m = proc[p].member
              /\ Opens(l) /\ member[m].status = "INVITED"
              /\ link' = [link EXCEPT ![l] = v] /\ member' = [member EXCEPT ![m] = n]
              /\ v.there = link[l].there /\ v.user = link[l].user /\ v.used
              /\ n.there = member[m].there /\ n.user = member[m].user /\ n.biz = member[m].biz
              /\ n.status = "ACTIVE"
<1>0. PICK q \in Process : q = proc[p] /\ Knows(q) BY CallFacts
<1>1. q.link \in Links /\ q.member \in Members BY <1>0 DEF Accept, Knows
<1>2. CASE /\ Opens(q.link) /\ member[q.member].status = "INVITED"
           /\ link' = [link EXCEPT ![q.link].used = TRUE]
           /\ member' = [member EXCEPT ![q.member].status = "ACTIVE"]
  <2>1. PICK w \in Invitation : w = link[q.link] BY <1>1, RowFacts DEF Tables
  <2>2. PICK o \in Manager : o = member[q.member] BY <1>1, RowFacts DEF Tables
  <2> DEFINE v == [w EXCEPT !.used = TRUE]
             n == [o EXCEPT !.status = "ACTIVE"]
  <2>3. v \in Invitation /\ v.there = w.there /\ v.user = w.user /\ v.used BY DEF Invitation
  <2>4. n \in Manager /\ n.there = o.there /\ n.user = o.user /\ n.biz = o.biz /\ n.status = "ACTIVE"
    BY DEF Manager
  <2>5. link' = [link EXCEPT ![q.link] = v] /\ member' = [member EXCEPT ![q.member] = n]
    BY <1>2, <2>1, <2>2
  <2> HIDE DEF v, n
  <2>6. /\ q.link = proc[p].link /\ q.member = proc[p].member
        /\ v.there = link[q.link].there /\ v.user = link[q.link].user
        /\ n.there = member[q.member].there /\ n.user = member[q.member].user
        /\ n.biz = member[q.member].biz
    BY <1>0, <2>1, <2>2, <2>3, <2>4
  <2> SUFFICES \E l \in Links, m \in Members, x \in Invitation, y \in Manager :
                 /\ l = proc[p].link /\ m = proc[p].member
                 /\ Opens(l) /\ member[m].status = "INVITED"
                 /\ link' = [link EXCEPT ![l] = x] /\ member' = [member EXCEPT ![m] = y]
                 /\ x.there = link[l].there /\ x.user = link[l].user /\ x.used
                 /\ y.there = member[m].there /\ y.user = member[m].user /\ y.biz = member[m].biz
                 /\ y.status = "ACTIVE"
    OBVIOUS
  <2> USE <1>1, <2>3, <2>4
  <2> WITNESS q.link \in Links, q.member \in Members, v \in Invitation, n \in Manager
  <2> QED BY <1>2, <2>3, <2>4, <2>5, <2>6
<1> QED BY <1>0, <1>2 DEF Accept, Consumes

LEMMA AcceptKeeps == ASSUME Inductive, NEW p \in Procs, Accept(p) PROVE Inductive'
<1>1. End(p) /\ UNCHANGED <<user, staff>> BY DEF Accept
<1>2. CASE UNCHANGED <<link, member>> BY <1>1, <1>2, EndStill DEF Still
<1>3. ASSUME NEW l \in Links, NEW m \in Members, NEW v \in Invitation, NEW n \in Manager,
             link' = [link EXCEPT ![l] = v], member' = [member EXCEPT ![m] = n],
             v.there = link[l].there, v.user = link[l].user,
             n.there = member[m].there, n.user = member[m].user, n.biz = member[m].biz
      PROVE  Inductive'
  <2>1. link' \in [Links -> Invitation] /\ member' \in [Members -> Manager] /\ staff' \in [Staff -> Resource]
    BY <1>1, <1>3, RowFacts DEF Tables
  <2>2. /\ \A k \in Links : link'[k].there = link[k].there /\ link'[k].user = link[k].user
        /\ \A k \in Members : /\ member'[k].there = member[k].there
                              /\ member'[k].user = member[k].user /\ member'[k].biz = member[k].biz
    BY <1>3, RowFacts DEF Tables
  <2>3. Grows BY <1>1, <2>2 DEF Grows
  <2>4. Tables' /\ Data' BY <1>1, <2>1, <2>2, <2>3, MemberKept
  <2> QED BY <1>1, <2>3, <2>4, EndStep
<1> QED BY <1>2, <1>3, AcceptFacts

-----------------------------------------------------------------------------
(* setMemberActive. *)

LEMMA ReadActiveKeeps ==
  ASSUME Inductive, NEW p \in Procs, ReadActive(p) \/ ReadInactive(p) PROVE Inductive'
<1>0. PICK q \in Process : q = proc[p] /\ Knows(q) BY CallFacts
<1>1. Still /\ q.member \in Members BY <1>0 DEF ReadActive, ReadInactive, Still, Knows
<1>2. "deactivate" \in PCs /\ "activate" \in PCs BY DEF PCs
<1>3. End(p) \/ Goto(p, "deactivate") \/ Goto(p, "activate") BY DEF ReadActive, ReadInactive
<1>4. \A r \in Process : r.pc \in {"deactivate", "activate"} /\ SameCall(r, q) => Knows(r)
  BY <1>1 DEF Knows, SameCall
<1> QED BY <1>0, <1>1, <1>2, <1>3, <1>4, EndStill, GotoStill

(* The status of one member changes. *)
LEMMA StatusStep ==
  ASSUME Inductive, UNCHANGED <<user, link>>, NEW m \in Members,
         NEW st \in {"INVITED", "ACTIVE", "INACTIVE"}, member' = [member EXCEPT ![m].status = st],
         staff' \in [Staff -> Resource],
         \A s \in Staff : /\ staff'[s].there = staff[s].there /\ staff'[s].spent = staff[s].spent
                          /\ staff'[s].biz = staff[s].biz /\ staff'[s].member = staff[s].member
  PROVE  Grows /\ Tables' /\ Data'
<1>1. PICK o \in Manager : o = member[m] BY RowFacts DEF Tables
<1> DEFINE n == [o EXCEPT !.status = st]
<1>2. n \in Manager /\ n.there = o.there /\ n.user = o.user /\ n.biz = o.biz BY DEF Manager
<1>3. member' = [member EXCEPT ![m] = n] BY <1>1
<1> HIDE DEF n
<1>4. member' \in [Members -> Manager] BY <1>2, <1>3, RowFacts DEF Tables
<1>5. \A k \in Members : /\ member'[k].there = member[k].there
                         /\ member'[k].user = member[k].user /\ member'[k].biz = member[k].biz
  BY <1>1, <1>2, <1>3, RowFacts DEF Tables
<1>6. Grows BY <1>5 DEF Grows
<1>7. link' \in [Links -> Invitation] BY RowFacts DEF Tables
<1> QED BY <1>4, <1>5, <1>6, <1>7, MemberKept

LEMMA DeactivateKeeps == ASSUME Inductive, NEW p \in Procs, Deactivate(p) PROVE Inductive'
<1>0. PICK q \in Process : q = proc[p] /\ Knows(q) BY CallFacts
<1>1. End(p) /\ q.member \in Members /\ UNCHANGED <<user, link>> BY <1>0 DEF Deactivate, Knows
<1>2. CASE UNCHANGED <<member, staff>> BY <1>1, <1>2, EndStill DEF Still
<1>3. CASE /\ member' = [member EXCEPT ![q.member].status = "INACTIVE"]
           /\ staff' = [s \in Staff |-> IF s \in LinkedTo(q.member) THEN [staff[s] EXCEPT !.active = FALSE] ELSE staff[s]]
  <2>1. ASSUME NEW s \in Staff
        PROVE  /\ [staff[s] EXCEPT !.active = FALSE] \in Resource
               /\ [staff[s] EXCEPT !.active = FALSE].there = staff[s].there
               /\ [staff[s] EXCEPT !.active = FALSE].spent = staff[s].spent
               /\ [staff[s] EXCEPT !.active = FALSE].biz = staff[s].biz
               /\ [staff[s] EXCEPT !.active = FALSE].member = staff[s].member
    <3>1. staff[s] \in Resource BY RowFacts DEF Tables
    <3> QED BY <3>1 DEF Resource
  <2>2. \A s \in Staff : staff[s] \in Resource BY RowFacts DEF Tables
  <2>3. staff' \in [Staff -> Resource] BY <1>3, <2>1, <2>2
  <2>4. ASSUME NEW s \in Staff
        PROVE  /\ staff'[s].there = staff[s].there /\ staff'[s].spent = staff[s].spent
               /\ staff'[s].biz = staff[s].biz /\ staff'[s].member = staff[s].member
    <3>1. staff'[s] = staff[s] \/ staff'[s] = [staff[s] EXCEPT !.active = FALSE] BY <1>3
    <3> QED BY <2>1, <3>1
  <2>5. Grows /\ Tables' /\ Data' BY <1>1, <1>3, <2>3, <2>4, StatusStep
  <2> QED BY <1>1, <2>5, EndStep
<1> QED BY <1>0, <1>2, <1>3 DEF Deactivate

LEMMA ActivateKeeps == ASSUME Inductive, NEW p \in Procs, Activate(p) PROVE Inductive'
<1>0. PICK q \in Process : q = proc[p] /\ Knows(q) BY CallFacts
<1>1. End(p) /\ q.member \in Members /\ UNCHANGED <<user, staff, link>> BY <1>0 DEF Activate, Knows
<1>2. CASE UNCHANGED member BY <1>1, <1>2, EndStill DEF Still
<1>3. CASE member' = [member EXCEPT ![q.member].status = "ACTIVE"]
  <2>1. staff' \in [Staff -> Resource] BY <1>1, RowFacts DEF Tables
  <2>2. Grows /\ Tables' /\ Data' BY <1>1, <1>3, <2>1, StatusStep
  <2> QED BY <1>1, <2>2, EndStep
<1> QED BY <1>0, <1>2, <1>3 DEF Activate

-----------------------------------------------------------------------------
(* The calls on a resource. *)

LEMMA CheckLinkableKeeps == ASSUME Inductive, NEW p \in Procs, CheckLinkable(p) PROVE Inductive'
<1>0. PICK q \in Process : q = proc[p] /\ Knows(q) BY CallFacts
<1>1. Still /\ q.pc = "check" BY <1>0 DEF CheckLinkable, Still
<1>2. CASE End(p) BY <1>1, <1>2, EndStill
<1>3. CASE /\ q.member = None \/ (member[q.member].there /\ member[q.member].biz = q.biz)
           /\ Goto(p, "write")
  <2>1. "write" \in PCs BY DEF PCs
  <2>2. \A r \in Process : r.pc = "write" /\ SameCall(r, q) => Knows(r)
    BY <1>0, <1>1, <1>3 DEF Knows, SameCall
  <2> QED BY <1>0, <1>1, <1>3, <2>1, <2>2, GotoStill
<1>4. \/ End(p)
      \/ Goto(p, "write") /\ (q.member = None \/ (member[q.member].there /\ member[q.member].biz = q.biz))
  BY <1>0 DEF CheckLinkable
<1> QED BY <1>2, <1>3, <1>4

LEMMA WriteStaffKeeps == ASSUME Inductive, NEW p \in Procs, WriteStaff(p) PROVE Inductive'
<1>0. PICK q \in Process : q = proc[p] /\ Knows(q) BY CallFacts
<1>1. q.pc = "write" /\ End(p) /\ UNCHANGED <<user, member, link>> BY <1>0 DEF WriteStaff
<1>2. CASE UNCHANGED staff BY <1>1, <1>2, EndStill DEF Still
<1>3. ASSUME NEW s \in Staff, LinkAllowed(q.member, s),
             IF q.staff = None THEN ~staff[s].spent ELSE s = q.staff /\ staff[s].there,
             staff' = IF q.staff = None
               THEN [staff EXCEPT ![s] = [NoStaff EXCEPT !.there = TRUE, !.spent = TRUE, !.biz = q.biz,
                                            !.member = q.member, !.active = TRUE]]
               ELSE [staff EXCEPT ![s].member = q.member]
      PROVE  Inductive'
  <2>1. PICK w \in Resource : w = staff[s] BY RowFacts DEF Tables
  <2>2. PICK v \in Resource :
          /\ staff' = [staff EXCEPT ![s] = v]
          /\ v.there /\ v.spent /\ v.biz = q.biz /\ v.member = q.member
          /\ w.spent => w.there /\ w.biz = q.biz
    <3>1. CASE q.staff = None
      <4> DEFINE v == [NoStaff EXCEPT !.there = TRUE, !.spent = TRUE, !.biz = q.biz,
                                      !.member = q.member, !.active = TRUE]
      <4>1. staff' = [staff EXCEPT ![s] = v] /\ ~w.spent BY <1>3, <2>1, <3>1
      <4>2. v \in Resource /\ v.there /\ v.spent /\ v.biz = q.biz /\ v.member = q.member
        BY DEF NoStaff, Resource, Process
      <4> HIDE DEF v
      <4> QED BY <4>1, <4>2
    <3>2. CASE q.staff # None
      <4> DEFINE v == [w EXCEPT !.member = q.member]
      <4>1. w.there /\ w.biz = q.biz /\ w.spent
        BY <1>0, <1>1, <1>3, <2>1, <3>2, RowFacts DEF Knows, Of, Rows
      <4>2. staff' = [staff EXCEPT ![s] = v] BY <1>3, <2>1, <3>2
      <4>3. v \in Resource /\ v.there /\ v.spent /\ v.biz = q.biz /\ v.member = q.member
        BY <4>1 DEF Resource, Process
      <4> HIDE DEF v
      <4> QED BY <4>1, <4>2, <4>3
    <3> QED BY <3>1, <3>2
  <2>3. q.biz \in Bizs /\ (q.member # None => member[q.member].there /\ member[q.member].biz = q.biz)
    BY <1>0, <1>1 DEF Knows
  <2>4. q.member # None => \A t \in Staff : staff[t].there /\ staff[t].member = q.member => t = s
    BY <1>3 DEF LinkAllowed, LinkedTo
  <2>5. Grows /\ Tables' /\ Data' BY <1>1, <2>1, <2>2, <2>3, <2>4, StaffStep
  <2> QED BY <1>1, <2>5, EndStep
<1> QED
  <2>1. \/ UNCHANGED staff
        \/ \E s \in Staff :
             /\ LinkAllowed(q.member, s)
             /\ IF q.staff = None THEN ~staff[s].spent ELSE s = q.staff /\ staff[s].there
             /\ staff' = IF q.staff = None
                  THEN [staff EXCEPT ![s] = [NoStaff EXCEPT !.there = TRUE, !.spent = TRUE, !.biz = q.biz,
                                               !.member = q.member, !.active = TRUE]]
                  ELSE [staff EXCEPT ![s].member = q.member]
    BY <1>0, Zenon DEF WriteStaff
  <2> QED BY <1>2, <1>3, <2>1, Zenon

LEMMA CountRefsKeeps == ASSUME Inductive, NEW p \in Procs, CountRefs(p) PROVE Inductive'
<1>0. PICK q \in Process : q = proc[p] /\ Knows(q) BY CallFacts
<1>1. Still /\ q.staff \in Staff BY <1>0 DEF CountRefs, Still, Knows
<1>2. CASE End(p) BY <1>1, <1>2, EndStill
<1>3. CASE proc' = [proc EXCEPT ![p].found = staff[q.staff].booked, ![p].pc = "remove"]
  <2>1. PICK f \in BOOLEAN : f = staff[q.staff].booked BY <1>1, RowFacts DEF Tables, Resource
  <2> DEFINE r == [q EXCEPT !.found = f, !.pc = "remove"]
  <2>2. Becomes(p, r) BY <1>0, <1>3, <2>1 DEF Becomes
  <2>3. "remove" \in PCs BY DEF PCs
  <2>4. r \in Process /\ r.pc = "remove" /\ r.staff = q.staff BY <2>3 DEF Process
  <2> HIDE DEF r
  <2>5. Knows(r) BY <1>1, <2>4 DEF Knows
  <2> QED BY <1>1, <2>2, <2>4, <2>5, LocalStep
<1> QED BY <1>0, <1>2, <1>3 DEF CountRefs

LEMMA RemoveStaffKeeps == ASSUME Inductive, NEW p \in Procs, RemoveStaff(p) PROVE Inductive'
<1>0. PICK q \in Process : q = proc[p] /\ Knows(q) BY CallFacts
<1>1. q.staff \in Staff /\ Goto(p, "removed") /\ UNCHANGED <<user, member, link>>
  BY <1>0 DEF RemoveStaff, Knows
<1>2. PICK w \in Resource : w = staff[q.staff] BY <1>1, RowFacts DEF Tables
<1>3. Grows /\ Tables' /\ Data'
  <2>1. CASE UNCHANGED staff BY <1>1, <2>1, StillKeeps DEF Still
  <2>2. CASE w.there /\ staff' = [staff EXCEPT ![q.staff].active = FALSE]
    <3> DEFINE v == [w EXCEPT !.active = FALSE]
    <3>1. v \in Resource /\ v.spent = w.spent /\ v.there = w.there /\ v.biz = w.biz /\ v.member = w.member
      BY DEF Resource
    <3>2. staff' = [staff EXCEPT ![q.staff] = v] BY <1>2, <2>2
    <3> HIDE DEF v
    <3>3. w.spent BY <1>1, <1>2, <2>2, RowFacts DEF Rows
    <3> QED BY <1>1, <1>2, <2>2, <3>1, <3>2, <3>3, StaffKept
  <2>3. CASE w.there /\ staff' = [staff EXCEPT ![q.staff] = [NoStaff EXCEPT !.spent = TRUE]]
    <3> DEFINE v == [NoStaff EXCEPT !.spent = TRUE]
    <3>1. v \in Resource /\ v.spent /\ ~v.there BY DEF Resource, NoStaff
    <3>2. staff' = [staff EXCEPT ![q.staff] = v] BY <2>3
    <3> HIDE DEF v
    <3> QED BY <1>1, <1>2, <2>3, <3>1, <3>2, StaffKept
  <2> QED BY <1>0, <1>2, <2>1, <2>2, <2>3 DEF RemoveStaff, Fallback
<1>4. "removed" \in PCs BY DEF PCs
<1>5. \A r \in Process : r.pc = "removed" => Knows(r)' BY DEF Knows
<1> QED BY <1>0, <1>1, <1>3, <1>4, <1>5, GotoStep

LEMMA AnsweredKeeps == ASSUME Inductive, NEW p \in Procs, Answered(p) PROVE Inductive'
BY EndStill DEF Answered, Still

LEMMA SwitchKeeps == ASSUME Inductive, NEW p \in Procs, Switch(p) PROVE Inductive'
<1>0. PICK q \in Process : q = proc[p] /\ Knows(q) BY CallFacts
<1>1. q.staff \in Staff /\ End(p) /\ UNCHANGED <<user, member, link>> BY <1>0 DEF Switch, Knows
<1>2. CASE UNCHANGED staff BY <1>1, <1>2, EndStill DEF Still
<1>3. CASE staff[q.staff].there /\ staff' = [staff EXCEPT ![q.staff].active = ~@]
  <2>1. PICK w \in Resource : w = staff[q.staff] BY <1>1, RowFacts DEF Tables
  <2> DEFINE v == [w EXCEPT !.active = ~w.active]
  <2>2. v \in Resource /\ v.spent = w.spent /\ v.there = w.there /\ v.biz = w.biz /\ v.member = w.member
    BY DEF Resource
  <2>3. staff' = [staff EXCEPT ![q.staff] = v] BY <1>3, <2>1
  <2> HIDE DEF v
  <2>4. w.spent BY <1>1, <1>3, <2>1, RowFacts DEF Rows
  <2>5. Grows /\ Tables' /\ Data' BY <1>1, <1>3, <2>1, <2>2, <2>3, <2>4, StaffKept
  <2> QED BY <1>1, <2>5, EndStep
<1> QED BY <1>0, <1>2, <1>3 DEF Switch

LEMMA IsBookedKeeps == ASSUME Inductive, NEW s \in Staff, IsBooked(s) PROVE Inductive'
<1>1. /\ staff[s].there /\ staff' = [staff EXCEPT ![s].booked = TRUE]
      /\ UNCHANGED <<user, member, link, proc>>
  BY DEF IsBooked
<1>2. PICK w \in Resource : w = staff[s] BY RowFacts DEF Tables
<1> DEFINE v == [w EXCEPT !.booked = TRUE]
<1>3. v \in Resource /\ v.spent = w.spent /\ v.there = w.there /\ v.biz = w.biz /\ v.member = w.member
  BY DEF Resource
<1>4. staff' = [staff EXCEPT ![s] = v] BY <1>1, <1>2
<1> HIDE DEF v
<1>5. w.spent BY <1>1, <1>2, RowFacts DEF Rows
<1>6. Grows /\ Tables' /\ Data' BY <1>1, <1>2, <1>3, <1>4, <1>5, StaffKept
<1> QED BY <1>1, <1>6, OtherStep

-----------------------------------------------------------------------------
(* The invariant and what follows from it. *)

LEMMA CallKeeps == ASSUME Inductive, NEW p \in Procs, Call(p) PROVE Inductive'
BY InviteChecksKeeps, InvitePickKeeps, InviteCommitKeeps, RetireKeeps, InsertKeeps, ResendKeeps,
   PeekKeeps, ContextKeeps, AcceptKeeps, ReadActiveKeeps, DeactivateKeeps, ActivateKeeps,
   CheckLinkableKeeps, WriteStaffKeeps, CountRefsKeeps, RemoveStaffKeeps, AnsweredKeeps, SwitchKeeps,
   Zenon
   DEF Call

LEMMA StutterKeeps == ASSUME Inductive, UNCHANGED vars PROVE Inductive'
<1>1. Still /\ UNCHANGED proc BY DEF Still, vars
<1> QED BY <1>1, StillKeeps, OtherStep

LEMMA NextKeeps == ASSUME Inductive, [Next]_vars PROVE Inductive'
<1>1. CASE UNCHANGED vars BY <1>1, StutterKeeps
<1>2. CASE Next
  <2>1. CASE \E p \in Procs : Call(p) \/ StartCall(p) BY <2>1, CallKeeps, StartCallKeeps
  <2>2. CASE \E l \in Links : LinkExpires(l) BY <2>2, LinkExpiresKeeps
  <2>3. CASE \E s \in Staff : IsBooked(s) BY <2>3, IsBookedKeeps
  <2>4. CASE Finished BY <2>4, StutterKeeps DEF Finished
  <2> QED BY <1>2, <2>1, <2>2, <2>3, <2>4 DEF Next
<1> QED BY <1>1, <1>2

(* Every row has the type of its table, no two resources stand for one member, and    *)
(* every call still knows at its next statement what it read at the ones before it,   *)
(* whatever was committed in between.                                                 *)
THEOREM TeamInvariant == Spec => []Inductive
<1>1. Init => Inductive BY InitInductive
<1>2. Inductive /\ [Next]_vars => Inductive' BY NextKeeps
<1> QED BY <1>1, <1>2, PTL DEF Spec

(* Every reference between users, members, resources and links leads to a row that    *)
(* is there (the foreign keys of the schema), and every call is at a statement.       *)
THEOREM TeamTypes == Spec => []TypeOK
<1>1. Inductive => TypeOK
  <2> SUFFICES ASSUME Inductive PROVE TypeOK OBVIOUS
  <2>1. \A m \in Members : member[m].status \in {"INVITED", "ACTIVE", "INACTIVE"}
    BY RowFacts DEF Tables, Manager
  <2>2. \A p \in Procs : proc[p].pc \in PCs BY CallFacts DEF Process
  <2> QED BY <2>1, <2>2, RowFacts DEF TypeOK, Rows
<1> QED BY <1>1, TeamInvariant, PTL

(* Whether an invitation or an edit made the link, and whatever the two calls read    *)
(* before, a member stands behind one resource at most, of its own business.          *)
THEOREM OneResource == Spec => []OneResourcePerMember
<1>1. Inductive => OneResourcePerMember BY RowFacts
<1> QED BY <1>1, TeamInvariant, PTL

-----------------------------------------------------------------------------
(* Acceptances. *)

(* A step of another call leaves this one alone. *)
LEMMA OwnCall ==
  ASSUME Inductive, NEW p \in Procs, NEW q \in Procs, q # p, Call(q) \/ StartCall(q)
  PROVE  proc'[p] = proc[p]
<1>1. proc \in [Procs -> Process] BY DEF Inductive, Typed
<1>2. ASSUME NEW k, NEW r, Start(q, k, r) PROVE proc'[p] = proc[p] BY <1>1, <1>2 DEF Start
<1>3. CASE StartCall(q) BY <1>2, <1>3 DEF StartCall
<1>4. ASSUME NEW c, Goto(q, c) PROVE proc'[p] = proc[p] BY <1>1, <1>4 DEF Goto
<1>5. CASE End(q) BY <1>1, <1>5 DEF End
<1>6. CASE InviteChecks(q) BY <1>1, <1>5, <1>6 DEF InviteChecks
<1>7. CASE InvitePick(q) BY <1>1, <1>7 DEF InvitePick
<1>8. CASE InviteCommit(q)
  <2>1. End(q) \/ proc' = [proc EXCEPT ![q] = [NoProc EXCEPT !.pc = "retire", !.user = proc[q].user]]
    BY <1>8 DEF InviteCommit
  <2> QED BY <1>1, <1>5, <2>1
<1>9. CASE Resend(q) BY <1>1, <1>5, <1>9 DEF Resend
<1>10. CASE Peek(q) BY <1>1, <1>5, <1>10 DEF Peek
<1>11. CASE Context(q) BY <1>1, <1>5, <1>11 DEF Context
<1>12. CASE CountRefs(q) BY <1>1, <1>5, <1>12 DEF CountRefs
<1>13. CASE Retire(q) \/ ReadActive(q) \/ ReadInactive(q) \/ CheckLinkable(q) \/ RemoveStaff(q)
  BY <1>4, <1>5, <1>13 DEF Retire, ReadActive, ReadInactive, CheckLinkable, RemoveStaff
<1>14. CASE Insert(q) \/ Accept(q) \/ Deactivate(q) \/ Activate(q) \/ WriteStaff(q) \/ Answered(q) \/ Switch(q)
  <2>1. End(q) BY <1>14, Zenon DEF Insert, Accept, Deactivate, Activate, WriteStaff, Answered, Switch
  <2> QED BY <1>5, <2>1
<1> QED BY <1>3, <1>6, <1>7, <1>8, <1>9, <1>10, <1>11, <1>12, <1>13, <1>14 DEF Call

(* The only statement of a call at "accept" is the transaction of acceptInvite. *)
LEMMA AtAccept ==
  ASSUME NEW p \in Procs, proc[p].pc = "accept", Call(p) \/ StartCall(p) PROVE Accept(p)
<1>1. ASSUME NEW k, NEW r PROVE ~Start(p, k, r) BY DEF Start
<1>2. ~StartCall(p) BY <1>1 DEF StartCall
<1>3. ~InviteChecks(p) /\ ~InvitePick(p) /\ ~InviteCommit(p) /\ ~Retire(p) /\ ~Insert(p) /\ ~Resend(p)
  BY DEF InviteChecks, InvitePick, InviteCommit, Retire, Insert, Resend
<1>4. ~Peek(p) /\ ~Context(p) /\ ~ReadActive(p) /\ ~Deactivate(p) /\ ~ReadInactive(p) /\ ~Activate(p)
  BY DEF Peek, Context, ReadActive, Deactivate, ReadInactive, Activate
<1>5. ~CheckLinkable(p) /\ ~WriteStaff(p) /\ ~CountRefs(p) /\ ~RemoveStaff(p) /\ ~Answered(p) /\ ~Switch(p)
  BY DEF CheckLinkable, WriteStaff, CountRefs, RemoveStaff, Answered, Switch
<1> QED BY <1>2, <1>3, <1>4, <1>5 DEF Call

(* Whoever is invited stays invited in every other step. *)
LEMMA StaysInvited ==
  ASSUME Inductive, NEW p \in Procs, Call(p) \/ StartCall(p), ~Accept(p),
         NEW m \in Members, member[m].there, member[m].status = "INVITED"
  PROVE  member'[m] = member[m]
<1>0. member \in [Members -> Manager] BY RowFacts DEF Tables
<1>1. ASSUME NEW k, NEW r, Start(p, k, r) PROVE member' = member BY <1>1 DEF Start
<1>2. CASE StartCall(p) BY <1>1, <1>2 DEF StartCall
<1>3. CASE InviteCommit(p)
  <2>1. \/ UNCHANGED member
        \/ \E n \in Members : ~member[n].there /\ \E v : member' = [member EXCEPT ![n] = v]
    BY <1>3 DEF InviteCommit
  <2> QED BY <1>0, <2>1
<1>4. CASE Deactivate(p) BY <1>0, <1>4 DEF Deactivate, Deactivatable
<1>5. CASE Activate(p) BY <1>0, <1>5 DEF Activate
<1>6. CASE InviteChecks(p) \/ InvitePick(p) \/ Retire(p) \/ Insert(p) \/ Resend(p) \/ Peek(p)
           \/ Context(p) \/ ReadActive(p) \/ ReadInactive(p)
  <2>1. UNCHANGED member
    BY <1>6, Zenon DEF InviteChecks, InvitePick, Retire, Insert, Resend, Peek, Context, ReadActive, ReadInactive
  <2> QED BY <2>1
<1>7. CASE CheckLinkable(p) \/ WriteStaff(p) \/ CountRefs(p) \/ RemoveStaff(p) \/ Answered(p) \/ Switch(p)
  <2>1. UNCHANGED member
    BY <1>7, Zenon DEF CheckLinkable, WriteStaff, CountRefs, RemoveStaff, Answered, Switch
  <2> QED BY <2>1
<1> QED BY <1>2, <1>3, <1>4, <1>5, <1>6, <1>7 DEF Call

(* A member who was invited takes part only through a link of its own that was live   *)
(* at that moment, and an acceptance that uses a link up makes its member active      *)
(* (acceptInvite consumes the link and updates the membership, or undoes both).       *)
THEOREM Acceptances == Spec => AcceptanceWhole
<1>1. ASSUME Inductive, Next PROVE TakesPartByLink
  <2> SUFFICES ASSUME NEW m \in Members, member[m].status = "INVITED", member[m].there,
                      member'[m].status # "INVITED"
               PROVE  \E l \in LiveLinks(member[m].user) : ~link[l].expired /\ link'[l].used
    BY DEF TakesPartByLink
  <2>1. \E p \in Procs : Call(p) \/ StartCall(p) BY <1>1 DEF Next, LinkExpires, IsBooked, Finished, vars
  <2>2. PICK p \in Procs : Accept(p) BY <1>1, <2>1, StaysInvited
  <2>3. proc[p].pc = "accept" BY <2>2 DEF Accept
  <2>4. PICK l \in Links, k \in Members, v \in Invitation, n \in Manager :
          /\ l = proc[p].link /\ k = proc[p].member /\ Opens(l)
          /\ link' = [link EXCEPT ![l] = v] /\ v.used
          /\ member' = [member EXCEPT ![k] = n]
    BY <1>1, <2>2, AcceptFacts
  <2>5. k = m BY <1>1, <2>4, RowFacts DEF Tables
  <2>6. link[l].user = member[m].user
    <3>1. PICK q \in Process : q = proc[p] /\ Knows(q) BY <1>1, CallFacts
    <3>2. link[q.link].user = q.user /\ member[q.member].user = q.user BY <2>3, <3>1 DEF Knows
    <3> QED BY <2>4, <2>5, <3>1, <3>2
  <2>7. link'[l].used BY <1>1, <2>4, RowFacts DEF Tables
  <2>8. l \in LiveLinks(member[m].user) /\ ~link[l].expired BY <2>4, <2>6 DEF LiveLinks, Opens
  <2> QED BY <2>7, <2>8
<1>2. ASSUME Inductive, Next PROVE UsedForActive
  <2> SUFFICES ASSUME NEW p \in Procs, proc[p].pc = "accept", proc'[p].pc = "idle", link' # link
               PROVE  /\ member[proc[p].member].status = "INVITED"
                      /\ member'[proc[p].member].status = "ACTIVE"
    BY DEF UsedForActive
  <2>1. PICK q \in Procs : Call(q) \/ StartCall(q)
    BY <1>2 DEF Next, LinkExpires, IsBooked, Finished, vars
  <2>2. q = p BY <1>2, <2>1, OwnCall
  <2>3. Accept(p) BY <2>1, <2>2, AtAccept
  <2>4. PICK k \in Members, n \in Manager :
          /\ k = proc[p].member /\ member[k].status = "INVITED"
          /\ member' = [member EXCEPT ![k] = n] /\ n.status = "ACTIVE"
    BY <1>2, <2>3, AcceptFacts
  <2> QED BY <1>2, <2>4, RowFacts DEF Tables
<1>3. Inductive /\ [Next]_vars => [TakesPartByLink /\ UsedForActive]_vars BY <1>1, <1>2
<1> QED BY <1>3, TeamInvariant, PTL DEF Spec, AcceptanceWhole

----------------------------------------------------------------------------
(* The reviews of visits. *)

(* Reviews: at most one form holds a reservation and then no review of it exists yet; an author *)
(* has changed a review no more often than its mark says.                                      *)
ReviewStatuses == {"NONE", "PUBLISHED", "REPORTED", "DELETED"}
ReviewRow == [status : ReviewStatuses, touched : BOOLEAN, at : Nat]
Reviewed ==
  /\ review \in [Resv -> ReviewRow]
  /\ write \in [Writers -> [pc : {"idle", "insert", "reply"}, resv : Resv \cup {0}]]
  /\ clock \in Nat
  /\ hist.edits \in [Resv -> {0, 1}]
  /\ DOMAIN hist = {"calls", "crashes", "onTime", "missed", "broken", "reminders", "edits"}
  /\ \A w \in Writers : write[w].pc = "insert" => write[w].resv \in Resv /\ review[write[w].resv].status = "NONE"
  /\ \A v, w \in Writers : write[v].pc = "insert" /\ write[w].pc = "insert" /\ write[v].resv = write[w].resv
                             => v = w
  /\ \A r \in Resv : /\ hist.edits[r] = 1 => review[r].touched
                     /\ review[r].status = "NONE" => ~review[r].touched
  /\ ~hist.broken

(* A step that leaves the forms, the reviews and the counts of their edits as they were. *)
ReviewsApart ==
  /\ UNCHANGED <<review, write>> /\ clock' \in Nat
  /\ hist'.edits = hist.edits /\ hist'.broken = hist.broken /\ DOMAIN hist' = DOMAIN hist

LEMMA ReviewsStill == ASSUME Reviewed, ReviewsApart PROVE Reviewed'
BY DEF Reviewed, ReviewsApart

LEMMA ReviewsStart == VisitsInit => Reviewed
BY TimeAssumption DEF VisitsInit, Reviewed, ReviewRow, ReviewStatuses, NoReview, NoWrite

(* A form opens: nobody else holds the reservation, and no review of it exists. *)
LEMMA CreateCheckKeeps ==
  ASSUME Reviewed, NEW w \in Writers, NEW r \in Resv, CreateCheck(w, r) PROVE Reviewed'
<1>1. UNCHANGED <<review, clock>> /\ hist' = [hist EXCEPT !.calls = @ + 1] BY DEF CreateCheck, Called
<1>2. write' = [write EXCEPT ![w] = [pc |-> "insert", resv |-> r]] /\ review[r].status = "NONE"
  BY DEF CreateCheck, Eligible
<1>3. \A v \in Writers : write[v].pc = "insert" => write[v].resv # r BY DEF CreateCheck, MayRead, Locked
<1> QED BY <1>1, <1>2, <1>3 DEF Reviewed

(* The review is written: no other form has the same reservation. *)
LEMMA CreateInsertKeeps ==
  ASSUME Reviewed, NEW w \in Writers, CreateInsert(w) PROVE Reviewed'
<1> DEFINE r == write[w].resv
<1>1. r \in Resv /\ review[r].status = "NONE" /\ write[w].pc = "insert" BY DEF CreateInsert, Reviewed
<1>2. /\ review' = [review EXCEPT ![r] = [status |-> "PUBLISHED", touched |-> FALSE, at |-> clock]]
      /\ write' = [write EXCEPT ![w] = NoWrite] /\ UNCHANGED <<hist, clock>>
  BY <1>1 DEF CreateInsert
<1>3. [status |-> "PUBLISHED", touched |-> FALSE, at |-> clock] \in ReviewRow
  BY DEF Reviewed, ReviewRow, ReviewStatuses
<1> QED BY <1>1, <1>2, <1>3 DEF Reviewed, NoWrite

(* A review is marked: by its author, by who takes it down, or by who reports it. *)
LEMMA Marked ==
  ASSUME NEW row \in ReviewRow, NEW st \in ReviewStatuses,
         NEW new, new = [row EXCEPT !.status = st, !.touched = TRUE]
  PROVE  new \in ReviewRow /\ new.status = st /\ new.touched
BY DEF ReviewRow

LEMMA MarkedKeeps ==
  ASSUME Reviewed, NEW r \in Resv, NEW new \in ReviewRow, new.touched, new.status # "NONE", review[r].status # "NONE",
         review' = [review EXCEPT ![r] = new], UNCHANGED <<write, clock>>,
         NEW e \in {0, 1}, hist'.edits = [hist.edits EXCEPT ![r] = e], hist'.broken = hist.broken,
         DOMAIN hist' = DOMAIN hist
  PROVE  Reviewed'
<1>1. \A v \in Resv : v # r => review'[v] = review[v] /\ hist'.edits[v] = hist.edits[v] BY DEF Reviewed
<1>2. review'[r] = new BY DEF Reviewed
<1>3. review' \in [Resv -> ReviewRow] /\ hist'.edits \in [Resv -> {0, 1}] BY DEF Reviewed
<1>4. \A w \in Writers : write'[w].pc = "insert" => write'[w].resv # r BY DEF Reviewed
<1> QED BY <1>1, <1>2, <1>3, <1>4 DEF Reviewed

(* An author changes a published review that was not changed before. *)
LEMMA UpdateKeeps == ASSUME Reviewed, NEW r \in Resv, UpdateReview(r) PROVE Reviewed'
<1>1. /\ review' = [review EXCEPT ![r] = [@ EXCEPT !.touched = TRUE]] /\ UNCHANGED <<write, clock>>
      /\ hist' = [hist EXCEPT !.edits[r] = @ + 1] /\ review[r].status = "PUBLISHED" /\ ~review[r].touched
  BY DEF UpdateReview, Editable
<1>2. hist.edits[r] = 0 BY <1>1 DEF Reviewed
<1>3. hist'.edits = [hist.edits EXCEPT ![r] = 1] /\ hist'.broken = hist.broken /\ DOMAIN hist' = DOMAIN hist
  BY <1>1, <1>2 DEF Reviewed
<1> DEFINE new == [review[r] EXCEPT !.touched = TRUE]
<1>r. review[r] \in ReviewRow BY DEF Reviewed
<1>4. new \in ReviewRow /\ new.touched /\ new.status = "PUBLISHED"
  <2>1. new.touched /\ new.status = review[r].status /\ new \in ReviewRow BY <1>r DEF ReviewRow
  <2> QED BY <1>1, <2>1
<1>5. review' = [review EXCEPT ![r] = new] BY <1>1
<1> HIDE DEF new
<1> QED BY <1>1, <1>3, <1>4, <1>5, MarkedKeeps

(* A review is deleted or reported: the row stays. *)
LEMMA DownKeeps ==
  ASSUME Reviewed, NEW r \in Resv, NEW st \in {"DELETED", "REPORTED"}, review[r].status # "NONE",
         review' = [review EXCEPT ![r] = [@ EXCEPT !.status = st, !.touched = TRUE]], UNCHANGED <<write, clock, hist>>
  PROVE  Reviewed' /\ review'[r].status = st
<1> DEFINE new == [review[r] EXCEPT !.status = st, !.touched = TRUE]
<1>1. review[r] \in ReviewRow BY DEF Reviewed
<1>2. new \in ReviewRow /\ new.status = st /\ new.touched
  <2>1. st \in ReviewStatuses BY DEF ReviewStatuses
  <2> QED BY <1>1, <2>1, Marked, Zenon
<1>3. review' = [review EXCEPT ![r] = new] OBVIOUS
<1> HIDE DEF new
<1>4. hist'.edits = [hist.edits EXCEPT ![r] = hist.edits[r]] /\ hist.edits[r] \in {0, 1} BY DEF Reviewed
<1>5. Reviewed' BY <1>2, <1>3, <1>4, MarkedKeeps
<1> QED BY <1>2, <1>3, <1>5 DEF Reviewed

LEMMA DeleteKeeps ==
  ASSUME Reviewed, NEW r \in Resv, DeleteReview(r) PROVE Reviewed' /\ review'[r].status = "DELETED"
BY DownKeeps DEF DeleteReview

LEMMA ReportKeeps ==
  ASSUME Reviewed, NEW r \in Resv, ReportReview(r)
  PROVE  Reviewed' /\ review'[r].status = IF review[r].status = "PUBLISHED" THEN "REPORTED" ELSE review[r].status
<1>1. UNCHANGED <<write, clock, hist>> /\ review[r].status # "NONE" BY DEF ReportReview
<1>2. CASE review[r].status = "PUBLISHED" BY <1>1, <1>2, DownKeeps DEF ReportReview
<1>3. CASE review[r].status # "PUBLISHED" /\ review' = review BY <1>1, <1>3 DEF Reviewed
<1> QED BY <1>2, <1>3 DEF ReportReview

LEMMA ReplyKeeps ==
  ASSUME Reviewed, NEW w \in Writers,
         (\E r \in Resv : ReplyCheck(w, r)) \/ ReplyWrite(w)
  PROVE  Reviewed'
<1>1. CASE \E r \in Resv : ReplyCheck(w, r) BY <1>1 DEF Reviewed, ReplyCheck, Called
<1>2. CASE ReplyWrite(w) BY <1>2 DEF Reviewed, ReplyWrite, NoWrite
<1> QED BY <1>1, <1>2

LEMMA CrashUndoes == ASSUME Reviewed, Crash PROVE Reviewed'
BY DEF Reviewed, Crash, NoWrite

(* The steps of the notices. *)
LEMMA NoticesApart ==
  ASSUME Reviewed, [VisitsNext]_visitVars,
         ~\E w \in Writers, r \in Resv : CreateCheck(w, r) \/ ReplyCheck(w, r),
         ~\E w \in Writers : CreateInsert(w) \/ ReplyWrite(w),
         ~\E r \in Resv : UpdateReview(r) \/ DeleteReview(r) \/ ReportReview(r),
         ~Crash
  PROVE  ReviewsApart
<1>0. clock \in Nat /\ clock + 1 \in Nat BY DEF Reviewed
<1>a. ASSUME NEW f, NEW g, hist' = [hist EXCEPT !.calls = f, !.onTime = g],
             UNCHANGED <<review, write, clock>>
      PROVE  ReviewsApart
  BY <1>0, <1>a DEF ReviewsApart, Reviewed
<1>1. ASSUME NEW j \in Jobs, NEW r \in Resv, NEW e \in TransitionsTold, Transition(j, r, e)
      PROVE  ReviewsApart
  <2>1. UNCHANGED <<review, write, clock>> /\ hist' = [hist EXCEPT !.calls = @ + 1]
    BY <1>1 DEF Transition, Called, reviewVars
  <2> QED BY <1>0, <2>1 DEF ReviewsApart, Reviewed
<1>2. ASSUME NEW j \in Jobs, Tick(j) PROVE ReviewsApart
  BY <1>a, <1>2 DEF Tick, reviewVars
<1>3. ASSUME NEW j \in Jobs, Notify(j) PROVE ReviewsApart
  <2>1. ASSUME NEW v, hist' = [hist EXCEPT !.reminders[v] = @ + 1], UNCHANGED <<review, write, clock>>
        PROVE  ReviewsApart
    <3>1. PICK q : hist' = [hist EXCEPT !.reminders = q] BY <2>1
    <3> QED BY <1>0, <2>1, <3>1 DEF ReviewsApart, Reviewed
  <2>2. ASSUME UNCHANGED <<hist, review, write, clock>> PROVE ReviewsApart
    BY <1>0, <2>2 DEF ReviewsApart
  <2>3. PICK s \in job[j].running : Decide(j, s) \/ InsertNote(j, s) \/ Mail(j, s) \/ Mark(j, s)
    BY <1>3 DEF Notify
  <2>4. CASE Decide(j, s) \/ Mail(j, s) \/ Mark(j, s) BY <2>2, <2>4 DEF Decide, Mail, Mark, reviewVars
  <2>5. CASE InsertNote(j, s) BY <2>1, <2>2, <2>5 DEF InsertNote, reviewVars
  <2> QED BY <2>3, <2>4, <2>5
<1>4. CASE Purge \/ VisitsOver \/ UNCHANGED visitVars
  BY <1>0, <1>4 DEF Purge, VisitsOver, visitVars, reviewVars, ReviewsApart
<1>5. ASSUME NEW r \in Resv, Complete(r) \/ DeleteReply(r) PROVE ReviewsApart
  BY <1>0, <1>5 DEF Complete, DeleteReply, reviewVars, ReviewsApart
<1>6. CASE Advance
  <2>1. UNCHANGED <<review, write>> /\ clock' = clock + 1 BY <1>6 DEF Advance, reviewVars
  <2>2. hist' = [hist EXCEPT !.onTime = FALSE, !.missed = @ \/ (clock % Hour = 0 /\ ~hist.onTime)]
    BY <1>6 DEF Advance
  <2>3. PICK g : hist' = [hist EXCEPT !.onTime = FALSE, !.missed = g] BY <2>2
  <2> QED BY <1>0, <2>1, <2>3 DEF ReviewsApart, Reviewed
<1> QED BY <1>1, <1>2, <1>3, <1>4, <1>5, <1>6 DEF VisitsNext

LEMMA ReviewsStep == Reviewed /\ [VisitsNext]_visitVars => Reviewed'
<1> SUFFICES ASSUME Reviewed, [VisitsNext]_visitVars PROVE Reviewed' OBVIOUS
<1>1. CASE \E w \in Writers, r \in Resv : CreateCheck(w, r) \/ ReplyCheck(w, r) BY <1>1, CreateCheckKeeps, ReplyKeeps
<1>2. CASE \E w \in Writers : CreateInsert(w) \/ ReplyWrite(w) BY <1>2, CreateInsertKeeps, ReplyKeeps
<1>3. CASE \E r \in Resv : UpdateReview(r) \/ DeleteReview(r) \/ ReportReview(r)
  BY <1>3, UpdateKeeps, DeleteKeeps, ReportKeeps
<1>4. CASE Crash BY <1>4, CrashUndoes
<1> QED BY <1>1, <1>2, <1>3, <1>4, NoticesApart, ReviewsStill

(* What was taken down stays down. *)
LEMMA TakenDown ==
  ASSUME Reviewed, [VisitsNext]_visitVars, NEW r \in Resv, review[r].status \in {"REPORTED", "DELETED"}
  PROVE  review'[r].status \in {review[r].status, "DELETED"}
<1>1. ASSUME NEW w \in Writers, CreateInsert(w) PROVE review'[r] = review[r]
  BY <1>1 DEF CreateInsert, Reviewed
<1>2. ASSUME NEW v \in Resv, UpdateReview(v) \/ DeleteReview(v) \/ ReportReview(v)
      PROVE  review'[r].status \in {review[r].status, "DELETED"}
  <2>1. CASE v # r
    <3>1. \/ review' = review
          \/ \E new : review' = [review EXCEPT ![v] = new]
      BY <1>2 DEF UpdateReview, DeleteReview, ReportReview
    <3> QED BY <2>1, <3>1 DEF Reviewed
  <2>2. CASE v = r BY <1>2, <2>2, DeleteKeeps, ReportKeeps DEF UpdateReview, Editable
  <2> QED BY <2>1, <2>2
<1>3. ASSUME NEW w \in Writers, NEW v \in Resv, CreateCheck(w, v) \/ ReplyCheck(w, v) PROVE review' = review
  BY <1>3 DEF CreateCheck, ReplyCheck
<1>4. ASSUME NEW w \in Writers, ReplyWrite(w) PROVE review' = review BY <1>4 DEF ReplyWrite
<1>5. CASE Crash BY <1>5 DEF Crash
<1> QED BY <1>1, <1>2, <1>3, <1>4, <1>5, NoticesApart DEF ReviewsApart

THEOREM ReviewsSettled == VisitsSpec => ReviewSettles
<1>1. Reviewed /\ Reviewed' /\ [VisitsNext]_visitVars
        => [/\ ~hist'.broken
            /\ \A r \in Resv :
                 /\ hist'.edits[r] <= 1
                 /\ review[r].status \in {"REPORTED", "DELETED"}
                      => review'[r].status \in {review[r].status, "DELETED"}]_visitVars
  <2> SUFFICES ASSUME Reviewed, Reviewed', [VisitsNext]_visitVars
               PROVE  /\ ~hist'.broken
                      /\ \A r \in Resv :
                           /\ hist'.edits[r] <= 1
                           /\ review[r].status \in {"REPORTED", "DELETED"}
                                => review'[r].status \in {review[r].status, "DELETED"}
    OBVIOUS
  <2>1. ~hist'.broken /\ \A r \in Resv : hist'.edits[r] <= 1 BY DEF Reviewed
  <2> QED BY <2>1, TakenDown
<1> QED BY <1>1, ReviewsStart, ReviewsStep, PTL DEF VisitsSpec, ReviewSettles

----------------------------------------------------------------------------
(* The rows and the jobs. *)
Recipient == {"customer"} \cup ToSet(Handlers)
Told == TransitionsTold \cup {"REMINDER"}
Send ==
  [to : Recipient, event : Told, resv : Resv \ WalkIns, pc : {"decide", "insert", "mail", "mark"},
   inApp : BOOLEAN, email : {"-", "SENT", "SKIPPED"}, note : Nat, tries : Nat]
Note ==
  [id : Nat, to : Recipient, event : Told, resv : Resv \ WalkIns, inApp : BOOLEAN,
   email : {"-", "SENT", "FAILED", "SKIPPED"}, at : Nat, out : {"-", "sending", "taken", "refused", "cut"}]
JobRow == [kind : {"idle", "event", "tick"}, now : Nat, queue : Seq(Send), running : SUBSET Send]

Queued(jb) == \A i \in DOMAIN jb.queue : jb.queue[i].pc = "decide"
JobOK(jb) == jb \in JobRow /\ Queued(jb) /\ (jb.kind = "idle" => jb = Idle)

(* All the sends a job has left, and those whose row is written and whose mail is not settled. *)
All(jb) == jb.running \cup ToSet(jb.queue)
Flights(jb) == {s \in jb.running : s.pc \in {"mail", "mark"}}

(* No two sends of a job are about one reservation: a tick. *)
Apart(jb) ==
  /\ \A i, k \in DOMAIN jb.queue : jb.queue[i].resv = jb.queue[k].resv => i = k
  /\ \A i \in DOMAIN jb.queue : \A s \in jb.running : jb.queue[i].resv # s.resv
  /\ \A s, t \in jb.running : s.resv = t.resv => s = t

(* The smaller of two numbers. *)
LEMMA MinOfTwo ==
  ASSUME NEW a \in Nat, NEW b \in Nat
  PROVE  Min({a, b}) \in {a, b} /\ Min({a, b}) <= a /\ Min({a, b}) <= b
BY DEF Min

(* A queue is taken in two parts: what they hold. *)
Parts(q, n, one, two) ==
  /\ \A x : x \in ToSet(one) <=> \E i \in 1 .. n : x = q[i]
  /\ DOMAIN two = 1 .. (Len(q) - n) /\ \A i \in DOMAIN two : two[i] = q[n + i]
  /\ \A x : x \in ToSet(q) <=> x \in ToSet(one) \/ x \in ToSet(two)

LEMMA Parted ==
  ASSUME NEW S, NEW q \in Seq(S), NEW n \in 1 .. Len(q), NEW one, NEW two,
         one = SubSeq(q, 1, n), two = SubSeq(q, n + 1, Len(q))
  PROVE  one \in Seq(S) /\ two \in Seq(S) /\ Parts(q, n, one, two)
<1>1. \A i \in 1 .. n : q[i] \in S OBVIOUS
<1>2. \A i \in n + 1 .. Len(q) : q[i] \in S OBVIOUS
<1>3. one \in Seq(S) /\ Len(one) = n /\ \A i \in 1 .. n : one[i] = q[i]
  <2>1. /\ SubSeq(q, 1, n) \in Seq(S)
        /\ Len(SubSeq(q, 1, n)) = IF 1 <= n THEN n - 1 + 1 ELSE 0
        /\ \A i \in 1 .. n - 1 + 1 : SubSeq(q, 1, n)[i] = q[1 + i - 1]
    BY <1>1, SubSeqProperties
  <2> QED BY <2>1
<1>4. two \in Seq(S) /\ Len(two) = Len(q) - n /\ \A i \in 1 .. (Len(q) - n) : two[i] = q[n + i]
  <2>1. /\ SubSeq(q, n + 1, Len(q)) \in Seq(S)
        /\ Len(SubSeq(q, n + 1, Len(q))) = IF n + 1 <= Len(q) THEN Len(q) - (n + 1) + 1 ELSE 0
        /\ \A i \in 1 .. Len(q) - (n + 1) + 1 : SubSeq(q, n + 1, Len(q))[i] = q[n + 1 + i - 1]
    BY <1>2, SubSeqProperties
  <2> QED BY <2>1
<1>a. DOMAIN one = 1 .. n /\ DOMAIN two = 1 .. (Len(q) - n) /\ DOMAIN q = 1 .. Len(q) BY <1>3, <1>4
<1>5. \A x : x \in ToSet(one) <=> \E i \in 1 .. n : x = q[i] BY <1>3, <1>a DEF ToSet
<1>6. \A x : x \in ToSet(two) <=> \E i \in 1 .. (Len(q) - n) : x = q[n + i] BY <1>4, <1>a DEF ToSet
<1>7. \A x : x \in ToSet(q) <=> \E i \in 1 .. Len(q) : x = q[i] BY <1>a DEF ToSet
<1>8. \A i \in 1 .. Len(q) : i \in 1 .. n \/ (i - n \in 1 .. (Len(q) - n) /\ q[i] = q[n + (i - n)]) OBVIOUS
<1>9. \A i \in 1 .. (Len(q) - n) : n + i \in 1 .. Len(q) OBVIOUS
<1>9a. \A i \in 1 .. n : i \in 1 .. Len(q) OBVIOUS
<1>10. ASSUME NEW x \in ToSet(q) PROVE x \in ToSet(one) \/ x \in ToSet(two)
  <2>1. PICK i \in 1 .. Len(q) : x = q[i] BY <1>7
  <2> QED BY <2>1, <1>5, <1>6, <1>8
<1>11. ASSUME NEW x, x \in ToSet(one) \/ x \in ToSet(two) PROVE x \in ToSet(q)
  <2>1. CASE x \in ToSet(one) BY <2>1, <1>5, <1>7, <1>9a
  <2>2. CASE x \in ToSet(two)
    <3>1. PICK i \in 1 .. (Len(q) - n) : x = q[n + i] BY <2>2, <1>6
    <3> QED BY <3>1, <1>7, <1>9
  <2> QED BY <2>1, <2>2, <1>11
<1> QED BY <1>3, <1>4, <1>a, <1>5, <1>10, <1>11 DEF Parts

(* A job goes on to its next sends or ends; it loses and gains none. *)
LEMMA Settled ==
  ASSUME NEW jb \in JobRow, Queued(jb), jb.kind # "idle", NEW new, new = Settle(jb)
  PROVE  /\ JobOK(new) /\ All(new) = All(jb) /\ Flights(new) = Flights(jb)
         /\ new.kind \in {jb.kind, "idle"} /\ (new.kind # "idle" => new.now = jb.now)
         /\ new.kind = "idle" => All(jb) = {}
         /\ Apart(jb) => Apart(new)
<1>1. CASE jb.running # {} BY <1>1 DEF Settle, JobOK
<1>2. CASE jb.running = {} /\ jb.queue = <<>>
  <2>1. new = Idle BY <1>2 DEF Settle
  <2>2. JobOK(new) BY <2>1 DEF JobOK, Queued, Idle, JobRow
  <2>3. All(new) = {} /\ All(jb) = {} BY <1>2, <2>1 DEF All, ToSet, Idle
  <2>4. Flights(new) = Flights(jb) BY <1>2, <2>1 DEF Flights, Idle
  <2>5. Apart(new) BY <2>1 DEF Apart, Idle
  <2> QED BY <2>1, <2>2, <2>3, <2>4, <2>5 DEF Idle
<1>3. CASE jb.running = {} /\ jb.queue # <<>>
  <2> DEFINE q == jb.queue
             n == Min({Width(jb.kind), Len(q)})
             one == SubSeq(q, 1, n)
             two == SubSeq(q, n + 1, Len(q))
  <2>1. q \in Seq(Send) /\ Len(q) \in Nat \ {0} BY <1>3 DEF JobRow
  <2>2. Width(jb.kind) \in Nat \ {0} BY SizesAssumption DEF Width
  <2>3. n \in 1 .. Len(q)
    <3>1. n \in {Width(jb.kind), Len(q)} /\ n <= Len(q) BY <2>1, <2>2, MinOfTwo
    <3> QED BY <2>1, <2>2, <3>1
  <2>4. new = [jb EXCEPT !.running = ToSet(one), !.queue = two] BY <1>3 DEF Settle
  <2> HIDE DEF n
  <2>5. /\ one \in Seq(Send) /\ two \in Seq(Send)
        /\ \A x : x \in ToSet(one) <=> \E i \in 1 .. n : x = q[i]
        /\ DOMAIN two = 1 .. (Len(q) - n) /\ \A i \in DOMAIN two : two[i] = q[n + i]
        /\ \A x : x \in ToSet(q) <=> x \in ToSet(one) \/ x \in ToSet(two)
    <3>1. one = SubSeq(q, 1, n) /\ two = SubSeq(q, n + 1, Len(q)) OBVIOUS
    <3> HIDE DEF q, one, two
    <3>2. one \in Seq(Send) /\ two \in Seq(Send) /\ Parts(q, n, one, two) BY <2>1, <2>3, <3>1, Parted
    <3> QED BY <3>2 DEF Parts
  <2>q. DOMAIN q = 1 .. Len(q) /\ \A i \in 1 .. n : i \in 1 .. Len(q) BY <2>1, <2>3
  <2>r. \A i \in 1 .. (Len(q) - n) : n + i \in 1 .. Len(q) BY <2>1, <2>3
  <2>6. /\ new.running = ToSet(one) /\ new.queue = two /\ new.kind = jb.kind /\ new.now = jb.now
    BY <2>4 DEF JobRow
  <2>7. ToSet(one) \subseteq Send BY <2>1, <2>q, <2>5
  <2>8. new \in JobRow BY <2>4, <2>5, <2>7 DEF JobRow
  <2>9. \A i \in 1 .. Len(q) : q[i].pc = "decide" BY <2>1 DEF Queued
  <2>10. Queued(new) BY <2>3, <2>5, <2>6, <2>9 DEF Queued
  <2>11. Flights(new) = {} /\ Flights(jb) = {} BY <1>3, <2>3, <2>5, <2>6, <2>9 DEF Flights
  <2>12. All(new) = All(jb) BY <1>3, <2>5, <2>6 DEF All
  <2>13. ASSUME Apart(jb) PROVE Apart(new)
    <3>1. \A i, k \in 1 .. Len(q) : q[i].resv = q[k].resv => i = k BY <2>q, <2>13 DEF Apart
    <3> HIDE DEF q
    <3>2. \A i, k \in DOMAIN two : two[i].resv = two[k].resv => i = k
      <4>1. \A i, k \in 1 .. (Len(q) - n) : n + i = n + k => i = k BY <2>1, <2>3
      <4>2. ASSUME NEW i \in DOMAIN two, NEW k \in DOMAIN two, two[i].resv = two[k].resv PROVE i = k
        <5>1. n + i \in 1 .. Len(q) /\ n + k \in 1 .. Len(q) BY <2>r, <2>5
        <5>2. q[n + i].resv = q[n + k].resv BY <2>5, <4>2
        <5> QED BY <2>5, <3>1, <4>1, <5>1, <5>2
      <4> QED BY <4>2
    <3>3. \A i \in DOMAIN two : \A s \in ToSet(one) : two[i].resv # s.resv
      <4>1. \A i \in 1 .. (Len(q) - n), k \in 1 .. n : n + i # k BY <2>1, <2>3
      <4> QED BY <2>q, <2>r, <2>5, <3>1, <4>1
    <3>4. \A s, t \in ToSet(one) : s.resv = t.resv => s = t BY <2>q, <2>5, <3>1
    <3> HIDE DEF one, two
    <3> QED BY <2>6, <3>2, <3>3, <3>4 DEF Apart
  <2> QED BY <2>6, <2>8, <2>10, <2>11, <2>12, <2>13 DEF JobOK
<1> QED BY <1>1, <1>2, <1>3

----------------------------------------------------------------------------
(* The history of mails.  rows are the notices, now the time, fl[j] the flights of job j. *)
Row(n, s) == KeyOf(n) = KeyOf(s) /\ n.id = s.note
Stage(s) == IF s.pc = "mail" THEN "sending" ELSE "refused"

(* A row is known by its key and its number. *)
Numbered(rows) == \A m, n \in rows : KeyOf(m) = KeyOf(n) /\ m.id = n.id => m = n

(* The row of a mail that is being tried says so; it was inserted in this instant. *)
OnItsWay(rows, now, fl) ==
  \A j \in Jobs : \A s \in fl[j] :
    /\ s \in Send /\ s.pc \in {"mail", "mark"}
    /\ \E n \in rows : Row(n, s) /\ n.at = now /\ n.email = "SENT" /\ n.out = Stage(s)

(* No two mails under way have the same row. *)
Alone(fl) ==
  \A j, k \in Jobs : \A s \in fl[j], t \in fl[k] : KeyOf(s) = KeyOf(t) /\ s.note = t.note => j = k /\ s = t

Truth(n) ==
  /\ n.email = "SENT" => n.out \in {"sending", "taken", "cut", "refused"}
  /\ n.email = "FAILED" => n.out = "refused"

Settling(n, fl) ==
  n.email = "SENT" /\ n.out = "refused" => \E j \in Jobs : \E s \in fl[j] : s.pc = "mark" /\ Row(n, s)

History(rows, now, fl) ==
  /\ rows \subseteq Note /\ IsFiniteSet(rows)
  /\ Numbered(rows) /\ OnItsWay(rows, now, fl) /\ Alone(fl)
  /\ \A n \in rows : Truth(n) /\ Settling(n, fl)

(* The flights of job j change: those in gone leave, those in G are new. *)
FlightsBecome(fl, fl2, j, gone, G) == fl2[j] = (fl[j] \ gone) \cup G /\ \A k \in Jobs \ {j} : fl2[k] = fl[k]

(* The row n of the mail s is replaced by a row that says what G, what is left of s, says. *)
Follows(now, s, n, new, G) ==
  /\ Row(n, s) /\ new \in Note /\ KeyOf(new) = KeyOf(n) /\ new.id = n.id /\ new.at = n.at /\ n.at = now /\ Truth(new)
  /\ \A t, u \in G : t = u
  /\ \A t \in G : /\ t \in Send /\ t.pc \in {"mail", "mark"} /\ KeyOf(t) = KeyOf(s) /\ t.note = s.note
                  /\ new.email = "SENT" /\ new.out = Stage(t)
  /\ new.email = "SENT" /\ new.out = "refused" => \E t \in G : t.pc = "mark"

(* A new row, and the mail G that carries it, if there is one. *)
Added(rows, now, new, G) ==
  /\ new \in Note /\ new.at = now /\ \A n \in rows : KeyOf(n) = KeyOf(new) => n.id # new.id
  /\ Truth(new) /\ new.out # "refused"
  /\ \A t, u \in G : t = u
  /\ \A t \in G : t \in Send /\ t.pc = "mail" /\ Row(new, t) /\ new.email = "SENT" /\ new.out = "sending"

(* A mail under way goes on, or ends, and its row follows. *)
LEMMA MailMoves ==
  ASSUME NEW rows, NEW now, NEW fl, History(rows, now, fl), NEW j \in Jobs, NEW s \in fl[j], NEW n \in rows,
         NEW new, NEW G, Follows(now, s, n, new, G),
         NEW after, after = (rows \ {n}) \cup {new},
         NEW fl2, FlightsBecome(fl, fl2, j, {s}, G)
  PROVE  History(after, now, fl2)
<1> USE DEF Follows, FlightsBecome
<1> USE DEF History
<1>1. after \subseteq Note /\ IsFiniteSet(after)
  <2>1. IsFiniteSet(rows \ {n}) BY FS_Subset
  <2> QED BY <2>1, FS_AddElement
<1>2. Numbered(after) BY DEF Numbered
<1>3. ASSUME NEW k \in Jobs, NEW u \in fl2[k], ~(k = j /\ u \in G) PROVE u \in fl[k] /\ ~(k = j /\ u = s)
  BY <1>3
<1>4. OnItsWay(after, now, fl2)
  <2> SUFFICES ASSUME NEW k \in Jobs, NEW u \in fl2[k]
               PROVE  /\ u \in Send /\ u.pc \in {"mail", "mark"}
                      /\ \E m \in after : Row(m, u) /\ m.at = now /\ m.email = "SENT" /\ m.out = Stage(u)
    BY DEF OnItsWay
  <2>1. CASE k = j /\ u \in G BY <2>1 DEF Row
  <2>2. CASE ~(k = j /\ u \in G)
    <3>1. u \in fl[k] /\ ~(k = j /\ u = s) BY <2>2, <1>3
    <3>2. PICK m \in rows : Row(m, u) /\ m.at = now /\ m.email = "SENT" /\ m.out = Stage(u) BY <3>1 DEF OnItsWay
    <3>3. m # n BY <3>1, <3>2 DEF Alone, Row
    <3> QED BY <3>1, <3>2, <3>3 DEF OnItsWay
  <2> QED BY <2>1, <2>2
<1>5. Alone(fl2)
  <2> SUFFICES ASSUME NEW k \in Jobs, NEW l \in Jobs, NEW u \in fl2[k], NEW v \in fl2[l],
                      KeyOf(u) = KeyOf(v), u.note = v.note
               PROVE  k = l /\ u = v
    BY DEF Alone
  <2>1. CASE k = j /\ u \in G /\ l = j /\ v \in G BY <2>1
  <2>2. CASE k = j /\ u \in G /\ ~(l = j /\ v \in G) BY <2>2, <1>3 DEF Alone
  <2>3. CASE ~(k = j /\ u \in G) /\ l = j /\ v \in G BY <2>3, <1>3 DEF Alone
  <2>4. CASE ~(k = j /\ u \in G) /\ ~(l = j /\ v \in G) BY <2>4, <1>3 DEF Alone
  <2> QED BY <2>1, <2>2, <2>3, <2>4
<1>6. ASSUME NEW m \in after PROVE Truth(m) /\ Settling(m, fl2)
  <2>1. CASE m = new BY <2>1 DEF Settling, Row
  <2>2. CASE m \in rows /\ m # n
    <3>1. Truth(m) BY <2>2
    <3>2. ASSUME m.email = "SENT", m.out = "refused"
          PROVE  \E k \in Jobs : \E u \in fl2[k] : u.pc = "mark" /\ Row(m, u)
      <4>1. PICK k \in Jobs : \E u \in fl[k] : u.pc = "mark" /\ Row(m, u) BY <2>2, <3>2 DEF Settling
      <4>2. PICK u \in fl[k] : u.pc = "mark" /\ Row(m, u) BY <4>1
      <4>3. ~(k = j /\ u = s) BY <2>2, <4>2 DEF Numbered, Row
      <4>4. u \in fl2[k] BY <4>3
      <4> QED BY <4>2, <4>4
    <3> QED BY <3>1, <3>2 DEF Settling
  <2> QED BY <2>1, <2>2
<1> QED BY <1>1, <1>2, <1>4, <1>5, <1>6

(* A row is added under a number no other row of its key has, with its mail under way or not. *)
LEMMA RowAdded ==
  ASSUME NEW rows, NEW now, NEW fl, History(rows, now, fl), NEW j \in Jobs,
         NEW new, NEW G, Added(rows, now, new, G), NEW after, after = rows \cup {new},
         NEW fl2, FlightsBecome(fl, fl2, j, {}, G)
  PROVE  History(after, now, fl2)
<1> USE DEF Added, FlightsBecome
<1> USE DEF History
<1>1. after \subseteq Note /\ IsFiniteSet(after) BY FS_AddElement
<1>2. Numbered(after) BY DEF Numbered
<1>3. ASSUME NEW k \in Jobs, NEW u \in fl2[k], ~(k = j /\ u \in G)
      PROVE  u \in fl[k] /\ \E n \in rows : Row(n, u)
  BY <1>3 DEF OnItsWay
<1>4. OnItsWay(after, now, fl2)
  <2> SUFFICES ASSUME NEW k \in Jobs, NEW u \in fl2[k]
               PROVE  /\ u \in Send /\ u.pc \in {"mail", "mark"}
                      /\ \E m \in after : Row(m, u) /\ m.at = now /\ m.email = "SENT" /\ m.out = Stage(u)
    BY DEF OnItsWay
  <2>1. CASE k = j /\ u \in G BY <2>1 DEF Stage
  <2>2. CASE ~(k = j /\ u \in G) BY <2>2, <1>3 DEF OnItsWay
  <2> QED BY <2>1, <2>2
<1>5. Alone(fl2)
  <2> SUFFICES ASSUME NEW k \in Jobs, NEW l \in Jobs, NEW u \in fl2[k], NEW v \in fl2[l],
                      KeyOf(u) = KeyOf(v), u.note = v.note
               PROVE  k = l /\ u = v
    BY DEF Alone
  <2>1. CASE k = j /\ u \in G /\ l = j /\ v \in G BY <2>1
  <2>2. CASE k = j /\ u \in G /\ ~(l = j /\ v \in G) BY <2>2, <1>3 DEF Row
  <2>3. CASE ~(k = j /\ u \in G) /\ l = j /\ v \in G BY <2>3, <1>3 DEF Row
  <2>4. CASE ~(k = j /\ u \in G) /\ ~(l = j /\ v \in G) BY <2>4, <1>3 DEF Alone
  <2> QED BY <2>1, <2>2, <2>3, <2>4
<1>6. ASSUME NEW m \in after PROVE Truth(m) /\ Settling(m, fl2)
  <2>1. CASE m = new BY <2>1 DEF Settling
  <2>2. CASE m \in rows
    <3>1. Truth(m) BY <2>2
    <3>2. ASSUME m.email = "SENT", m.out = "refused"
          PROVE  \E k \in Jobs : \E u \in fl2[k] : u.pc = "mark" /\ Row(m, u)
      BY <2>2, <3>2 DEF Settling
    <3> QED BY <3>1, <3>2 DEF Settling
  <2> QED BY <2>1, <2>2
<1> QED BY <1>1, <1>2, <1>4, <1>5, <1>6

(* Rows that were not inserted now are deleted. *)
LEMMA RowsDeleted ==
  ASSUME NEW rows, NEW now, NEW fl, History(rows, now, fl), NEW after \in SUBSET rows,
         \A n \in rows \ after : n.at # now
  PROVE  History(after, now, fl)
<1>1. IsFiniteSet(after) BY FS_Subset DEF History
<1> QED BY <1>1 DEF History, Numbered, OnItsWay

(* No mail is under way: time may pass. *)
LEMMA NothingUnderWay ==
  ASSUME NEW rows, NEW now, NEW fl, History(rows, now, fl), NEW later, \A j \in Jobs : fl[j] = {}
  PROVE  History(rows, later, fl)
BY DEF History, OnItsWay

(* The process dies: what was under way is cut. *)
CutTo(n, m) ==
  m \in Note /\ KeyOf(m) = KeyOf(n) /\ m.id = n.id /\ Truth(m) /\ ~(m.email = "SENT" /\ m.out = "refused")

LEMMA MailsCut ==
  ASSUME NEW rows, NEW now, NEW fl, History(rows, now, fl), NEW f, NEW after, after = {f[n] : n \in rows},
         \A n \in rows : CutTo(n, f[n]), NEW fl2, \A j \in Jobs : fl2[j] = {}
  PROVE  History(after, now, fl2)
<1> USE DEF CutTo
<1> DEFINE g == [n \in rows |-> f[n]]
<1>1. g \in Surjection(rows, after) BY DEF Surjection
<1>2. IsFiniteSet(after) BY <1>1, FS_Surjection DEF History
<1>3. after \subseteq Note BY DEF History
<1>4. Numbered(after) BY DEF History, Numbered
<1>5. \A m \in after : Truth(m) /\ Settling(m, fl2) BY DEF Settling
<1> QED BY <1>2, <1>3, <1>4, <1>5 DEF History, OnItsWay, Alone

----------------------------------------------------------------------------
(* The jobs. *)
JobsOK == job \in [Jobs -> JobRow] /\ \A j \in Jobs : JobOK(job[j])
UnderWay == [j \in Jobs |-> Flights(job[j])]
Noticed == JobsOK /\ clock \in Nat /\ History(note, clock, UnderWay)

(* A job begins with its sends waiting. *)
LEMMA Begun ==
  ASSUME NEW k \in {"event", "tick"}, NEW now \in Nat, NEW sends \in Seq(Send),
         \A i \in DOMAIN sends : sends[i].pc = "decide", NEW new, new = Begin(k, now, sends)
  PROVE  /\ JobOK(new) /\ All(new) = ToSet(sends) /\ Flights(new) = {}
         /\ new.kind \in {k, "idle"} /\ (new.kind # "idle" => new.now = now)
         /\ new.kind = "idle" => ToSet(sends) = {}
         /\ (\A i, l \in DOMAIN sends : sends[i].resv = sends[l].resv => i = l) => Apart(new)
<1> DEFINE jb == [kind |-> k, now |-> now, queue |-> sends, running |-> {}]
<1>1. jb \in JobRow /\ Queued(jb) /\ jb.kind # "idle" /\ jb.kind = k /\ jb.now = now /\ jb.running = {} /\ jb.queue = sends
  BY DEF JobRow, Queued
<1>2. new = Settle(jb) BY DEF Begin
<1> HIDE DEF jb
<1>3. All(jb) = ToSet(sends) /\ Flights(jb) = {} BY <1>1 DEF All, Flights
<1>4. (\A i, l \in DOMAIN sends : sends[i].resv = sends[l].resv => i = l) => Apart(jb) BY <1>1 DEF Apart
<1> QED BY <1>1, <1>2, <1>3, <1>4, Settled

(* A send takes its next step. *)
LEMMA Gone ==
  ASSUME NEW jb \in JobRow, JobOK(jb), NEW s \in jb.running, NEW t \in Send, s.resv = t.resv,
         NEW new, new = [jb EXCEPT !.running = (@ \ {s}) \cup {t}]
  PROVE  /\ JobOK(new) /\ new.kind = jb.kind /\ new.now = jb.now /\ new.kind # "idle"
         /\ All(jb) \ {s} \subseteq All(new) /\ All(new) \subseteq All(jb) \cup {t} /\ t \in All(new)
         /\ t.pc \in {"mail", "mark"} => Flights(new) = (Flights(jb) \ {s}) \cup {t}
         /\ t.pc \notin {"mail", "mark"} => Flights(new) = Flights(jb) \ {s}
         /\ Apart(jb) => Apart(new) /\ All(new) \subseteq (All(jb) \ {s}) \cup {t}
<1>1. jb.kind # "idle" BY DEF JobOK, Idle
<1>2. new \in JobRow BY DEF JobRow
<1>3. new.kind = jb.kind /\ new.now = jb.now /\ new.queue = jb.queue /\ new.running = (jb.running \ {s}) \cup {t}
  BY DEF JobRow
<1>4. JobOK(new) BY <1>1, <1>2, <1>3 DEF JobOK, Queued
<1>5. t.pc \in {"mail", "mark"} => Flights(new) = (Flights(jb) \ {s}) \cup {t} BY <1>3 DEF Flights
<1>6. t.pc \notin {"mail", "mark"} => Flights(new) = Flights(jb) \ {s} BY <1>3 DEF Flights
<1>7. All(jb) \ {s} \subseteq All(new) /\ All(new) \subseteq All(jb) \cup {t} /\ t \in All(new) BY <1>3 DEF All
<1>8. Apart(jb) => Apart(new) /\ All(new) \subseteq (All(jb) \ {s}) \cup {t}
  <2> SUFFICES ASSUME Apart(jb) PROVE Apart(new) /\ All(new) \subseteq (All(jb) \ {s}) \cup {t} OBVIOUS
  <2>1. Apart(new) BY <1>3 DEF Apart
  <2>2. s \notin ToSet(jb.queue) BY DEF Apart, ToSet
  <2> QED BY <1>3, <2>1, <2>2 DEF All
<1> QED BY <1>1, <1>3, <1>4, <1>5, <1>6, <1>7, <1>8

(* A send is done. *)
LEMMA SendDone ==
  ASSUME NEW jb \in JobRow, JobOK(jb), NEW s \in jb.running,
         NEW new, new = Settle([jb EXCEPT !.running = @ \ {s}])
  PROVE  /\ JobOK(new) /\ new.kind \in {jb.kind, "idle"} /\ (new.kind # "idle" => new.now = jb.now)
         /\ All(jb) \ {s} \subseteq All(new) /\ All(new) \subseteq All(jb)
         /\ Flights(new) = Flights(jb) \ {s}
         /\ Apart(jb) => Apart(new) /\ All(new) = All(jb) \ {s}
         /\ new.kind = "idle" => All(new) = {}
<1> DEFINE mid == [jb EXCEPT !.running = @ \ {s}]
<1>1. /\ mid \in JobRow /\ mid.kind = jb.kind /\ mid.now = jb.now /\ mid.queue = jb.queue
      /\ mid.running = jb.running \ {s}
  BY DEF JobRow
<1>2. jb.kind # "idle" BY DEF JobOK, Idle
<1>3. new = Settle(mid) OBVIOUS
<1> HIDE DEF mid
<1>4. Queued(mid) BY <1>1 DEF JobOK, Queued
<1>5. Flights(mid) = Flights(jb) \ {s} BY <1>1 DEF Flights
<1>6. All(jb) \ {s} \subseteq All(mid) /\ All(mid) \subseteq All(jb) BY <1>1 DEF All
<1>7. Apart(jb) => Apart(mid) /\ All(mid) = All(jb) \ {s}
  <2> SUFFICES ASSUME Apart(jb) PROVE Apart(mid) /\ All(mid) = All(jb) \ {s} OBVIOUS
  <2>1. Apart(mid) BY <1>1 DEF Apart
  <2>2. s \notin ToSet(jb.queue) BY DEF Apart, ToSet
  <2> QED BY <1>1, <2>1, <2>2 DEF All
<1>8. /\ JobOK(new) /\ All(new) = All(mid) /\ Flights(new) = Flights(mid)
      /\ new.kind \in {mid.kind, "idle"} /\ (new.kind # "idle" => new.now = mid.now)
      /\ new.kind = "idle" => All(mid) = {}
      /\ Apart(mid) => Apart(new)
  BY <1>1, <1>2, <1>3, <1>4, Settled
<1> QED BY <1>1, <1>5, <1>6, <1>7, <1>8

(* One job changes. *)
LEMMA OneJob ==
  ASSUME JobsOK, NEW j \in Jobs, NEW new, JobOK(new), job' = [job EXCEPT ![j] = new]
  PROVE  /\ JobsOK'
         /\ job'[j] = new /\ \A k \in Jobs \ {j} : job'[k] = job[k]
         /\ UnderWay'[j] = Flights(new) /\ \A k \in Jobs \ {j} : UnderWay'[k] = UnderWay[k]
<1>1. new \in JobRow BY DEF JobOK
<1>2. job'[j] = new /\ \A k \in Jobs \ {j} : job'[k] = job[k] BY DEF JobsOK
<1>3. job' \in [Jobs -> JobRow] BY <1>1 DEF JobsOK
<1>4. \A k \in Jobs : JobOK(job'[k]) BY <1>2 DEF JobsOK
<1>5. JobsOK' BY <1>3, <1>4 DEF JobsOK
<1>6. UnderWay'[j] = Flights(new) /\ \A k \in Jobs \ {j} : UnderWay'[k] = UnderWay[k] BY <1>2 DEF UnderWay
<1> QED BY <1>2, <1>5, <1>6

(* The flights of every job stay. *)
LEMMA SameFlights ==
  ASSUME History(note, clock, UnderWay), NEW fl, \A j \in Jobs : fl[j] = UnderWay[j] PROVE History(note, clock, fl)
BY DEF History, OnItsWay, Alone, Settling

----------------------------------------------------------------------------
(* The sends of a transition and of a tick. *)
LEMMA NewSends ==
  ASSUME NEW to \in Recipient, NEW e \in Told, NEW r \in Resv \ WalkIns
  PROVE  /\ NewSend(to, e, r) \in Send /\ NewSend(to, e, r).pc = "decide"
         /\ NewSend(to, e, r).resv = r /\ NewSend(to, e, r).event = e /\ NewSend(to, e, r).to = to
BY DEF NewSend, Send

LEMMA TransitionSends ==
  ASSUME NEW e \in TransitionsTold, NEW r \in Resv, NEW sends, sends = Recipients(e, r)
  PROVE  /\ sends \in Seq(Send)
         /\ \A i \in DOMAIN sends : sends[i].pc = "decide" /\ sends[i].event = e
<1>1. CASE r \in WalkIns BY <1>1 DEF Recipients
<1>2. CASE r \notin WalkIns
  <2> DEFINE one == IF MailsCustomer(e) THEN <<NewSend("customer", e, r)>> ELSE <<>>
             two == IF TellsShop(e) THEN [i \in DOMAIN Handlers |-> NewSend(Handlers[i], e, r)] ELSE <<>>
             T == {s \in Send : s.pc = "decide" /\ s.event = e}
  <2>1. \A to \in Recipient : NewSend(to, e, r) \in T BY <1>2, NewSends DEF Told
  <2>2. "customer" \in Recipient BY DEF Recipient
  <2>3. Handlers \in Seq(ToSet(Handlers)) /\ \A i \in DOMAIN Handlers : Handlers[i] \in Recipient
    BY SizesAssumption DEF Recipient, ToSet
  <2> HIDE DEF T
  <2>4. one \in Seq(T) BY <2>1, <2>2
  <2>5. two \in Seq(T)
    <3>1. DOMAIN Handlers = 1 .. Len(Handlers) /\ Len(Handlers) \in Nat BY <2>3
    <3>2. [i \in 1 .. Len(Handlers) |-> NewSend(Handlers[i], e, r)] \in Seq(T) BY <2>1, <2>3, <3>1
    <3> QED BY <3>1, <3>2
  <2>6. sends = one \o two BY <1>2 DEF Recipients
  <2> HIDE DEF one, two
  <2>7. sends \in Seq(T) BY <2>4, <2>5, <2>6, ConcatProperties
  <2>8. \A i \in DOMAIN sends : sends[i] \in T BY <2>7
  <2>9. T \subseteq Send BY DEF T
  <2> QED BY <2>7, <2>8, <2>9 DEF T
<1> QED BY <1>1, <1>2

(* The list of a tick: visits that are due, each once. *)
LEMMA TickTakes ==
  ASSUME NEW due \in SetToSeqs(Due(clock)), NEW taken, taken = Taken(due)
  PROVE  \E n \in Nat :
           /\ n \in {ListLimit, Cardinality(Due(clock))} /\ n <= Cardinality(Due(clock)) /\ DOMAIN taken = 1 .. n
           /\ \A i \in 1 .. n : taken[i] = due[i] /\ taken[i] \in Due(clock)
           /\ \A i, k \in 1 .. n : taken[i] = taken[k] => i = k
<1>1. IsFiniteSet(Due(clock)) /\ Cardinality(Due(clock)) \in Nat
  <2>1. Due(clock) \subseteq Resv BY DEF Due
  <2> QED BY <2>1, SizesAssumption, FS_Subset, FS_CardinalityType
<1>2. PICK D, m : D = Due(clock) /\ m = Cardinality(D) OBVIOUS
<1>3. due \in [1 .. m -> D] /\ \A i, k \in 1 .. m : i # k => due[i] # due[k] BY <1>2 DEF SetToSeqs
<1>4. due \in Seq(D) /\ Len(due) = m /\ m \in Nat BY <1>1, <1>2, <1>3
<1>5. PICK n : n = Min({ListLimit, Len(due)}) OBVIOUS
<1>6. n \in {ListLimit, m} /\ n \in Nat /\ n <= m
  <2>1. ListLimit \in Nat BY SizesAssumption
  <2> QED BY <1>4, <1>5, <2>1, MinOfTwo
<1>7. taken = SubSeq(due, 1, n) BY <1>5 DEF Taken
<1>8. \A i \in 1 .. n : due[i] \in D BY <1>3, <1>6, <1>4
<1>9. /\ taken \in Seq(D) /\ Len(taken) = IF 1 <= n THEN n - 1 + 1 ELSE 0
      /\ \A i \in 1 .. n - 1 + 1 : taken[i] = due[1 + i - 1]
  BY <1>6, <1>7, <1>8, SubSeqProperties
<1>10. DOMAIN taken = 1 .. n BY <1>6, <1>9
<1>11. \A i \in 1 .. n : taken[i] = due[i] BY <1>6, <1>9
<1>12. \A i, k \in 1 .. n : taken[i] = taken[k] => i = k BY <1>3, <1>4, <1>6, <1>11
<1> QED BY <1>2, <1>6, <1>8, <1>10, <1>11, <1>12

LEMMA TickSends ==
  ASSUME NEW due \in SetToSeqs(Due(clock)), NEW sends, sends = RemindersOf(Taken(due))
  PROVE  /\ sends \in Seq(Send)
         /\ \A i \in DOMAIN sends : /\ sends[i].pc = "decide" /\ sends[i].event = "REMINDER"
                                    /\ sends[i].to = "customer" /\ sends[i].resv \in Due(clock)
         /\ \A i, k \in DOMAIN sends : sends[i].resv = sends[k].resv => i = k
<1>1. PICK taken : taken = Taken(due) OBVIOUS
<1>2. PICK n \in Nat :
        /\ DOMAIN taken = 1 .. n /\ \A i \in 1 .. n : taken[i] \in Due(clock)
        /\ \A i, k \in 1 .. n : taken[i] = taken[k] => i = k
  BY <1>1, TickTakes
<1>3. \A i \in 1 .. n : taken[i] \in Resv \ WalkIns BY <1>2 DEF Due
<1>4. "customer" \in Recipient /\ "REMINDER" \in Told BY DEF Recipient, Told
<1>5. sends = [i \in 1 .. n |-> NewSend("customer", "REMINDER", taken[i])] BY <1>1, <1>2 DEF RemindersOf
<1>6. \A i \in 1 .. n : /\ sends[i] \in Send /\ sends[i].pc = "decide" /\ sends[i].event = "REMINDER"
                        /\ sends[i].to = "customer" /\ sends[i].resv = taken[i]
  BY <1>3, <1>4, <1>5, NewSends
<1>7. DOMAIN sends = 1 .. n /\ sends \in Seq(Send) BY <1>5, <1>6
<1> QED BY <1>2, <1>6, <1>7

----------------------------------------------------------------------------
(* The steps that settle no mail. *)
LEMMA TransitionNotices ==
  ASSUME Noticed, NEW j \in Jobs, NEW r \in Resv, NEW e \in TransitionsTold, Transition(j, r, e)
  PROVE  Noticed'
<1> DEFINE new == Begin("event", clock, Recipients(e, r))
<1>1. job[j].kind = "idle" /\ job' = [job EXCEPT ![j] = new] /\ UNCHANGED <<note, clock>> BY DEF Transition
<1>2. JobOK(new) /\ Flights(new) = {} BY TransitionSends, Begun DEF Noticed
<1> HIDE DEF new
<1>3. UnderWay[j] = {} BY <1>1 DEF Noticed, JobsOK, JobOK, Idle, UnderWay, Flights
<1>4. JobsOK' /\ \A k \in Jobs : UnderWay'[k] = UnderWay[k] BY <1>1, <1>2, <1>3, OneJob DEF Noticed
<1> QED BY <1>1, <1>4, SameFlights DEF Noticed

LEMMA TickNotices == ASSUME Noticed, NEW j \in Jobs, Tick(j) PROVE Noticed'
<1>1. job[j].kind = "idle" /\ UNCHANGED <<note, clock>> BY DEF Tick
<1>2. PICK due \in SetToSeqs(Due(clock)) :
        job' = [job EXCEPT ![j] = Begin("tick", clock, RemindersOf(Taken(due)))]
  BY DEF Tick
<1>s. PICK sends : sends = RemindersOf(Taken(due)) OBVIOUS
<1> DEFINE new == Begin("tick", clock, sends)
<1>3. sends \in Seq(Send) /\ \A i \in DOMAIN sends : sends[i].pc = "decide" BY <1>s, TickSends
<1>4. JobOK(new) /\ Flights(new) = {} BY <1>3, Begun DEF Noticed
<1>5. job' = [job EXCEPT ![j] = new] BY <1>2, <1>s
<1> HIDE DEF new
<1>6. UnderWay[j] = {} BY <1>1 DEF Noticed, JobsOK, JobOK, Idle, UnderWay, Flights
<1>7. JobsOK' /\ \A k \in Jobs : UnderWay'[k] = UnderWay[k] BY <1>4, <1>5, <1>6, OneJob DEF Noticed
<1> QED BY <1>1, <1>7, SameFlights DEF Noticed

(* Every send of a job in progress. *)
LEMMA Running ==
  ASSUME JobsOK, NEW j \in Jobs, NEW s \in job[j].running
  PROVE  job[j] \in JobRow /\ JobOK(job[j]) /\ s \in Send /\ job[j].kind # "idle"
BY DEF JobsOK, JobOK, JobRow, Idle

LEMMA DecideStep ==
  ASSUME JobsOK, NEW j \in Jobs, NEW s \in job[j].running, Decide(j, s)
  PROVE  \E t \in Send : /\ s.pc = "decide" /\ t.pc = "insert" /\ KeyOf(t) = KeyOf(s) /\ Goes(j, s, t)
                         /\ UNCHANGED <<clock, visit, note, hist>>
<1>1. s \in Send BY Running
<1> DEFINE d == DecideChannels(s, IF job[j].kind = "tick" THEN job[j].now ELSE clock)
           mail == IF d.email /\ HasTemplate(s.to) THEN "SENT" ELSE IF d.email THEN "SKIPPED" ELSE "-"
           t == [s EXCEPT !.pc = "insert", !.inApp = d.inApp, !.email = mail]
<1>2. d.inApp BY DEF DecideChannels
<1>3. mail \in {"-", "SENT", "SKIPPED"} OBVIOUS
<1>4. Goes(j, s, t) /\ s.pc = "decide" /\ UNCHANGED <<clock, visit, note, hist>> BY <1>2 DEF Decide
<1> HIDE DEF mail, d
<1>5. d.inApp = TRUE BY <1>2 DEF d, DecideChannels
<1>6. t \in Send /\ t.pc = "insert" /\ KeyOf(t) = KeyOf(s) BY <1>1, <1>3, <1>5 DEF Send, KeyOf
<1> QED BY <1>4, <1>6

LEMMA DecideNotices ==
  ASSUME Noticed, NEW j \in Jobs, NEW s \in job[j].running, Decide(j, s) PROVE Noticed'
<1>0. JobsOK /\ job[j] \in JobRow /\ JobOK(job[j]) /\ s \in Send BY Running DEF Noticed
<1>1. PICK t \in Send : /\ s.pc = "decide" /\ t.pc = "insert" /\ KeyOf(t) = KeyOf(s) /\ Goes(j, s, t)
                        /\ UNCHANGED <<clock, visit, note, hist>>
  BY <1>0, DecideStep
<1>2. PICK new : new = [job[j] EXCEPT !.running = (@ \ {s}) \cup {t}] OBVIOUS
<1>3. job' = [job EXCEPT ![j] = new] BY <1>1, <1>2 DEF Goes
<1>4. s.resv = t.resv BY <1>1 DEF KeyOf
<1>5. JobOK(new) /\ Flights(new) = Flights(job[j]) \ {s} BY <1>0, <1>1, <1>2, <1>4, Gone
<1>6. Flights(new) = UnderWay[j] BY <1>1, <1>5 DEF Flights, UnderWay
<1>7. JobsOK' /\ \A k \in Jobs : UnderWay'[k] = UnderWay[k] BY <1>0, <1>3, <1>5, <1>6, OneJob
<1> QED BY <1>1, <1>7, SameFlights DEF Noticed

(* A number that no row has. *)
LEMMA NumberIsFree ==
  ASSUME NEW rows, IsFiniteSet(rows)
  PROVE  FreeNumber(rows) \in Nat /\ \A n \in rows : n.id # FreeNumber(rows)
<1>1. PICK c \in Nat : c = Cardinality(rows) BY FS_CardinalityType
<1> DEFINE ids == {n.id : n \in rows}
           g == [n \in rows |-> n.id]
<1>2. g \in Surjection(rows, ids) BY DEF Surjection
<1>3. IsFiniteSet(ids) /\ Cardinality(ids) <= c
  <2> HIDE DEF ids, g
  <2> QED BY <1>1, <1>2, FS_Surjection
<1>4. IsFiniteSet(1 .. c + 1) /\ Cardinality(1 .. c + 1) = c + 1
  <2>1. 1 \in Int /\ c + 1 \in Int BY <1>1
  <2>2. IsFiniteSet(1 .. c + 1) /\ Cardinality(1 .. c + 1) = (IF 1 > c + 1 THEN 0 ELSE c + 1 - 1 + 1)
    BY <2>1, FS_Interval
  <2> QED BY <1>1, <2>2
<1>5. \E i \in 1 .. c + 1 : \A n \in rows : n.id # i
  <2> SUFFICES ASSUME ~\E i \in 1 .. c + 1 : \A n \in rows : n.id # i PROVE FALSE OBVIOUS
  <2>1. 1 .. c + 1 \subseteq ids OBVIOUS
  <2> HIDE DEF ids
  <2>2. Cardinality(1 .. c + 1) <= Cardinality(ids) /\ Cardinality(ids) \in Nat
    BY <1>3, <2>1, FS_Subset, FS_CardinalityType
  <2> QED BY <1>1, <1>3, <1>4, <2>2
<1>6. FreeNumber(rows) \in 1 .. c + 1 /\ \A n \in rows : n.id # FreeNumber(rows) BY <1>1, <1>5 DEF FreeNumber
<1> QED BY <1>1, <1>6

LEMMA InsertNotices ==
  ASSUME Noticed, NEW j \in Jobs, NEW s \in job[j].running, InsertNote(j, s) PROVE Noticed'
<1>0. JobsOK /\ job[j] \in JobRow /\ JobOK(job[j]) /\ s \in Send /\ clock \in Nat BY Running DEF Noticed
<1>1. s.pc = "insert" /\ UNCHANGED <<clock, visit>> BY DEF InsertNote
<1>2. PICK id : id = FreeNumber({n \in note : KeyOf(n) = KeyOf(s)}) OBVIOUS
<1>3. IsFiniteSet({n \in note : KeyOf(n) = KeyOf(s)}) BY FS_Subset DEF Noticed, History
<1>4. id \in Nat /\ \A n \in note : KeyOf(n) = KeyOf(s) => n.id # id BY <1>2, <1>3, NumberIsFree
<1>5. PICK row : row = [id |-> id, to |-> s.to, event |-> s.event, resv |-> s.resv, inApp |-> s.inApp,
                        email |-> s.email, at |-> clock, out |-> IF s.email = "SENT" THEN "sending" ELSE "-"]
  OBVIOUS
<1>6. note' = note \cup {row} BY <1>2, <1>5 DEF InsertNote
<1>7. row \in Note /\ row.at = clock /\ row.id = id /\ KeyOf(row) = KeyOf(s) /\ row.email = s.email
      /\ row.out = IF s.email = "SENT" THEN "sending" ELSE "-"
  BY <1>0, <1>4, <1>5 DEF Send, Note, KeyOf
<1>r. \A n \in note : KeyOf(n) = KeyOf(row) => n.id # row.id BY <1>4, <1>7
<1>8. Truth(row) /\ row.out # "refused" BY <1>0, <1>7 DEF Truth, Send
<1>9. s \notin UnderWay[j] /\ UnderWay[j] = Flights(job[j]) BY <1>1 DEF UnderWay, Flights
<1>10. CASE s.email = "SENT"
  <2>1. PICK t : t = [s EXCEPT !.pc = "mail", !.note = id] OBVIOUS
  <2>2. t \in Send /\ t.pc = "mail" /\ KeyOf(t) = KeyOf(s) /\ t.note = id /\ t.resv = s.resv
    BY <1>0, <1>4, <2>1 DEF Send, KeyOf
  <2>3. PICK new : new = [job[j] EXCEPT !.running = (@ \ {s}) \cup {t}] OBVIOUS
  <2>4. job' = [job EXCEPT ![j] = new] BY <1>2, <1>10, <2>1, <2>3 DEF InsertNote, Goes
  <2>5. JobOK(new) /\ Flights(new) = (Flights(job[j]) \ {s}) \cup {t} BY <1>0, <2>2, <2>3, Gone
  <2>o. JobsOK' /\ UnderWay'[j] = Flights(new) /\ \A k \in Jobs \ {j} : UnderWay'[k] = UnderWay[k]
    BY <1>0, <2>4, <2>5, OneJob
  <2>6. UnderWay'[j] = UnderWay[j] \cup {t} BY <1>9, <2>5, <2>o
  <2>7. Row(row, t) BY <1>7, <2>2 DEF Row
  <2> DEFINE G == {t}
  <2>8. (\A u, v \in G : u = v) /\ UnderWay'[j] = UnderWay[j] \cup G
        /\ \A u \in G : u \in Send /\ u.pc = "mail" /\ Row(row, u) /\ row.email = "SENT" /\ row.out = "sending"
    BY <1>7, <1>10, <2>2, <2>6, <2>7
  <2> HIDE DEF G
  <2>a. Added(note, clock, row, G) BY <1>r, <1>7, <1>8, <2>8 DEF Added
  <2>b. FlightsBecome(UnderWay, UnderWay', j, {}, G) BY <2>o, <2>8 DEF FlightsBecome
  <2>9. History(note', clock, UnderWay') BY <1>6, <2>a, <2>b, RowAdded DEF Noticed
  <2> QED BY <1>0, <1>1, <2>o, <2>9 DEF Noticed
<1>11. CASE s.email # "SENT"
  <2>1. PICK new : new = Settle([job[j] EXCEPT !.running = @ \ {s}]) OBVIOUS
  <2>d. Done(j, s) BY <1>11 DEF InsertNote
  <2>2. job' = [job EXCEPT ![j] = new] BY <2>1, <2>d DEF Done
  <2>3. JobOK(new) /\ Flights(new) = Flights(job[j]) \ {s} BY <1>0, <2>1, SendDone
  <2>o. JobsOK' /\ UnderWay'[j] = Flights(new) /\ \A k \in Jobs \ {j} : UnderWay'[k] = UnderWay[k]
    BY <1>0, <2>2, <2>3, OneJob
  <2>4. UnderWay'[j] = UnderWay[j] BY <1>9, <2>3, <2>o
  <2> DEFINE G == {}
  <2>5. (\A u, v \in G : u = v) /\ UnderWay'[j] = UnderWay[j] \cup G
        /\ \A u \in G : u \in Send /\ u.pc = "mail" /\ Row(row, u) /\ row.email = "SENT" /\ row.out = "sending"
    BY <2>4
  <2> HIDE DEF G
  <2>a. Added(note, clock, row, G) BY <1>r, <1>7, <1>8, <2>5 DEF Added
  <2>b. FlightsBecome(UnderWay, UnderWay', j, {}, G) BY <2>o, <2>5 DEF FlightsBecome
  <2>6. History(note', clock, UnderWay') BY <1>6, <2>a, <2>b, RowAdded DEF Noticed
  <2> QED BY <1>0, <1>1, <2>o, <2>6 DEF Noticed
<1> QED BY <1>10, <1>11

(* The row of a mail under way is its only one. *)
LEMMA ItsRow ==
  ASSUME Noticed, NEW j \in Jobs, NEW s \in job[j].running, s.pc \in {"mail", "mark"}
  PROVE  \E n \in note : /\ RowsOf(s) = {n} /\ n \in Note /\ s \in UnderWay[j]
                         /\ Row(n, s) /\ n.at = clock /\ n.email = "SENT" /\ n.out = Stage(s)
<1>1. s \in UnderWay[j] BY DEF UnderWay, Flights
<1>2. PICK n \in note : Row(n, s) /\ n.at = clock /\ n.email = "SENT" /\ n.out = Stage(s)
  BY <1>1 DEF Noticed, History, OnItsWay
<1>3. RowsOf(s) = {n} BY <1>2 DEF RowsOf, Row, Noticed, History, Numbered
<1> QED BY <1>1, <1>2, <1>3 DEF Noticed, History

(* The mail of a send is settled: the send goes on or is done, its row follows. *)
LEMMA Settles ==
  ASSUME Noticed, NEW j \in Jobs, NEW s \in job[j].running, NEW n \in note, s \in UnderWay[j],
         NEW new, NEW G, Follows(clock, s, n, new, G), note' = (note \ {n}) \cup {new}, UNCHANGED clock,
         NEW jb, JobOK(jb), Flights(jb) = (Flights(job[j]) \ {s}) \cup G, job' = [job EXCEPT ![j] = jb]
  PROVE  Noticed'
<1>1. JobsOK' /\ UnderWay'[j] = Flights(jb) /\ \A k \in Jobs \ {j} : UnderWay'[k] = UnderWay[k]
  BY OneJob DEF Noticed
<1>2. UnderWay[j] = Flights(job[j]) BY DEF UnderWay
<1>3. FlightsBecome(UnderWay, UnderWay', j, {s}, G) BY <1>1, <1>2 DEF FlightsBecome
<1>4. History(note', clock, UnderWay') BY <1>3, MailMoves DEF Noticed
<1> QED BY <1>1, <1>4 DEF Noticed

LEMMA MailNotices ==
  ASSUME Noticed, NEW j \in Jobs, NEW s \in job[j].running, Mail(j, s) PROVE Noticed'
<1>0. JobsOK /\ job[j] \in JobRow /\ JobOK(job[j]) /\ s \in Send BY Running DEF Noticed
<1>1. s.pc = "mail" /\ UNCHANGED clock BY DEF Mail
<1>2. PICK n \in note : /\ RowsOf(s) = {n} /\ n \in Note /\ s \in UnderWay[j]
                        /\ Row(n, s) /\ n.at = clock /\ n.email = "SENT" /\ n.out = Stage(s)
  BY <1>1, ItsRow
<1>3. CASE Outcome(s, "taken") /\ Done(j, s)
  <2>1. PICK new : new = [n EXCEPT !.out = "taken"] OBVIOUS
  <2>2. note' = (note \ {n}) \cup {new} BY <1>2, <1>3, <2>1 DEF Outcome
  <2>3. /\ new \in Note /\ KeyOf(new) = KeyOf(n) /\ new.id = n.id /\ new.at = n.at
        /\ new.email = n.email /\ new.out = "taken"
    BY <1>2, <2>1 DEF Note, KeyOf
  <2>4. PICK G : G = {} OBVIOUS
  <2>5. Follows(clock, s, n, new, G) BY <1>2, <2>3, <2>4 DEF Follows, Truth
  <2>6. PICK jb : jb = Settle([job[j] EXCEPT !.running = @ \ {s}]) OBVIOUS
  <2>7. JobOK(jb) /\ Flights(jb) = Flights(job[j]) \ {s} BY <1>0, <2>6, SendDone
  <2>8. Flights(jb) = (Flights(job[j]) \ {s}) \cup G BY <2>4, <2>7
  <2>9. job' = [job EXCEPT ![j] = jb] BY <1>3, <2>6 DEF Done
  <2> QED BY <1>1, <1>2, <2>2, <2>5, <2>7, <2>8, <2>9, Settles
<1>4. CASE Goes(j, s, [s EXCEPT !.tries = @ + 1]) /\ UNCHANGED note
  <2>1. PICK t : t = [s EXCEPT !.tries = @ + 1] OBVIOUS
  <2>2. t \in Send /\ t.pc = "mail" /\ KeyOf(t) = KeyOf(s) /\ t.note = s.note /\ t.resv = s.resv
    BY <1>0, <1>1, <2>1 DEF Send, KeyOf
  <2>3. note' = (note \ {n}) \cup {n} BY <1>4
  <2>4. PICK G : G = {t} OBVIOUS
  <2>5. Truth(n) BY DEF Noticed, History
  <2>6. Follows(clock, s, n, n, G) BY <1>1, <1>2, <2>2, <2>4, <2>5 DEF Follows, Stage
  <2>7. PICK jb : jb = [job[j] EXCEPT !.running = (@ \ {s}) \cup {t}] OBVIOUS
  <2>8. JobOK(jb) /\ Flights(jb) = (Flights(job[j]) \ {s}) \cup {t} BY <1>0, <2>2, <2>7, Gone
  <2>9. job' = [job EXCEPT ![j] = jb] BY <1>4, <2>1, <2>7 DEF Goes
  <2> QED BY <1>1, <1>2, <2>3, <2>4, <2>6, <2>8, <2>9, Settles
<1>5. CASE Goes(j, s, [s EXCEPT !.pc = "mark"]) /\ Outcome(s, "refused")
  <2>1. PICK t : t = [s EXCEPT !.pc = "mark"] OBVIOUS
  <2>2. t \in Send /\ t.pc = "mark" /\ KeyOf(t) = KeyOf(s) /\ t.note = s.note /\ t.resv = s.resv
    BY <1>0, <2>1 DEF Send, KeyOf
  <2>3. PICK new : new = [n EXCEPT !.out = "refused"] OBVIOUS
  <2>a. note' = (note \ {n}) \cup {new} BY <1>2, <1>5, <2>3 DEF Outcome
  <2>b. /\ new \in Note /\ KeyOf(new) = KeyOf(n) /\ new.id = n.id /\ new.at = n.at
        /\ new.email = n.email /\ new.out = "refused"
    BY <1>2, <2>3 DEF Note, KeyOf
  <2>4. PICK G : G = {t} OBVIOUS
  <2>6. Follows(clock, s, n, new, G) BY <1>2, <2>2, <2>4, <2>b DEF Follows, Stage, Truth
  <2>7. PICK jb : jb = [job[j] EXCEPT !.running = (@ \ {s}) \cup {t}] OBVIOUS
  <2>8. JobOK(jb) /\ Flights(jb) = (Flights(job[j]) \ {s}) \cup {t} BY <1>0, <2>2, <2>7, Gone
  <2>9. job' = [job EXCEPT ![j] = jb] BY <1>5, <2>1, <2>7 DEF Goes
  <2> QED BY <1>1, <1>2, <2>a, <2>4, <2>6, <2>8, <2>9, Settles
<1> QED BY <1>3, <1>4, <1>5 DEF Mail

LEMMA MarkNotices ==
  ASSUME Noticed, NEW j \in Jobs, NEW s \in job[j].running, Mark(j, s) PROVE Noticed'
<1>0. JobsOK /\ job[j] \in JobRow /\ JobOK(job[j]) /\ s \in Send BY Running DEF Noticed
<1>1. s.pc = "mark" /\ UNCHANGED clock /\ Done(j, s) BY DEF Mark
<1>2. PICK n \in note : /\ RowsOf(s) = {n} /\ n \in Note /\ s \in UnderWay[j]
                        /\ Row(n, s) /\ n.at = clock /\ n.email = "SENT" /\ n.out = Stage(s)
  BY <1>1, ItsRow
<1>3. PICK new : new = [n EXCEPT !.email = "FAILED"] OBVIOUS
<1>4. note' = (note \ {n}) \cup {new} BY <1>2, <1>3 DEF Mark
<1>5. /\ new \in Note /\ KeyOf(new) = KeyOf(n) /\ new.id = n.id /\ new.at = n.at
      /\ new.email = "FAILED" /\ new.out = "refused"
  BY <1>1, <1>2, <1>3 DEF Note, KeyOf, Stage
<1>6. PICK G : G = {} OBVIOUS
<1>7. Follows(clock, s, n, new, G) BY <1>2, <1>5, <1>6 DEF Follows, Truth
<1>8. PICK jb : jb = Settle([job[j] EXCEPT !.running = @ \ {s}]) OBVIOUS
<1>9. JobOK(jb) /\ Flights(jb) = Flights(job[j]) \ {s} BY <1>0, <1>8, SendDone
<1>10. Flights(jb) = (Flights(job[j]) \ {s}) \cup G BY <1>6, <1>9
<1>11. job' = [job EXCEPT ![j] = jb] BY <1>1, <1>8 DEF Done
<1> QED BY <1>1, <1>2, <1>4, <1>7, <1>9, <1>10, <1>11, Settles

LEMMA PurgeNotices == ASSUME Noticed, Purge PROVE Noticed'
<1>1. PICK ns : ns \subseteq Old /\ note' = note \ ns /\ UNCHANGED <<clock, job>> BY DEF Purge, kSubset
<1>2. \A n \in note : n.at \in Nat BY DEF Noticed, History, Note
<1>3. \A n \in note \ note' : n.at # clock BY <1>1, <1>2, TimeAssumption DEF Old, Noticed
<1>4. note' \in SUBSET note BY <1>1
<1>5. History(note', clock, UnderWay) BY <1>3, <1>4, RowsDeleted DEF Noticed
<1>6. UnderWay' = UnderWay /\ JobsOK' BY <1>1 DEF UnderWay, JobsOK, Noticed
<1> QED BY <1>1, <1>5, <1>6 DEF Noticed

LEMMA AdvanceNotices == ASSUME Noticed, Advance PROVE Noticed'
<1>1. /\ \A j \in Jobs : \A s \in job[j].running : s.pc = "decide"
      /\ clock' = clock + 1 /\ UNCHANGED <<note, job>>
  BY DEF Advance
<1>2. \A j \in Jobs : UnderWay[j] = {} BY <1>1 DEF UnderWay, Flights
<1>3. History(note, clock', UnderWay) BY <1>2, NothingUnderWay DEF Noticed
<1>4. UnderWay' = UnderWay /\ JobsOK' BY <1>1 DEF UnderWay, JobsOK, Noticed
<1>5. clock' \in Nat BY <1>1 DEF Noticed
<1> QED BY <1>1, <1>3, <1>4, <1>5 DEF Noticed

LEMMA CrashNotices == ASSUME Noticed, Crash PROVE Noticed'
<1>1. /\ note' = {IF n.email = "SENT" /\ n.out # "taken" THEN [n EXCEPT !.out = "cut"] ELSE n : n \in note}
      /\ job' = [j \in Jobs |-> Idle] /\ UNCHANGED clock
  BY DEF Crash
<1> DEFINE f == [n \in note |-> IF n.email = "SENT" /\ n.out # "taken" THEN [n EXCEPT !.out = "cut"] ELSE n]
<1>2. note' = {f[n] : n \in note} BY <1>1
<1>3. ASSUME NEW n \in note PROVE CutTo(n, f[n])
  <2>1. n \in Note /\ Truth(n) BY DEF Noticed, History
  <2>2. CASE n.email = "SENT" /\ n.out # "taken"
    <3>1. f[n] = [n EXCEPT !.out = "cut"] BY <2>2
    <3> HIDE DEF f
    <3>2. f[n] \in Note /\ KeyOf(f[n]) = KeyOf(n) /\ f[n].id = n.id /\ f[n].email = "SENT" /\ f[n].out = "cut"
      BY <2>1, <2>2, <3>1 DEF Note, KeyOf
    <3> QED BY <3>2 DEF Truth, CutTo
  <2>3. CASE ~(n.email = "SENT" /\ n.out # "taken") BY <2>1, <2>3 DEF CutTo
  <2> QED BY <2>2, <2>3
<1>4. JobsOK' BY <1>1 DEF JobsOK, JobOK, Queued, Idle, JobRow
<1>5. \A j \in Jobs : UnderWay'[j] = {} BY <1>1 DEF UnderWay, Flights, Idle
<1> HIDE DEF f
<1>6. History(note', clock, UnderWay') BY <1>2, <1>3, <1>5, MailsCut DEF Noticed
<1> QED BY <1>1, <1>4, <1>6 DEF Noticed

(* The steps of the reviews, and the end of a visit. *)
LEMMA NoticesStill == ASSUME Noticed, UNCHANGED <<note, job, clock>> PROVE Noticed'
BY DEF Noticed, JobsOK, UnderWay

LEMMA NoticesStart == VisitsInit => Noticed
<1> SUFFICES ASSUME VisitsInit PROVE Noticed OBVIOUS
<1>1. JobsOK BY DEF VisitsInit, JobsOK, JobOK, Queued, Idle, JobRow
<1>2. \A j \in Jobs : UnderWay[j] = {} BY DEF VisitsInit, UnderWay, Flights, Idle
<1>3. note = {} /\ clock \in Nat BY TimeAssumption DEF VisitsInit
<1>4. History(note, clock, UnderWay)
  BY <1>2, <1>3, FS_EmptySet DEF History, Numbered, OnItsWay, Alone
<1> QED BY <1>1, <1>3, <1>4 DEF Noticed

LEMMA NoticesStep == Noticed /\ [VisitsNext]_visitVars => Noticed'
<1> SUFFICES ASSUME Noticed, [VisitsNext]_visitVars PROVE Noticed' OBVIOUS
<1>1. ASSUME NEW j \in Jobs, NEW r \in Resv, NEW e \in TransitionsTold, Transition(j, r, e) PROVE Noticed'
  BY <1>1, TransitionNotices
<1>2. ASSUME NEW j \in Jobs, Tick(j) PROVE Noticed' BY <1>2, TickNotices
<1>3. ASSUME NEW j \in Jobs, Notify(j) PROVE Noticed'
  BY <1>3, DecideNotices, InsertNotices, MailNotices, MarkNotices DEF Notify
<1>4. CASE Purge BY <1>4, PurgeNotices
<1>5. CASE Advance BY <1>5, AdvanceNotices
<1>6. CASE Crash BY <1>6, CrashNotices
<1>7. CASE VisitsOver \/ UNCHANGED visitVars BY <1>7, NoticesStill DEF VisitsOver, visitVars
<1>8. ASSUME NEW w \in Writers, NEW r \in Resv, CreateCheck(w, r) \/ ReplyCheck(w, r) PROVE Noticed'
  BY <1>8, NoticesStill DEF CreateCheck, ReplyCheck
<1>9. ASSUME NEW w \in Writers, CreateInsert(w) \/ ReplyWrite(w) PROVE Noticed'
  BY <1>9, NoticesStill DEF CreateInsert, ReplyWrite
<1>10. ASSUME NEW r \in Resv, Complete(r) \/ UpdateReview(r) \/ DeleteReview(r) \/ ReportReview(r) \/ DeleteReply(r)
       PROVE  Noticed'
  BY <1>10, NoticesStill DEF Complete, UpdateReview, DeleteReview, ReportReview, DeleteReply
<1> QED BY <1>1, <1>2, <1>3, <1>4, <1>5, <1>6, <1>7, <1>8, <1>9, <1>10 DEF VisitsNext

(* The history of mails is true whatever jobs interleave, ticks overlapping included, whatever  *)
(* tries fail and whenever the process dies.                                                    *)
THEOREM HistoryIsTrue == VisitsSpec => []HistoryTrue
<1>1. Noticed => HistoryTrue
  <2> SUFFICES ASSUME Noticed, NEW n \in note
               PROVE  /\ n.email = "SENT" => n.out \in {"sending", "taken", "cut", "refused"}
                      /\ n.email = "FAILED" => n.out = "refused"
                      /\ n.email = "SENT" /\ n.out = "refused" =>
                           \E j \in Jobs : \E s \in job[j].running : s.pc = "mark" /\ KeyOf(s) = KeyOf(n)
    BY DEF HistoryTrue
  <2>1. Truth(n) /\ Settling(n, UnderWay) BY DEF Noticed, History
  <2>2. \A j \in Jobs : UnderWay[j] \subseteq job[j].running BY DEF UnderWay, Flights
  <2> QED BY <2>1, <2>2 DEF Truth, Settling, Row
<1> QED BY <1>1, NoticesStart, NoticesStep, PTL DEF VisitsSpec

----------------------------------------------------------------------------
(* Reminders. *)
VisitRow ==
  [status : {"NONE", "REQUESTED", "CONFIRMED", "COMPLETED", "ENDED"}, start : Nat, confirmed : Nat]
HistoryRow ==
  [calls : Nat, crashes : Nat, onTime : BOOLEAN, missed : BOOLEAN, broken : BOOLEAN,
   reminders : [Resv -> Nat], edits : [Resv -> Nat]]
Recorded == visit \in [Resv -> VisitRow] /\ hist \in HistoryRow

(* A send whose row is not written yet. *)
Pending(s) == s.pc \in {"decide", "insert"}

(* A tick sends reminders of visits that begin within its window, one each, none sent before. *)
TickOK(jb, now, visits, counts) ==
  /\ Apart(jb) /\ jb.now <= now
  /\ \A s \in All(jb) : /\ s.event = "REMINDER" /\ s.to = "customer"
                        /\ visits[s.resv].start < jb.now + Day + Hour
                        /\ Pending(s) => counts[s.resv] = 0
EventOK(jb) == \A s \in All(jb) : s.event # "REMINDER"

(* One tick at a time. *)
Scheduled(jobs, now, visits, counts) ==
  /\ \A j \in Jobs : /\ jobs[j].kind = "tick" => TickOK(jobs[j], now, visits, counts)
                     /\ jobs[j].kind = "event" => EventOK(jobs[j])
  /\ \A j, k \in Jobs : jobs[j].kind = "tick" /\ jobs[k].kind = "tick" => j = k

(* The row of a reminder outlives the window of its visit. *)
IsReminder(n, r) == n.event = "REMINDER" /\ n.resv = r
Counted(rows, now, visits, counts) ==
  /\ \A r \in Resv : /\ counts[r] \in {0, 1}
                     /\ counts[r] = 0 => \A n \in rows : ~IsReminder(n, r)
                     /\ counts[r] = 1 => now + Day > visits[r].start \/ \E n \in rows : IsReminder(n, r)
  /\ \A n \in rows : n.event = "REMINDER" => n.to = "customer" /\ visits[n.resv].start < n.at + Day + Hour

(* Rows that say of whom, of what and when the same. *)
SameRows(rows, after) ==
  /\ \A n \in rows : \E m \in after : KeyOf(m) = KeyOf(n) /\ m.at = n.at
  /\ \A m \in after : \E n \in rows : KeyOf(m) = KeyOf(n) /\ m.at = n.at

LEMMA CountedSame ==
  ASSUME NEW rows, NEW after, NEW now, NEW visits, NEW counts, Counted(rows, now, visits, counts), SameRows(rows, after)
  PROVE  Counted(after, now, visits, counts)
BY DEF Counted, SameRows, KeyOf, IsReminder

LEMMA CountedLater ==
  ASSUME NEW rows, NEW now \in Nat, NEW visits \in [Resv -> VisitRow], NEW counts, Counted(rows, now, visits, counts)
  PROVE  Counted(rows, now + 1, visits, counts)
<1>1. \A r \in Resv : visits[r].start \in Nat BY DEF VisitRow
<1>2. Day \in Nat BY TimeAssumption
<1> QED BY <1>1, <1>2 DEF Counted

(* Old rows go: the window of their visits has closed. *)
LEMMA CountedPurged ==
  ASSUME NEW rows \in SUBSET Note, NEW now \in Nat, NEW visits \in [Resv -> VisitRow], NEW counts,
         Counted(rows, now, visits, counts), NEW after \in SUBSET rows, \A n \in rows \ after : n.at + Keep < now
  PROVE  Counted(after, now, visits, counts)
<1>1. \A r \in Resv : visits[r].start \in Nat BY DEF VisitRow
<1>2. Day \in Nat /\ Hour \in Nat /\ Keep \in Nat /\ Keep > Hour BY TimeAssumption
<1>3. ASSUME NEW r \in Resv, counts[r] = 1
      PROVE  now + Day > visits[r].start \/ \E n \in after : IsReminder(n, r)
  <2> SUFFICES ASSUME ~(now + Day > visits[r].start), \A n \in after : ~IsReminder(n, r) PROVE FALSE OBVIOUS
  <2>1. PICK n \in rows : IsReminder(n, r) BY <1>3 DEF Counted
  <2>2. n.at + Keep < now /\ n.at \in Nat BY <2>1 DEF Note
  <2>3. visits[r].start < n.at + Day + Hour BY <2>1 DEF Counted, IsReminder
  <2> QED BY <1>1, <1>2, <2>2, <2>3
<1> QED BY <1>3 DEF Counted

(* A visit keeps its start. *)
LEMMA SameStarts ==
  ASSUME NEW jobs, NEW rows, NEW now, NEW counts, NEW visits, NEW visits2, \A r \in Resv : visits2[r].start = visits[r].start,
         \A j \in Jobs : All(jobs[j]) \subseteq Send, rows \subseteq Note,
         Scheduled(jobs, now, visits, counts), Counted(rows, now, visits, counts)
  PROVE  Scheduled(jobs, now, visits2, counts) /\ Counted(rows, now, visits2, counts)
<1>1. \A s \in Send : s.resv \in Resv BY DEF Send
<1>2. \A n \in rows : n.resv \in Resv BY DEF Note
<1>3. Counted(rows, now, visits2, counts) BY <1>2 DEF Counted
<1>4. \A j \in Jobs : TickOK(jobs[j], now, visits, counts) => TickOK(jobs[j], now, visits2, counts)
  BY <1>1 DEF TickOK
<1> QED BY <1>3, <1>4 DEF Scheduled

(* Job j becomes one that is as much on schedule. *)
InStep(jobs, jobs2, j, now, visits, counts) ==
  /\ \A k \in Jobs \ {j} : jobs2[k] = jobs[k]
  /\ jobs2[j].kind = "tick" => TickOK(jobs2[j], now, visits, counts)
  /\ jobs2[j].kind = "event" => EventOK(jobs2[j])

LEMMA ScheduledOne ==
  ASSUME NEW jobs, NEW now, NEW visits, NEW counts, Scheduled(jobs, now, visits, counts), NEW j \in Jobs,
         NEW jobs2, InStep(jobs, jobs2, j, now, visits, counts), jobs2[j].kind = "tick" => jobs[j].kind = "tick"
  PROVE  Scheduled(jobs2, now, visits, counts)
BY DEF Scheduled, InStep

(* A job that goes on with one send, or is done with one. *)
LEMMA TickGoesOn ==
  ASSUME NEW jb, NEW now, NEW visits, NEW counts, TickOK(jb, now, visits, counts), NEW new, NEW s \in All(jb), NEW t,
         Apart(new), new.now = jb.now, All(new) \subseteq (All(jb) \ {s}) \cup {t}, KeyOf(t) = KeyOf(s),
         Pending(t) => Pending(s)
  PROVE  TickOK(new, now, visits, counts)
<1>1. t.to = s.to /\ t.event = s.event /\ t.resv = s.resv BY DEF KeyOf
<1>2. \A u \in All(new) : u \in All(jb) \/ u = t OBVIOUS
<1> QED BY <1>1, <1>2 DEF TickOK

(* A job goes on with t in place of its send s, or without it. *)
Moves(jb, s, t, new) ==
  /\ JobOK(new) /\ new.kind \in {jb.kind, "idle"} /\ (new.kind # "idle" => new.now = jb.now)
  /\ All(jb) \ {s} \subseteq All(new) /\ All(new) \subseteq All(jb) \cup {t}
  /\ Apart(jb) => Apart(new) /\ All(new) \subseteq (All(jb) \ {s}) \cup {t}
  /\ KeyOf(t) = KeyOf(s)

LEMMA GoesMoves ==
  ASSUME JobsOK, NEW j \in Jobs, NEW s \in job[j].running, NEW t \in Send, KeyOf(t) = KeyOf(s), Goes(j, s, t)
  PROVE  \E new : Moves(job[j], s, t, new) /\ t \in All(new) /\ job' = [job EXCEPT ![j] = new]
<1>1. job[j] \in JobRow /\ JobOK(job[j]) BY Running
<1>2. PICK new : new = [job[j] EXCEPT !.running = (@ \ {s}) \cup {t}] OBVIOUS
<1>3. s.resv = t.resv BY DEF KeyOf
<1>4. /\ JobOK(new) /\ new.kind = job[j].kind /\ new.now = job[j].now
      /\ All(job[j]) \ {s} \subseteq All(new) /\ All(new) \subseteq All(job[j]) \cup {t} /\ t \in All(new)
      /\ Apart(job[j]) => Apart(new) /\ All(new) \subseteq (All(job[j]) \ {s}) \cup {t}
  BY <1>1, <1>2, <1>3, Gone
<1>5. job' = [job EXCEPT ![j] = new] BY <1>2 DEF Goes
<1> QED BY <1>4, <1>5 DEF Moves

LEMMA DoneMoves ==
  ASSUME JobsOK, NEW j \in Jobs, NEW s \in job[j].running, NEW t, KeyOf(t) = KeyOf(s), Done(j, s)
  PROVE  \E new : Moves(job[j], s, t, new) /\ job' = [job EXCEPT ![j] = new]
<1>1. job[j] \in JobRow /\ JobOK(job[j]) BY Running
<1>2. PICK new : new = Settle([job[j] EXCEPT !.running = @ \ {s}]) OBVIOUS
<1>3. /\ JobOK(new) /\ new.kind \in {job[j].kind, "idle"} /\ (new.kind # "idle" => new.now = job[j].now)
      /\ All(job[j]) \ {s} \subseteq All(new) /\ All(new) \subseteq All(job[j])
      /\ Apart(job[j]) => Apart(new) /\ All(new) = All(job[j]) \ {s}
  BY <1>1, <1>2, SendDone
<1>4. job' = [job EXCEPT ![j] = new] BY <1>2 DEF Done
<1> QED BY <1>3, <1>4 DEF Moves

(* The row of a mail changes in nothing that says of whom, of what and when it is. *)
LEMMA RowChanged ==
  ASSUME NEW n \in note, NEW new, KeyOf(new) = KeyOf(n), new.at = n.at, note' = (note \ {n}) \cup {new}
  PROVE  SameRows(note, note')
BY DEF SameRows

LEMMA SettlingMoves ==
  ASSUME Noticed, NEW j \in Jobs, NEW s \in job[j].running, Mail(j, s) \/ Mark(j, s)
  PROVE  /\ UNCHANGED <<clock, visit, hist>> /\ SameRows(note, note') /\ ~Pending(s)
         /\ \E t, new : Moves(job[j], s, t, new) /\ ~Pending(t) /\ job' = [job EXCEPT ![j] = new]
<1>0. JobsOK /\ job[j] \in JobRow /\ JobOK(job[j]) /\ s \in Send BY Running DEF Noticed
<1>1. s.pc \in {"mail", "mark"} /\ UNCHANGED <<clock, visit, hist>> BY DEF Mail, Mark
<1>2. PICK n \in note : RowsOf(s) = {n} /\ n \in Note BY <1>1, ItsRow
<1>3. ASSUME NEW out, Outcome(s, out) PROVE SameRows(note, note')
  <2>1. PICK new : new = [n EXCEPT !.out = out] OBVIOUS
  <2>2. note' = (note \ {n}) \cup {new} BY <1>2, <1>3, <2>1 DEF Outcome
  <2>3. KeyOf(new) = KeyOf(n) /\ new.at = n.at BY <1>2, <2>1 DEF Note, KeyOf
  <2> QED BY <2>2, <2>3, RowChanged
<1>4. CASE Done(j, s) /\ SameRows(note, note')
  BY <1>0, <1>1, <1>4, DoneMoves DEF Pending
<1>5. ASSUME NEW t \in Send, KeyOf(t) = KeyOf(s), Goes(j, s, t), t.pc \in {"mail", "mark"}, SameRows(note, note')
      PROVE  SameRows(note, note') /\ \E new : Moves(job[j], s, t, new) /\ ~Pending(t) /\ job' = [job EXCEPT ![j] = new]
  BY <1>0, <1>5, GoesMoves DEF Pending
<1>6. CASE Mail(j, s)
  <2>1. CASE Outcome(s, "taken") /\ Done(j, s) BY <1>1, <1>3, <1>4, <2>1 DEF Pending
  <2>2. CASE Goes(j, s, [s EXCEPT !.tries = @ + 1]) /\ UNCHANGED note /\ s.pc = "mail"
    <3>1. PICK t : t = [s EXCEPT !.tries = @ + 1] OBVIOUS
    <3>2. t \in Send /\ t.pc = "mail" /\ KeyOf(t) = KeyOf(s) BY <1>0, <2>2, <3>1 DEF Send, KeyOf
    <3>3. SameRows(note, note') BY <2>2 DEF SameRows
    <3>4. Goes(j, s, t) BY <2>2, <3>1
    <3> QED BY <1>1, <1>5, <3>2, <3>3, <3>4 DEF Pending
  <2>3. CASE Goes(j, s, [s EXCEPT !.pc = "mark"]) /\ Outcome(s, "refused")
    <3>1. PICK t : t = [s EXCEPT !.pc = "mark"] OBVIOUS
    <3>2. t \in Send /\ t.pc = "mark" /\ KeyOf(t) = KeyOf(s) BY <1>0, <3>1 DEF Send, KeyOf
    <3>3. SameRows(note, note') BY <1>3, <2>3
    <3>4. Goes(j, s, t) BY <2>3, <3>1
    <3> QED BY <1>1, <1>5, <3>2, <3>3, <3>4 DEF Pending
  <2> QED BY <1>6, <2>1, <2>2, <2>3 DEF Mail
<1>7. CASE Mark(j, s)
  <2>1. PICK new : new = [n EXCEPT !.email = "FAILED"] OBVIOUS
  <2>2. note' = (note \ {n}) \cup {new} BY <1>2, <1>7, <2>1 DEF Mark
  <2>3. KeyOf(new) = KeyOf(n) /\ new.at = n.at BY <1>2, <2>1 DEF Note, KeyOf
  <2>4. SameRows(note, note') BY <2>2, <2>3, RowChanged
  <2>5. Done(j, s) BY <1>7 DEF Mark
  <2> QED BY <1>1, <1>4, <2>4, <2>5 DEF Pending
<1> QED BY <1>6, <1>7

(* A send that moves keeps the schedule. *)
LEMMA MovesKeep ==
  ASSUME JobsOK, NEW visits, NEW counts, Scheduled(job, clock, visits, counts), NEW j \in Jobs, NEW s \in job[j].running,
         NEW t, NEW new, Moves(job[j], s, t, new), Pending(t) => Pending(s), job' = [job EXCEPT ![j] = new]
  PROVE  Scheduled(job', clock, visits, counts)
<1>1. s \in All(job[j]) BY DEF All
<1>2. job[j].kind # "idle" BY Running
<1>3. job'[j] = new /\ \A k \in Jobs \ {j} : job'[k] = job[k] BY DEF JobsOK
<1>4. new.kind = "tick" => job[j].kind = "tick" /\ TickOK(new, clock, visits, counts)
  <2> SUFFICES ASSUME new.kind = "tick" PROVE job[j].kind = "tick" /\ TickOK(new, clock, visits, counts) OBVIOUS
  <2>1. job[j].kind = "tick" BY DEF Moves
  <2>2. TickOK(job[j], clock, visits, counts) BY <2>1 DEF Scheduled
  <2>3. Apart(new) /\ All(new) \subseteq (All(job[j]) \ {s}) \cup {t} /\ new.now = job[j].now /\ KeyOf(t) = KeyOf(s)
    BY <2>2 DEF Moves, TickOK
  <2> QED BY <1>1, <2>1, <2>2, <2>3, TickGoesOn
<1>5. new.kind = "event" => EventOK(new)
  <2> SUFFICES ASSUME new.kind = "event" PROVE EventOK(new) OBVIOUS
  <2>1. EventOK(job[j]) BY DEF Moves, Scheduled
  <2> QED BY <1>1, <2>1 DEF Moves, EventOK, KeyOf
<1>6. InStep(job, job', j, clock, visits, counts) BY <1>3, <1>4, <1>5 DEF InStep
<1>7. job'[j].kind = "tick" => job[j].kind = "tick" BY <1>3, <1>4
<1> QED BY <1>6, <1>7, ScheduledOne
----------------------------------------------------------------------------
(* No reminder is left out. *)

(* A tick under way is about to remind of the visit r. *)
Coming(jobs, r) == \E j \in Jobs : jobs[j].kind = "tick" /\ \E s \in All(jobs[j]) : s.resv = r /\ Pending(s)

(* A visit v confirmed in time, and the tick of its hour hr has begun, as that of every hour before. *)
Meant(v, missed, onTime, now, hr) ==
  /\ v.status = "CONFIRMED" /\ ~missed /\ v.confirmed + Day + Hour <= v.start
  /\ hr % Hour = 0 /\ FirstTime <= hr /\ InWindow(v.start, hr)
  /\ hr < now \/ (hr = now /\ onTime)

Covered(jobs, now, visits, counts, missed, onTime) ==
  \A r \in Resv \ WalkIns, hr \in Nat :
    Meant(visits[r], missed, onTime, now, hr) => counts[r] = 1 \/ Coming(jobs, r)

(* Whoever was reminded, or was about to be, still is. *)
KeptUp(jobs, counts, jobs2, counts2) ==
  \A r \in Resv : counts[r] = 1 \/ Coming(jobs, r) => counts2[r] = 1 \/ Coming(jobs2, r)

LEMMA CoveredOn ==
  ASSUME NEW jobs, NEW now, NEW visits, NEW counts, NEW missed, NEW onTime,
         Covered(jobs, now, visits, counts, missed, onTime),
         NEW jobs2, NEW counts2, KeptUp(jobs, counts, jobs2, counts2)
  PROVE  Covered(jobs2, now, visits, counts2, missed, onTime)
BY DEF Covered, KeptUp

(* Only visits change: of those that are meant nothing does. *)
LEMMA CoveredVisits ==
  ASSUME NEW jobs, NEW now, NEW visits, NEW counts, NEW missed, NEW onTime,
         Covered(jobs, now, visits, counts, missed, onTime), NEW visits2,
         \A r \in Resv, hr \in Nat : Meant(visits2[r], missed, onTime, now, hr) => visits2[r] = visits[r]
  PROVE  Covered(jobs, now, visits2, counts, missed, onTime)
BY DEF Covered

(* An idle job begins, or a job that is no tick changes. *)
LEMMA OtherJob ==
  ASSUME JobsOK, NEW j \in Jobs, job[j].kind # "tick", NEW new, JobOK(new), job' = [job EXCEPT ![j] = new],
         NEW counts
  PROVE  KeptUp(job, counts, job', counts)
<1>1. \A k \in Jobs \ {j} : job'[k] = job[k] BY DEF JobsOK
<1> QED BY <1>1 DEF KeptUp, Coming

(* A send that moves loses nobody. *)
LEMMA MovesCover ==
  ASSUME JobsOK, NEW j \in Jobs, NEW s \in job[j].running, NEW t, NEW new, Moves(job[j], s, t, new),
         job' = [job EXCEPT ![j] = new], NEW r, Coming(job, r),
         (Pending(s) /\ s.resv = r) => (Pending(t) /\ t \in All(new)) \/ job[j].kind # "tick"
  PROVE  Coming(job', r)
<1>1. PICK k \in Jobs : job[k].kind = "tick" /\ \E u \in All(job[k]) : u.resv = r /\ Pending(u) BY DEF Coming
<1>2. PICK u \in All(job[k]) : u.resv = r /\ Pending(u) BY <1>1
<1>3. job'[j] = new /\ \A l \in Jobs \ {j} : job'[l] = job[l] BY DEF JobsOK
<1>4. CASE k # j BY <1>1, <1>2, <1>3, <1>4 DEF Coming
<1>5. CASE k = j
  <2>1. \E v \in All(new) : v.resv = r /\ Pending(v)
    <3>1. CASE u = s BY <1>1, <1>2, <1>5, <3>1 DEF Moves, KeyOf
    <3>2. CASE u # s BY <1>2, <1>5, <3>2 DEF Moves
    <3> QED BY <3>1, <3>2
  <2>2. new.kind # "idle"
    <3>1. new.kind = "idle" => new = Idle BY DEF Moves, JobOK
    <3>2. All(Idle) = {} BY DEF All, Idle, ToSet
    <3> QED BY <2>1, <3>1, <3>2
  <2>3. new.kind = "tick" BY <1>1, <1>5, <2>2 DEF Moves
  <2> QED BY <1>3, <1>5, <2>1, <2>3 DEF Coming
<1> QED BY <1>4, <1>5

----------------------------------------------------------------------------
(* The steps. *)
Once ==
  /\ Noticed /\ Recorded
  /\ Scheduled(job, clock, visit, hist.reminders)
  /\ Counted(note, clock, visit, hist.reminders)
  /\ Covered(job, clock, visit, hist.reminders, hist.missed, hist.onTime)

(* Nothing happens that reminders depend on. *)
LEMMA OnceStill ==
  ASSUME Once, Noticed', UNCHANGED <<note, job, clock, visit>>, hist' \in HistoryRow,
         UNCHANGED <<hist.reminders, hist.missed, hist.onTime>>
  PROVE  Once'
BY DEF Once, Recorded

LEMMA DecideOnce ==
  ASSUME Once, Noticed', NEW j \in Jobs, NEW s \in job[j].running, Decide(j, s) PROVE Once'
<1>0. JobsOK BY DEF Once, Noticed
<1>1. PICK t \in Send : /\ s.pc = "decide" /\ t.pc = "insert" /\ KeyOf(t) = KeyOf(s) /\ Goes(j, s, t)
                        /\ UNCHANGED <<clock, visit, note, hist>>
  BY <1>0, DecideStep
<1>2. PICK new : Moves(job[j], s, t, new) /\ t \in All(new) /\ job' = [job EXCEPT ![j] = new]
  BY <1>0, <1>1, GoesMoves
<1>3. Pending(s) /\ Pending(t) BY <1>1 DEF Pending
<1>4. Scheduled(job', clock, visit, hist.reminders) BY <1>0, <1>2, <1>3, MovesKeep DEF Once
<1>5. \A r \in Resv : Coming(job, r) => Coming(job', r) BY <1>0, <1>2, <1>3, MovesCover
<1>6. KeptUp(job, hist.reminders, job', hist.reminders) BY <1>5 DEF KeptUp
<1>7. Covered(job', clock, visit, hist.reminders, hist.missed, hist.onTime) BY <1>6, CoveredOn DEF Once
<1>8. Once' <=> /\ Noticed' /\ Recorded' /\ Scheduled(job', clock', visit', hist'.reminders)
                /\ Counted(note', clock', visit', hist'.reminders)
                /\ Covered(job', clock', visit', hist'.reminders, hist'.missed, hist'.onTime)
  BY DEF Once
<1>9. Recorded' BY <1>1 DEF Once, Recorded
<1> QED BY <1>1, <1>4, <1>7, <1>8, <1>9 DEF Once

LEMMA SettlingOnce ==
  ASSUME Once, Noticed', NEW j \in Jobs, NEW s \in job[j].running, Mail(j, s) \/ Mark(j, s) PROVE Once'
<1>0. JobsOK /\ Noticed BY DEF Once, Noticed
<1>1. UNCHANGED <<clock, visit, hist>> /\ SameRows(note, note') /\ ~Pending(s) BY <1>0, SettlingMoves
<1>2. PICK t, new : Moves(job[j], s, t, new) /\ ~Pending(t) /\ job' = [job EXCEPT ![j] = new]
  BY <1>0, SettlingMoves
<1>4. Scheduled(job', clock, visit, hist.reminders) BY <1>0, <1>1, <1>2, MovesKeep DEF Once
<1>5. \A r \in Resv : Coming(job, r) => Coming(job', r) BY <1>0, <1>1, <1>2, MovesCover
<1>6. KeptUp(job, hist.reminders, job', hist.reminders) BY <1>5 DEF KeptUp
<1>7. Covered(job', clock, visit, hist.reminders, hist.missed, hist.onTime) BY <1>6, CoveredOn DEF Once
<1>8. Counted(note', clock, visit, hist.reminders) BY <1>1, CountedSame DEF Once
<1>9. Recorded' BY <1>1 DEF Once, Recorded
<1>10. Once' <=> /\ Noticed' /\ Recorded' /\ Scheduled(job', clock', visit', hist'.reminders)
                 /\ Counted(note', clock', visit', hist'.reminders)
                 /\ Covered(job', clock', visit', hist'.reminders, hist'.missed, hist'.onTime)
  BY DEF Once
<1> QED BY <1>1, <1>4, <1>7, <1>8, <1>9, <1>10

LEMMA PurgeOnce == ASSUME Once, Noticed', Purge PROVE Once'
<1>1. PICK ns : ns \subseteq Old /\ note' = note \ ns /\ UNCHANGED <<clock, visit, job, hist>> BY DEF Purge, kSubset
<1>2. \A n \in note \ note' : n.at + Keep < clock BY <1>1 DEF Old
<1>3. note \in SUBSET Note /\ note' \in SUBSET note /\ clock \in Nat BY <1>1 DEF Once, Noticed, History
<1>4. visit \in [Resv -> VisitRow] BY DEF Once, Recorded
<1>5. Counted(note', clock, visit, hist.reminders) BY <1>2, <1>3, <1>4, CountedPurged DEF Once
<1>6. Recorded' BY <1>1 DEF Once, Recorded
<1>7. Once' <=> /\ Noticed' /\ Recorded' /\ Scheduled(job', clock', visit', hist'.reminders)
                /\ Counted(note', clock', visit', hist'.reminders)
                /\ Covered(job', clock', visit', hist'.reminders, hist'.missed, hist'.onTime)
  BY DEF Once
<1>8. Once' <=> /\ Noticed' /\ Recorded' /\ Scheduled(job, clock, visit, hist.reminders)
                /\ Counted(note', clock, visit, hist.reminders)
                /\ Covered(job, clock, visit, hist.reminders, hist.missed, hist.onTime)
  BY <1>1, <1>7
<1> QED BY <1>5, <1>6, <1>8 DEF Once

(* What Once says of the next state, conjunct by conjunct. *)
LEMMA OnceNext ==
  Once' <=> /\ Noticed' /\ Recorded'
            /\ Scheduled(job', clock', visit', hist'.reminders)
            /\ Counted(note', clock', visit', hist'.reminders)
            /\ Covered(job', clock', visit', hist'.reminders, hist'.missed, hist'.onTime)
BY DEF Once

LEMMA AdvanceOnce == ASSUME Once, Noticed', Advance PROVE Once'
<1>1. clock' = clock + 1 /\ UNCHANGED <<visit, note, job>> BY DEF Advance
<1>2. hist \in HistoryRow /\ visit \in [Resv -> VisitRow] /\ clock \in Nat /\ JobsOK BY DEF Once, Recorded, Noticed
<1>3. PICK h : h = [hist EXCEPT !.onTime = FALSE, !.missed = @ \/ (clock % Hour = 0 /\ ~hist.onTime)] OBVIOUS
<1>4. hist' = h BY <1>3 DEF Advance
<1>5. /\ h.reminders = hist.reminders /\ h.onTime = FALSE
      /\ h.missed = (hist.missed \/ (clock % Hour = 0 /\ ~hist.onTime))
  BY <1>2, <1>3 DEF HistoryRow
<1>a. h.missed \in BOOLEAN BY <1>5
<1>b. h \in HistoryRow BY <1>2, <1>3, <1>a DEF HistoryRow
<1>6. Recorded' BY <1>1, <1>2, <1>4, <1>b DEF Recorded
<1>7. Scheduled(job, clock + 1, visit, hist.reminders)
  <2>1. \A j \in Jobs : job[j].now \in Nat BY <1>2 DEF JobsOK, JobRow
  <2>2. \A j \in Jobs : TickOK(job[j], clock, visit, hist.reminders) => TickOK(job[j], clock + 1, visit, hist.reminders)
    BY <1>2, <2>1 DEF TickOK
  <2> QED BY <2>2 DEF Once, Scheduled
<1>8. Counted(note, clock + 1, visit, hist.reminders) BY <1>2, CountedLater DEF Once
<1>9. ASSUME NEW v, NEW hr \in Nat, Meant(v, h.missed, h.onTime, clock + 1, hr)
      PROVE  Meant(v, hist.missed, hist.onTime, clock, hr)
  <2>1. hr < clock + 1 /\ ~hist.missed /\ (clock % Hour = 0 => hist.onTime) /\ hr % Hour = 0
    BY <1>5, <1>9 DEF Meant
  <2>2. hr < clock \/ hr = clock BY <1>2, <2>1
  <2> QED BY <1>9, <2>1, <2>2 DEF Meant
<1>10. Covered(job, clock + 1, visit, hist.reminders, h.missed, h.onTime) BY <1>9 DEF Once, Covered
<1> QED BY <1>1, <1>4, <1>5, <1>6, <1>7, <1>8, <1>10, OnceNext

LEMMA CrashOnce == ASSUME Once, Noticed', Crash PROVE Once'
<1>1. /\ note' = {IF n.email = "SENT" /\ n.out # "taken" THEN [n EXCEPT !.out = "cut"] ELSE n : n \in note}
      /\ job' = [j \in Jobs |-> Idle] /\ UNCHANGED <<clock, visit>>
  BY DEF Crash
<1>2. hist \in HistoryRow /\ visit \in [Resv -> VisitRow] BY DEF Once, Recorded
<1>3. PICK m \in BOOLEAN : m <=> hist.missed \/ \E j \in Jobs : job[j].kind = "tick" OBVIOUS
<1>a. m = (hist.missed \/ \E j \in Jobs : job[j].kind = "tick") BY <1>3
<1>b. PICK i : i = [hist EXCEPT !.crashes = @ + 1] OBVIOUS
<1>c. PICK h : h = [i EXCEPT !.missed = m] OBVIOUS
<1>4. hist' = h BY <1>a, <1>b, <1>c DEF Crash
<1>d. /\ i \in HistoryRow /\ i.reminders = hist.reminders /\ i.onTime = hist.onTime
  BY <1>2, <1>b DEF HistoryRow
<1>5. h \in HistoryRow /\ h.reminders = hist.reminders /\ h.onTime = hist.onTime /\ h.missed = m
  BY <1>c, <1>d DEF HistoryRow
<1>6. Recorded' BY <1>1, <1>2, <1>4, <1>5 DEF Recorded
<1>7. \A j \in Jobs : job'[j].kind = "idle" BY <1>1 DEF Idle
<1>8. Scheduled(job', clock, visit, hist.reminders) BY <1>7 DEF Scheduled
<1> DEFINE f == [n \in note |-> IF n.email = "SENT" /\ n.out # "taken" THEN [n EXCEPT !.out = "cut"] ELSE n]
<1>9. note' = {f[n] : n \in note} BY <1>1
<1>10. \A n \in note : KeyOf(f[n]) = KeyOf(n) /\ f[n].at = n.at BY DEF Once, Noticed, History, Note, KeyOf
<1> HIDE DEF f
<1>11. SameRows(note, note') BY <1>9, <1>10 DEF SameRows
<1>12. Counted(note', clock, visit, hist.reminders) BY <1>11, CountedSame DEF Once
<1>13. ASSUME NEW r \in Resv \ WalkIns, NEW hr \in Nat, Meant(visit[r], h.missed, h.onTime, clock, hr)
       PROVE  hist.reminders[r] = 1
  <2>1. Meant(visit[r], hist.missed, hist.onTime, clock, hr) /\ ~\E j \in Jobs : job[j].kind = "tick"
    BY <1>3, <1>5, <1>13 DEF Meant
  <2> QED BY <2>1 DEF Once, Covered, Coming
<1>14. Covered(job', clock, visit, hist.reminders, h.missed, h.onTime) BY <1>13 DEF Covered
<1> QED BY <1>1, <1>4, <1>5, <1>6, <1>8, <1>12, <1>14, OnceNext

LEMMA TransitionOnce ==
  ASSUME Once, Noticed', NEW j \in Jobs, NEW q \in Resv, NEW e \in TransitionsTold, Transition(j, q, e)
  PROVE  Once'
<1>1. /\ job[j].kind = "idle" /\ clock < visit[q].start /\ UNCHANGED <<clock, note>>
      /\ hist' = [hist EXCEPT !.calls = @ + 1]
  BY DEF Transition, Called
<1>2. /\ hist \in HistoryRow /\ visit \in [Resv -> VisitRow] /\ clock \in Nat /\ JobsOK
      /\ \A k \in Jobs : All(job[k]) \subseteq Send
      /\ note \subseteq Note
  <2>1. \A k \in Jobs : job[k].queue \in Seq(Send) /\ job[k].running \subseteq Send BY DEF Once, Noticed, JobsOK, JobRow
  <2>2. \A k \in Jobs : All(job[k]) \subseteq Send BY <2>1 DEF All, ToSet
  <2> QED BY <2>2 DEF Once, Recorded, Noticed, History
<1>3. hist' \in HistoryRow /\ hist'.reminders = hist.reminders /\ hist'.missed = hist.missed /\ hist'.onTime = hist.onTime
  BY <1>1, <1>2 DEF HistoryRow
<1>4. PICK v : v = [visit[q] EXCEPT !.status = After(e), !.confirmed = IF e = "CONFIRMED" THEN clock ELSE @] OBVIOUS
<1>5. /\ v.start = visit[q].start /\ v.status = After(e) /\ (e = "CONFIRMED" => v.confirmed = clock)
      /\ v \in VisitRow
  BY <1>2, <1>4 DEF VisitRow, After
<1>6. visit' = [visit EXCEPT ![q] = v]
  <2>1. visit' = [visit EXCEPT ![q].status = After(e), ![q].confirmed = IF e = "CONFIRMED" THEN clock ELSE @]
    BY DEF Transition
  <2> QED BY <1>2, <1>4, <2>1 DEF VisitRow
<1>7. /\ visit' \in [Resv -> VisitRow] /\ visit'[q] = v /\ \A r \in Resv \ {q} : visit'[r] = visit[r]
      /\ \A r \in Resv : visit'[r].start = visit[r].start
  BY <1>2, <1>5, <1>6
<1>8. PICK sends : sends = Recipients(e, q) OBVIOUS
<1>9. PICK new : new = Begin("event", clock, sends) OBVIOUS
<1>10. job' = [job EXCEPT ![j] = new] BY <1>8, <1>9 DEF Transition
<1>11. sends \in Seq(Send) /\ \A i \in DOMAIN sends : sends[i].pc = "decide" /\ sends[i].event = e
  BY <1>8, TransitionSends
<1>12. JobOK(new) /\ All(new) = ToSet(sends) /\ new.kind \in {"event", "idle"} BY <1>2, <1>9, <1>11, Begun
<1>13. EventOK(new) BY <1>11, <1>12 DEF EventOK, ToSet, TransitionsTold
<1>14. job'[j] = new /\ \A k \in Jobs \ {j} : job'[k] = job[k] BY <1>2, <1>10 DEF JobsOK
<1>15. InStep(job, job', j, clock, visit, hist.reminders) /\ job'[j].kind # "tick"
  BY <1>12, <1>13, <1>14 DEF InStep
<1>16. Scheduled(job', clock, visit, hist.reminders) BY <1>15, ScheduledOne DEF Once
<1>17. KeptUp(job, hist.reminders, job', hist.reminders) BY <1>1, <1>2, <1>10, <1>12, OtherJob
<1>18. Covered(job', clock, visit, hist.reminders, hist.missed, hist.onTime) BY <1>17, CoveredOn DEF Once
<1>19. ASSUME NEW r \in Resv, NEW hr \in Nat, Meant(visit'[r], hist.missed, hist.onTime, clock, hr)
       PROVE  visit'[r] = visit[r]
  <2>1. CASE r # q BY <1>7, <2>1
  <2>2. CASE r = q
    <3>1. v.status = "CONFIRMED" /\ v.confirmed + Day + Hour <= v.start /\ v.start < hr + Day + Hour /\ hr <= clock
      BY <1>2, <1>7, <1>19, <2>2 DEF Meant, InWindow
    <3>2. e = "CONFIRMED" BY <1>5, <3>1 DEF After
    <3>3. v.start \in Nat /\ Day \in Nat /\ Hour \in Nat BY <1>5, TimeAssumption DEF VisitRow
    <3> QED BY <1>2, <1>5, <3>1, <3>2, <3>3
  <2> QED BY <2>1, <2>2
<1>20. Covered(job', clock, visit', hist.reminders, hist.missed, hist.onTime) BY <1>18, <1>19, CoveredVisits
<1>21. \A k \in Jobs : All(job'[k]) \subseteq Send BY <1>2, <1>11, <1>12, <1>14 DEF ToSet
<1>22. Scheduled(job', clock, visit', hist.reminders) /\ Counted(note, clock, visit', hist.reminders)
  BY <1>2, <1>7, <1>16, <1>21, SameStarts DEF Once
<1>23. Recorded' BY <1>3, <1>7 DEF Recorded
<1> QED BY <1>1, <1>3, <1>20, <1>22, <1>23, OnceNext

LEMMA CompleteOnce == ASSUME Once, Noticed', NEW q \in Resv, Complete(q) PROVE Once'
<1>1. visit' = [visit EXCEPT ![q].status = "COMPLETED"] /\ UNCHANGED <<clock, note, job, hist>> BY DEF Complete
<1>2. /\ visit \in [Resv -> VisitRow] /\ note \subseteq Note /\ \A k \in Jobs : All(job[k]) \subseteq Send
  <2>1. \A k \in Jobs : job[k].queue \in Seq(Send) /\ job[k].running \subseteq Send BY DEF Once, Noticed, JobsOK, JobRow
  <2>2. \A k \in Jobs : All(job[k]) \subseteq Send BY <2>1 DEF All, ToSet
  <2> QED BY <2>2 DEF Once, Recorded, Noticed, History
<1>3. PICK v : v = [visit[q] EXCEPT !.status = "COMPLETED"] OBVIOUS
<1>4. v \in VisitRow /\ v.start = visit[q].start /\ v.status # "CONFIRMED" BY <1>2, <1>3 DEF VisitRow
<1>5. visit' = [visit EXCEPT ![q] = v] BY <1>1, <1>2, <1>3
<1>6. /\ visit' \in [Resv -> VisitRow] /\ visit'[q] = v /\ \A r \in Resv \ {q} : visit'[r] = visit[r]
      /\ \A r \in Resv : visit'[r].start = visit[r].start
  BY <1>2, <1>4, <1>5
<1>7. \A r \in Resv, hr \in Nat : Meant(visit'[r], hist.missed, hist.onTime, clock, hr) => visit'[r] = visit[r]
  BY <1>4, <1>6 DEF Meant
<1>8. Covered(job, clock, visit', hist.reminders, hist.missed, hist.onTime) BY <1>7, CoveredVisits DEF Once
<1>9. Scheduled(job, clock, visit', hist.reminders) /\ Counted(note, clock, visit', hist.reminders)
  BY <1>2, <1>6, SameStarts DEF Once
<1>10. Recorded' BY <1>1, <1>6 DEF Once, Recorded
<1> QED BY <1>1, <1>8, <1>9, <1>10, OnceNext

(* The reminder s of a tick is recorded: everybody else's stay as they were. *)
CountsOne(counts, counts2, q) == counts2[q] = counts[q] + 1 /\ \A r \in Resv \ {q} : counts2[r] = counts[r]

LEMMA TickCounts ==
  ASSUME NEW jb, NEW now, NEW visits, NEW counts, TickOK(jb, now, visits, counts), NEW s \in All(jb),
         NEW counts2, CountsOne(counts, counts2, s.resv), NEW new, All(new) \subseteq Send, Apart(new), new.now = jb.now,
         All(jb) \subseteq Send, All(jb) = jb.running \cup ToSet(jb.queue), s \in jb.running,
         NEW t, All(new) \subseteq (All(jb) \ {s}) \cup {t}, KeyOf(t) = KeyOf(s), ~Pending(t)
  PROVE  TickOK(new, now, visits, counts2)
<1>1. t.to = s.to /\ t.event = s.event /\ t.resv = s.resv BY DEF KeyOf
<1>2. \A u \in All(jb) \ {s} : u.resv # s.resv
  <2>1. Apart(jb) BY DEF TickOK
  <2> QED BY <2>1 DEF Apart, ToSet
<1>3. \A u \in All(new) : u \in All(jb) \ {s} \/ u = t OBVIOUS
<1>4. \A u \in All(jb) : u.resv \in Resv BY DEF Send
<1>5. \A u \in All(jb) \ {s} : counts2[u.resv] = counts[u.resv] BY <1>2, <1>4 DEF CountsOne
<1>6. ASSUME NEW u \in All(new)
      PROVE  /\ u.event = "REMINDER" /\ u.to = "customer" /\ visits[u.resv].start < jb.now + Day + Hour
             /\ Pending(u) => counts2[u.resv] = 0
  <2>1. CASE u \in All(jb) \ {s} BY <2>1, <1>5 DEF TickOK
  <2>2. CASE u = t BY <2>2, <1>1 DEF TickOK
  <2> QED BY <1>3, <2>1, <2>2
<1> QED BY <1>6 DEF TickOK

LEMMA CountedInserted ==
  ASSUME NEW rows \in SUBSET Note, NEW now \in Nat, NEW visits, NEW counts, Counted(rows, now, visits, counts),
         NEW new \in Note, new.at = now, NEW q \in Resv, IsReminder(new, q), new.to = "customer",
         visits[q].start < now + Day + Hour, counts[q] = 0,
         NEW counts2, CountsOne(counts, counts2, q)
  PROVE  Counted(rows \cup {new}, now, visits, counts2)
<1>1. counts2[q] = 1 BY DEF CountsOne
<1>2. ASSUME NEW r \in Resv
      PROVE  /\ counts2[r] \in {0, 1}
             /\ counts2[r] = 0 => \A n \in rows \cup {new} : ~IsReminder(n, r)
             /\ counts2[r] = 1 => now + Day > visits[r].start \/ \E n \in rows \cup {new} : IsReminder(n, r)
  <2>1. CASE r = q BY <1>1, <2>1
  <2>2. CASE r # q
    <3>1. counts2[r] = counts[r] BY <2>2 DEF CountsOne
    <3>2. ~IsReminder(new, r) BY <2>2 DEF IsReminder
    <3> QED BY <3>1, <3>2 DEF Counted
  <2> QED BY <2>1, <2>2
<1>3. \A n \in rows \cup {new} : n.event = "REMINDER" => n.to = "customer" /\ visits[n.resv].start < n.at + Day + Hour
  BY DEF Counted, IsReminder
<1> QED BY <1>2, <1>3 DEF Counted

(* A row of another event is no reminder. *)
LEMMA CountedOther ==
  ASSUME NEW rows, NEW now, NEW visits, NEW counts, Counted(rows, now, visits, counts), NEW new, new.event # "REMINDER"
  PROVE  Counted(rows \cup {new}, now, visits, counts)
BY DEF Counted, IsReminder

LEMMA InsertOnce ==
  ASSUME Once, Noticed', NEW j \in Jobs, NEW s \in job[j].running, InsertNote(j, s) PROVE Once'
<1>0. /\ JobsOK /\ job[j] \in JobRow /\ JobOK(job[j]) /\ s \in Send /\ job[j].kind # "idle" /\ clock \in Nat
      /\ note \in SUBSET Note /\ hist \in HistoryRow
  BY Running DEF Once, Noticed, Recorded, History
<1>1. s.pc = "insert" /\ UNCHANGED <<clock, visit>> BY DEF InsertNote
<1>2. PICK id : id = FreeNumber({n \in note : KeyOf(n) = KeyOf(s)}) OBVIOUS
<1>3. IsFiniteSet({n \in note : KeyOf(n) = KeyOf(s)}) BY FS_Subset DEF Once, Noticed, History
<1>4. id \in Nat BY <1>2, <1>3, NumberIsFree
<1>5. PICK row : row = [id |-> id, to |-> s.to, event |-> s.event, resv |-> s.resv, inApp |-> s.inApp,
                        email |-> s.email, at |-> clock, out |-> IF s.email = "SENT" THEN "sending" ELSE "-"]
  OBVIOUS
<1>6. note' = note \cup {row} BY <1>2, <1>5 DEF InsertNote
<1>7. row \in Note /\ row.at = clock /\ row.to = s.to /\ row.event = s.event /\ row.resv = s.resv
  BY <1>0, <1>4, <1>5 DEF Send, Note
<1>8. \E t, new : Moves(job[j], s, t, new) /\ ~Pending(t) /\ job' = [job EXCEPT ![j] = new]
  <2>1. CASE s.email = "SENT"
    <3>1. PICK t : t = [s EXCEPT !.pc = "mail", !.note = id] OBVIOUS
    <3>2. t \in Send /\ t.pc = "mail" /\ KeyOf(t) = KeyOf(s) BY <1>0, <1>4, <3>1 DEF Send, KeyOf
    <3>3. Goes(j, s, t) BY <1>2, <2>1, <3>1 DEF InsertNote
    <3> QED BY <1>0, <3>2, <3>3, GoesMoves DEF Pending
  <2>2. CASE s.email # "SENT"
    <3>1. PICK t : t = [s EXCEPT !.pc = "mail"] OBVIOUS
    <3>2. t.pc = "mail" /\ KeyOf(t) = KeyOf(s) BY <1>0, <3>1 DEF Send, KeyOf
    <3>3. Done(j, s) BY <2>2 DEF InsertNote
    <3> QED BY <1>0, <3>2, <3>3, DoneMoves DEF Pending
  <2> QED BY <2>1, <2>2
<1>9. PICK t, new : Moves(job[j], s, t, new) /\ ~Pending(t) /\ job' = [job EXCEPT ![j] = new] BY <1>8
<1>10. s.resv \in Resv /\ Pending(s) /\ s \in All(job[j]) BY <1>0, <1>1 DEF Send, Pending, All
<1>11. CASE s.event # "REMINDER"
  <2>1. hist' = hist BY <1>11 DEF InsertNote
  <2>2. job[j].kind # "tick" BY <1>10, <1>11 DEF Once, Scheduled, TickOK
  <2>3. Scheduled(job', clock, visit, hist.reminders) BY <1>0, <1>9, <1>10, MovesKeep DEF Once
  <2>4. \A r \in Resv : Coming(job, r) => Coming(job', r) BY <1>0, <1>9, <2>2, MovesCover
  <2>5. KeptUp(job, hist.reminders, job', hist.reminders) BY <2>4 DEF KeptUp
  <2>6. Covered(job', clock, visit, hist.reminders, hist.missed, hist.onTime) BY <2>5, CoveredOn DEF Once
  <2>7. Counted(note', clock, visit, hist.reminders) BY <1>6, <1>7, <1>11, CountedOther DEF Once
  <2>8. Recorded' BY <1>1, <2>1 DEF Once, Recorded
  <2> QED BY <1>1, <2>1, <2>3, <2>6, <2>7, <2>8, OnceNext
<1>12. CASE s.event = "REMINDER"
  <2>1. PICK c : c = [hist.reminders EXCEPT ![s.resv] = @ + 1] OBVIOUS
  <2>2. hist' = [hist EXCEPT !.reminders = c] BY <1>0, <1>12, <2>1 DEF InsertNote, HistoryRow
  <2>3. hist.reminders \in [Resv -> Nat] BY <1>0 DEF HistoryRow
  <2>4. c \in [Resv -> Nat] /\ CountsOne(hist.reminders, c, s.resv) BY <1>10, <2>1, <2>3 DEF CountsOne
  <2>5. /\ hist' \in HistoryRow /\ hist'.reminders = c /\ hist'.missed = hist.missed /\ hist'.onTime = hist.onTime
    BY <1>0, <2>2, <2>4 DEF HistoryRow
  <2>6. Recorded' BY <1>1, <2>5 DEF Once, Recorded
  <2>7. job[j].kind = "tick"
    <3>1. job[j].kind # "event" BY <1>10, <1>12 DEF Once, Scheduled, EventOK
    <3> QED BY <1>0, <3>1 DEF JobRow
  <2>8. TickOK(job[j], clock, visit, hist.reminders) BY <2>7 DEF Once, Scheduled
  <2>9. /\ s.to = "customer" /\ visit[s.resv].start < job[j].now + Day + Hour /\ hist.reminders[s.resv] = 0
        /\ job[j].now <= clock
    BY <1>10, <2>8 DEF TickOK
  <2>10. visit[s.resv].start < clock + Day + Hour
    <3>1. visit[s.resv].start \in Nat BY <1>10 DEF Once, Recorded, VisitRow
    <3>2. job[j].now \in Nat BY <1>0 DEF JobRow
    <3> QED BY <1>0, <2>9, <3>1, <3>2, TimeAssumption
  <2>11. IsReminder(row, s.resv) BY <1>7, <1>12 DEF IsReminder
  <2>12. Counted(note', clock, visit, c)
    <3>1. row.to = "customer" BY <1>7, <2>9
    <3> QED BY <1>0, <1>6, <1>7, <1>10, <2>4, <2>9, <2>10, <2>11, <3>1, CountedInserted DEF Once
  <2>13. c[s.resv] = 1 BY <2>4, <2>9 DEF CountsOne
  <2>14. KeptUp(job, hist.reminders, job', c)
    <3>1. \A r \in Resv \ {s.resv} : Coming(job, r) => Coming(job', r) BY <1>0, <1>9, MovesCover
    <3>2. \A r \in Resv \ {s.resv} : c[r] = hist.reminders[r] BY <2>4 DEF CountsOne
    <3> QED BY <2>13, <3>1, <3>2 DEF KeptUp
  <2>15. Covered(job', clock, visit, c, hist.missed, hist.onTime) BY <2>14, CoveredOn DEF Once
  <2>16. job'[j] = new /\ \A k \in Jobs \ {j} : job'[k] = job[k] BY <1>0, <1>9 DEF JobsOK
  <2>17. new.kind = "tick" => TickOK(new, clock, visit, c)
    <3> SUFFICES ASSUME new.kind = "tick" PROVE TickOK(new, clock, visit, c) OBVIOUS
    <3>1. Apart(job[j]) BY <2>8 DEF TickOK
    <3>2. /\ new \in JobRow /\ new.now = job[j].now /\ Apart(new) /\ All(new) \subseteq (All(job[j]) \ {s}) \cup {t}
          /\ KeyOf(t) = KeyOf(s)
      BY <1>9, <3>1 DEF Moves, JobOK
    <3>3. All(job[j]) \subseteq Send /\ All(new) \subseteq Send BY <1>0, <3>2 DEF JobRow, All, ToSet
    <3>4. All(job[j]) = job[j].running \cup ToSet(job[j].queue) BY DEF All
    <3> QED BY <1>9, <1>10, <2>4, <2>8, <3>2, <3>3, <3>4, TickCounts
  <2>18. new.kind # "event" BY <1>9, <2>7 DEF Moves
  <2>19. ASSUME NEW k \in Jobs \ {j}
         PROVE  job'[k] = job[k] /\ job[k].kind # "tick" /\ (job[k].kind = "event" => EventOK(job[k]))
    BY <2>7, <2>16 DEF Once, Scheduled
  <2>20. Scheduled(job', clock, visit, c) BY <2>16, <2>17, <2>18, <2>19 DEF Scheduled
  <2> QED BY <1>1, <2>5, <2>6, <2>12, <2>15, <2>20, OnceNext
<1> QED BY <1>11, <1>12

(* A list that is not cut short has everything that is due. *)
LEMMA AllTaken ==
  ASSUME Cardinality(Resv) <= ListLimit, NEW due \in SetToSeqs(Due(clock)), NEW r \in Due(clock)
  PROVE  \E i \in DOMAIN RemindersOf(Taken(due)) : RemindersOf(Taken(due))[i].resv = r
<1>1. PICK taken : taken = Taken(due) OBVIOUS
<1>2. PICK D, m : D = Due(clock) /\ m = Cardinality(D) OBVIOUS
<1>3. /\ IsFiniteSet(D) /\ m \in Nat /\ m <= ListLimit /\ ListLimit \in Nat
  <2>1. D \subseteq Resv BY <1>2 DEF Due
  <2>2. IsFiniteSet(Resv) /\ ListLimit \in Nat BY SizesAssumption
  <2>3. IsFiniteSet(D) /\ Cardinality(D) <= Cardinality(Resv) BY <2>1, <2>2, FS_Subset
  <2>4. Cardinality(D) \in Nat /\ Cardinality(Resv) \in Nat BY <2>2, <2>3, FS_CardinalityType
  <2> QED BY <1>2, <2>2, <2>3, <2>4
<1>4. PICK n \in Nat : /\ n \in {ListLimit, m} /\ n <= m /\ DOMAIN taken = 1 .. n
                       /\ \A i \in 1 .. n : taken[i] = due[i]
  BY <1>1, <1>2, TickTakes
<1>5. n = m BY <1>3, <1>4
<1>6. due \in [1 .. m -> D] /\ \A i, k \in 1 .. m : i # k => due[i] # due[k] BY <1>2 DEF SetToSeqs
<1>7. due \in Injection(1 .. m, D)
  <2> HIDE DEF Due
  <2> QED BY <1>6 DEF Injection, IsInjective
<1>8. Cardinality(1 .. m) = m
  <2>1. Cardinality(1 .. m) = IF 1 > m THEN 0 ELSE m - 1 + 1 BY <1>3, FS_Interval
  <2> QED BY <1>3, <2>1
<1>9. due \in Surjection(1 .. m, D) BY <1>2, <1>3, <1>7, <1>8, FS_Injection
<1>10. PICK i \in 1 .. m : due[i] = r BY <1>2, <1>9 DEF Surjection
<1>11. RemindersOf(taken) = [l \in 1 .. n |-> NewSend("customer", "REMINDER", taken[l])] BY <1>4 DEF RemindersOf
<1>12. DOMAIN RemindersOf(taken) = 1 .. n /\ RemindersOf(taken)[i].resv = taken[i]
  BY <1>5, <1>10, <1>11 DEF NewSend
<1> QED BY <1>1, <1>4, <1>5, <1>10, <1>12

LEMMA TickOnce ==
  ASSUME ~Overlap, Cardinality(Resv) <= ListLimit, Once, Noticed', NEW j \in Jobs, Tick(j) PROVE Once'
<1>0. /\ JobsOK /\ clock \in Nat /\ hist \in HistoryRow /\ visit \in [Resv -> VisitRow]
  BY DEF Once, Noticed, Recorded
<1>1. job[j].kind = "idle" /\ (\A k \in Jobs : job[k].kind # "tick") /\ UNCHANGED <<note, clock, visit>> BY DEF Tick
<1>2. PICK due \in SetToSeqs(Due(clock)) :
        job' = [job EXCEPT ![j] = Begin("tick", clock, RemindersOf(Taken(due)))]
  BY DEF Tick
<1>3. PICK sends : sends = RemindersOf(Taken(due)) OBVIOUS
<1>4. PICK new : new = Begin("tick", clock, sends) OBVIOUS
<1>5. job' = [job EXCEPT ![j] = new] BY <1>2, <1>3, <1>4
<1>6. /\ sends \in Seq(Send)
      /\ \A i \in DOMAIN sends : /\ sends[i].pc = "decide" /\ sends[i].event = "REMINDER"
                                 /\ sends[i].to = "customer" /\ sends[i].resv \in Due(clock)
      /\ \A i, k \in DOMAIN sends : sends[i].resv = sends[k].resv => i = k
  BY <1>3, TickSends
<1>7. /\ JobOK(new) /\ All(new) = ToSet(sends) /\ new.kind \in {"tick", "idle"} /\ (new.kind # "idle" => new.now = clock)
      /\ (new.kind = "idle" => ToSet(sends) = {}) /\ Apart(new)
  BY <1>0, <1>4, <1>6, Begun
<1>8. job'[j] = new /\ \A k \in Jobs \ {j} : job'[k] = job[k] BY <1>0, <1>5 DEF JobsOK
<1>9. \A n \in note : n.event = "REMINDER" => n.to = "customer" BY DEF Once, Counted
<1>10. ASSUME NEW r \in Resv, clock + Day <= visit[r].start, ~Reminded(r) PROVE hist.reminders[r] = 0
  <2>1. visit[r].start \in Nat BY <1>0 DEF VisitRow
  <2>2. ~(clock + Day > visit[r].start) BY <1>0, <1>10, <2>1, TimeAssumption
  <2>3. ~\E n \in note : IsReminder(n, r) BY <1>9, <1>10 DEF IsReminder, Reminded
  <2> QED BY <2>2, <2>3 DEF Once, Counted
<1>11. ASSUME NEW r \in Resv, Reminded(r) PROVE hist.reminders[r] = 1
  <2>1. \E n \in note : IsReminder(n, r) BY <1>11 DEF IsReminder, Reminded
  <2> QED BY <2>1 DEF Once, Counted
<1>12. ASSUME new.kind = "tick" PROVE TickOK(new, clock, visit, hist.reminders)
  <2>1. new.now = clock BY <1>7, <1>12
  <2>2. ASSUME NEW s \in All(new)
        PROVE  /\ s.event = "REMINDER" /\ s.to = "customer" /\ visit[s.resv].start < clock + Day + Hour
               /\ hist.reminders[s.resv] = 0
    <3>1. s.event = "REMINDER" /\ s.to = "customer" /\ s.resv \in Due(clock) BY <1>6, <1>7 DEF ToSet
    <3>2. s.resv \in Resv /\ InWindow(visit[s.resv].start, clock) /\ ~Reminded(s.resv) BY <3>1 DEF Due
    <3> QED BY <1>10, <3>1, <3>2 DEF InWindow
  <2> QED BY <1>0, <1>7, <2>1, <2>2 DEF TickOK
<1>13. Scheduled(job', clock, visit, hist.reminders) BY <1>1, <1>7, <1>8, <1>12 DEF Once, Scheduled
<1>14. PICK on \in BOOLEAN : on = IF clock % Hour = 0 THEN TRUE ELSE hist.onTime BY <1>0 DEF HistoryRow
<1>15. PICK h : h = [hist EXCEPT !.calls = @ + 1] OBVIOUS
<1>16. h \in HistoryRow /\ h.reminders = hist.reminders /\ h.missed = hist.missed BY <1>0, <1>15 DEF HistoryRow
<1>17. hist' = [h EXCEPT !.onTime = on]
  <2>1. hist' = [hist EXCEPT !.calls = @ + 1, !.onTime = IF clock % Hour = 0 THEN TRUE ELSE @] BY DEF Tick
  <2>2. h.onTime = hist.onTime BY <1>0, <1>15 DEF HistoryRow
  <2> QED BY <1>14, <1>15, <2>1, <2>2
<1>18. hist' \in HistoryRow /\ hist'.reminders = hist.reminders /\ hist'.missed = hist.missed /\ hist'.onTime = on
  BY <1>16, <1>17 DEF HistoryRow
<1>19. Recorded' BY <1>0, <1>1, <1>18 DEF Recorded
<1>20. ASSUME NEW r \in Resv \ WalkIns, NEW hr \in Nat, Meant(visit[r], hist.missed, on, clock, hr)
       PROVE  hist.reminders[r] = 1 \/ Coming(job', r)
  <2>1. CASE hr < clock
    <3>1. Meant(visit[r], hist.missed, hist.onTime, clock, hr) BY <1>20, <2>1 DEF Meant
    <3>2. ~Coming(job, r) BY <1>1 DEF Coming
    <3> QED BY <3>1, <3>2 DEF Once, Covered
  <2>2. CASE hr = clock /\ Reminded(r) BY <1>11, <2>2
  <2>3. CASE hr = clock /\ ~Reminded(r)
    <3>1. r \in Due(clock) BY <1>20, <2>3 DEF Due, Meant
    <3>2. PICK i \in DOMAIN sends : sends[i].resv = r BY <1>3, <3>1, AllTaken
    <3>3. sends[i] \in All(new) /\ Pending(sends[i]) BY <1>6, <1>7, <3>2 DEF ToSet, Pending
    <3>4. new.kind = "tick" BY <1>7, <3>3
    <3> QED BY <1>8, <3>2, <3>3, <3>4 DEF Coming
  <2> QED BY <1>20, <2>1, <2>2, <2>3 DEF Meant
<1>21. Covered(job', clock, visit, hist.reminders, hist.missed, on) BY <1>20 DEF Covered
<1> QED BY <1>1, <1>13, <1>18, <1>19, <1>21, OnceNext DEF Once

LEMMA OnceStart == VisitsInit => Once
<1> SUFFICES ASSUME VisitsInit PROVE Once OBVIOUS
<1>1. Noticed /\ note = {} /\ clock = FirstTime /\ FirstTime \in Nat BY NoticesStart, TimeAssumption DEF VisitsInit
<1>2. Recorded
  <2>0. Starts \subseteq Nat BY TimeAssumption
  <2>1. ASSUME NEW v \in [status : {"NONE", "CONFIRMED"}, start : Starts, confirmed : {0}] PROVE v \in VisitRow
    <3>1. v = [status |-> v.status, start |-> v.start, confirmed |-> v.confirmed] OBVIOUS
    <3>2. v.status \in {"NONE", "CONFIRMED"} /\ v.start \in Starts /\ v.confirmed = 0 OBVIOUS
    <3>3. v.start \in Nat /\ v.confirmed \in Nat
      <4> HIDE DEF VisitRow
      <4>1. PICK a, b : a = v.start /\ b = v.confirmed OBVIOUS
      <4>2. a \in Nat /\ b = 0 BY <2>0, <3>2, <4>1
      <4> QED BY <4>1, <4>2
    <3> QED BY <3>1, <3>2, <3>3 DEF VisitRow
  <2>a. visit \in [Resv -> VisitRow]
    <3>1. \A r \in Resv : visit[r] \in VisitRow BY <2>1 DEF VisitsInit
    <3> QED BY <3>1 DEF VisitsInit
  <2>2. hist \in HistoryRow BY DEF VisitsInit, HistoryRow
  <2> QED BY <2>a, <2>2 DEF Recorded
<1>3. \A r \in Resv : hist.reminders[r] = 0 BY DEF VisitsInit
<1>4. hist.onTime = FALSE BY DEF VisitsInit
<1>5. Scheduled(job, clock, visit, hist.reminders) BY DEF VisitsInit, Idle, Scheduled
<1>6. Counted(note, clock, visit, hist.reminders) BY <1>1, <1>3 DEF Counted
<1>7. Covered(job, clock, visit, hist.reminders, hist.missed, hist.onTime) BY <1>1, <1>4 DEF Covered, Meant
<1> QED BY <1>1, <1>2, <1>5, <1>6, <1>7 DEF Once

LEMMA OnceStep ==
  ASSUME ~Overlap, Cardinality(Resv) <= ListLimit, Once, [VisitsNext]_visitVars PROVE Once'
<1>0. Noticed' BY NoticesStep DEF Once
<1>h. hist \in HistoryRow BY DEF Once, Recorded
<1>1. ASSUME NEW j \in Jobs, NEW r \in Resv, NEW e \in TransitionsTold, Transition(j, r, e) PROVE Once'
  BY <1>0, <1>1, TransitionOnce
<1>2. ASSUME NEW j \in Jobs, Tick(j) PROVE Once' BY <1>0, <1>2, TickOnce
<1>3. ASSUME NEW j \in Jobs, Notify(j) PROVE Once'
  BY <1>0, <1>3, DecideOnce, InsertOnce, SettlingOnce DEF Notify
<1>4. CASE Purge BY <1>0, <1>4, PurgeOnce
<1>5. CASE Advance BY <1>0, <1>5, AdvanceOnce
<1>6. CASE Crash BY <1>0, <1>6, CrashOnce
<1>7. CASE VisitsOver \/ UNCHANGED visitVars BY <1>0, <1>h, <1>7, OnceStill DEF VisitsOver, visitVars
<1>8. ASSUME NEW w \in Writers, NEW r \in Resv, CreateCheck(w, r) \/ ReplyCheck(w, r) PROVE Once'
  <2>1. UNCHANGED <<note, job, clock, visit>> /\ hist' = [hist EXCEPT !.calls = @ + 1]
    BY <1>8 DEF CreateCheck, ReplyCheck, Called
  <2>2. hist' \in HistoryRow /\ UNCHANGED <<hist.reminders, hist.missed, hist.onTime>> BY <1>h, <2>1 DEF HistoryRow
  <2> QED BY <1>0, <2>1, <2>2, OnceStill
<1>9. ASSUME NEW w \in Writers, CreateInsert(w) \/ ReplyWrite(w) PROVE Once'
  <2>1. UNCHANGED <<note, job, clock, visit>> /\ (hist' = hist \/ hist' = [hist EXCEPT !.broken = TRUE])
    BY <1>9 DEF CreateInsert, ReplyWrite
  <2>2. hist' \in HistoryRow /\ UNCHANGED <<hist.reminders, hist.missed, hist.onTime>> BY <1>h, <2>1 DEF HistoryRow
  <2> QED BY <1>0, <2>1, <2>2, OnceStill
<1>10. ASSUME NEW r \in Resv, UpdateReview(r) PROVE Once'
  <2>1. PICK e : e = [hist.edits EXCEPT ![r] = @ + 1] OBVIOUS
  <2>2. e \in [Resv -> Nat] BY <1>h, <2>1 DEF HistoryRow
  <2>3. UNCHANGED <<note, job, clock, visit>> /\ hist' = [hist EXCEPT !.edits = e]
    BY <1>h, <1>10, <2>1 DEF UpdateReview, HistoryRow
  <2>4. hist' \in HistoryRow /\ UNCHANGED <<hist.reminders, hist.missed, hist.onTime>> BY <1>h, <2>2, <2>3 DEF HistoryRow
  <2> QED BY <1>0, <2>3, <2>4, OnceStill
<1>11. ASSUME NEW r \in Resv, DeleteReview(r) \/ ReportReview(r) \/ DeleteReply(r) PROVE Once'
  BY <1>0, <1>h, <1>11, OnceStill DEF DeleteReview, ReportReview, DeleteReply
<1>12. ASSUME NEW r \in Resv, Complete(r) PROVE Once' BY <1>0, <1>12, CompleteOnce
<1> QED BY <1>1, <1>2, <1>3, <1>4, <1>5, <1>6, <1>7, <1>8, <1>9, <1>10, <1>11, <1>12 DEF VisitsNext

(* Division with a remainder. *)
LEMMA Remainder == ASSUME NEW h \in Nat \ {0}, NEW x \in Nat PROVE x % h \in 0 .. h - 1 /\ x \div h \in Int
BY SMT

LEMMA Divided == ASSUME NEW h \in Nat \ {0}, NEW x \in Nat PROVE x = h * (x \div h) + (x % h)
BY SMT

LEMMA Multiple == ASSUME NEW h \in Nat \ {0}, NEW x \in Int, NEW q \in Int, x = h * q PROVE x % h = 0
BY SMT

(* A moment is in the window of a full hour. *)
LEMMA HourOf ==
  ASSUME NEW h \in Nat \ {0}, NEW x \in Nat, h <= x
  PROVE  \E hr \in Nat : hr % h = 0 /\ h <= hr /\ hr <= x /\ x < hr + h
<1>1. PICK q, m : q = x \div h /\ m = x % h OBVIOUS
<1>2. q \in Int /\ m \in 0 .. h - 1 /\ x = h * q + m BY <1>1, Remainder, Divided
<1>3. PICK hr \in Int : hr = x - m BY <1>2
<1>4. hr <= x /\ x < hr + h /\ hr > 0 BY <1>2, <1>3
<1>5. hr = h * q BY <1>2, <1>3
<1>6. h <= hr
  <2>1. CASE q <= 0
    <3>1. h * q <= 0 BY <1>2, <2>1, Z3
    <3> QED BY <1>4, <1>5, <3>1
  <2>2. CASE q >= 1
    <3>1. h * q >= h BY <1>2, <2>2, Z3
    <3> QED BY <1>5, <3>1
  <2> QED BY <1>2, <2>1, <2>2
<1>7. hr % h = 0 BY <1>2, <1>3, <1>5, Multiple
<1>8. hr \in Nat BY <1>4
<1> QED BY <1>4, <1>6, <1>7, <1>8

(* Where ticks run one at a time and take all that is due, and time is counted from no later    *)
(* than the first full hour, no visit is reminded of twice, and one confirmed before its hour   *)
(* came is reminded of unless an hour was left out: after purges, crashes and refused mails too. *)
THEOREM RemindersOnce ==
  ASSUME ~Overlap, Cardinality(Resv) <= ListLimit, FirstTime <= Hour
  PROVE  VisitsSpec => []RemindedOnce
<1>1. Once => RemindedOnce
  <2> SUFFICES ASSUME Once PROVE RemindedOnce OBVIOUS
  <2>0. Day \in Nat /\ Hour \in Nat \ {0} /\ FirstTime \in Nat /\ clock \in Nat /\ visit \in [Resv -> VisitRow]
    BY TimeAssumption DEF Once, Noticed, Recorded
  <2>1. \A r \in Resv : hist.reminders[r] <= 1 BY DEF Once, Counted
  <2>2. ASSUME NEW r \in Resv \ WalkIns, visit[r].status = "CONFIRMED", ~hist.missed,
               visit[r].confirmed + Day + Hour <= visit[r].start, visit[r].start <= clock + Day - 1
        PROVE  hist.reminders[r] = 1 \/ \E j \in Jobs : job[j].kind = "tick"
    <3>1. visit[r].start \in Nat /\ visit[r].confirmed \in Nat BY <2>0 DEF VisitRow
    <3>2. PICK x \in Nat : x = visit[r].start - Day /\ Hour <= x /\ x < clock BY <2>0, <2>2, <3>1
    <3>3. PICK hr \in Nat : hr % Hour = 0 /\ Hour <= hr /\ hr <= x /\ x < hr + Hour BY <2>0, <3>2, HourOf
    <3>4. InWindow(visit[r].start, hr) BY <2>0, <3>1, <3>2, <3>3 DEF InWindow
    <3>5. FirstTime <= hr /\ hr < clock BY <2>0, <3>2, <3>3
    <3>6. Meant(visit[r], hist.missed, hist.onTime, clock, hr) BY <2>2, <3>3, <3>4, <3>5 DEF Meant
    <3> QED BY <3>6 DEF Once, Covered, Coming
  <2> QED BY <2>1, <2>2 DEF RemindedOnce
<1>2. Once /\ [VisitsNext]_visitVars => Once' BY OnceStep
<1> QED BY <1>1, <1>2, OnceStart, PTL DEF VisitsSpec
================================================================================
