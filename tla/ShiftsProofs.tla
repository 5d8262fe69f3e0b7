---------------------------- MODULE ShiftsProofs ----------------------------
(***************************************************************************)
(* Shifts, for every number of people, requests and reservations: the type *)
(* of every variable; an approval moves what both sides agreed to and      *)
(* nothing else does; and, where reservations lie within their day, no     *)
(* approval sells an instant of a resource beyond its capacity.            *)
(***************************************************************************)
EXTENDS Shifts, RulesProofs

-----------------------------------------------------------------------------
(* Types. *)

(* A record with the fields of a job, of an exception. *)
JobFields == {"swap", "from", "to", "confirm", "shape", "snapshot", "at", "moves", "xs", "row", "x"}
JobRecord(j) == j = [f \in JobFields |-> j[f]]

ExceptionFields == {"id", "rsrc", "day", "kind", "start", "end", "status", "decided"}
Stated(x) ==
  /\ x = [f \in ExceptionFields |-> x[f]]
  /\ x.rsrc \in Staff /\ x.day \in Days /\ x.status \in {"PENDING", "APPROVED", "REJECTED"}

Locked == {"lock", "apply", "moves"}

(* What a handler knows at each statement. *)
Suits(p, j) ==
  /\ JobRecord(j)
  /\ p = "insert" => j.shape \in Shape /\ j.snapshot \in SUBSET Ids /\ j.at \in Nat
  /\ p \in {"set", "preview"} \cup Locked => j.swap \in SwapIds /\ swaps[j.swap] \in Swap
  /\ p = "set" => j.to \in SwapStatuses
  /\ p = "enter" => Stated(j.x)
  /\ p = "decide" => j.to \in {"APPROVED", "REJECTED"}
  /\ p = "book" => j.row \in Row /\ j.row.status = "CONFIRMED"
  /\ p = "moves" => /\ \A x \in j.xs : Stated(x) /\ x.id \in SwapIds
                    /\ \A m \in j.moves : m.id \in Ids /\ m.from \in Staff /\ m.to \in Staff

Knows(s) ==
  /\ Suits(pc[s], job[s])
  /\ pc[s] # "moves" => moved[s] = NoRows
  /\ pc[s] \notin Locked => held[s] = {}
  /\ pc[s] = "lock" => ~(Keys(s) \subseteq held[s])
  /\ pc[s] \in {"apply", "moves"} => Keys(s) \subseteq held[s]
  /\ s \in Crons => pc[s] = "idle"

Typing ==
  /\ TypeOK
  /\ job = [s \in Sessions |-> job[s]]
  /\ \A x \in exceptions : Stated(x)
  /\ \A s \in Sessions : Knows(s)

(* The other sessions are where they were. *)
OthersStill(s) ==
  \A t \in Sessions \ {s} :
    pc'[t] = pc[t] /\ job'[t] = job[t] /\ held'[t] = held[t] /\ moved'[t] = moved[t]

(* A request, once there, stays what was asked for. *)
SwapsStay ==
  \A i \in SwapIds : swaps[i] \in Swap =>
    swaps'[i] \in Swap /\ swaps'[i].shape = swaps[i].shape
    /\ swaps'[i].snapshot = swaps[i].snapshot

(* What another session knows, it goes on knowing. *)
LEMMA OthersKnow ==
  ASSUME Typing, NEW s, OthersStill(s), SwapsStay, NEW t \in Sessions, t # s
  PROVE  Knows(t)'
<1>1. pc'[t] = pc[t] /\ job'[t] = job[t] /\ held'[t] = held[t] /\ moved'[t] = moved[t]
  BY DEF OthersStill
<1>2. Knows(t) BY DEF Typing
<1>3. \A i \in SwapIds : swaps[i] \in Swap =>
         swaps'[i] \in Swap /\ swaps'[i].shape = swaps[i].shape
  BY DEF SwapsStay
<1>4. Suits(pc[t], job[t])' BY <1>1, <1>2, <1>3 DEF Knows, Suits
<1>5. pc[t] \in Locked => Keys(t)' = Keys(t) BY <1>1, <1>2, <1>3 DEF Knows, Suits, Keys
<1> QED BY <1>1, <1>2, <1>4, <1>5 DEF Knows, Locked

(* The end of a handler. *)
LEMMA AnswerEnds ==
  ASSUME Typing, NEW s \in Sessions, Answer(s)
  PROVE  /\ OthersStill(s) /\ Knows(s)' /\ pc'[s] = "idle" /\ held'[s] = {} /\ moved'[s] = NoRows
         /\ pc' \in [Sessions -> {"idle", "insert", "set", "preview", "lock", "apply", "moves",
                                  "enter", "decide", "delete", "book"}]
         /\ held' \in [Sessions -> SUBSET Staff]
         /\ moved' \in [Sessions -> [Ids -> Row \cup {NoRow}]]
         /\ job' = [t \in Sessions |-> job'[t]]
<1>1. /\ pc' = [pc EXCEPT ![s] = "idle"] /\ job' = [job EXCEPT ![s] = NoJob]
      /\ held' = [held EXCEPT ![s] = {}] /\ moved' = [moved EXCEPT ![s] = NoRows]
  BY DEF Answer
<1>2. pc'[s] = "idle" /\ job'[s] = NoJob /\ held'[s] = {} /\ moved'[s] = NoRows
  BY <1>1 DEF Typing, TypeOK
<1>3. OthersStill(s) BY <1>1 DEF Typing, TypeOK, OthersStill
<1>4. JobRecord(NoJob) BY DEF JobRecord, NoJob, JobFields
<1>5. Knows(s)' BY <1>2, <1>4 DEF Knows, Suits, Locked
<1>6. NoRows \in [Ids -> Row \cup {NoRow}] BY DEF NoRows
<1>7. pc' \in [Sessions -> {"idle", "insert", "set", "preview", "lock", "apply", "moves",
                            "enter", "decide", "delete", "book"}]
  BY <1>1 DEF Typing, TypeOK
<1>8. held' \in [Sessions -> SUBSET Staff] BY <1>1 DEF Typing, TypeOK
<1>9. moved' \in [Sessions -> [Ids -> Row \cup {NoRow}]] BY <1>1, <1>6 DEF Typing, TypeOK
<1>10. job' = [t \in Sessions |-> job'[t]] BY <1>1 DEF Typing
<1> QED BY <1>2, <1>3, <1>5, <1>7, <1>8, <1>9, <1>10

(* The beginning of one. *)
LEMMA StartTypes ==
  ASSUME Typing, NEW s \in Workers, NEW next, NEW what, Start(s, next, what), Suits(next, what),
         next \in {"insert", "set", "preview", "enter", "decide", "delete", "book"}
  PROVE  Typing'
<1>1. /\ pc[s] = "idle" /\ pc' = [pc EXCEPT ![s] = next] /\ job' = [job EXCEPT ![s] = what]
      /\ UNCHANGED <<now, rows, swaps, exceptions, held, moved, due>>
  BY DEF Start
<1>2. s \in Sessions /\ s \notin Crons BY ShiftAssumption DEF Sessions
<1>3. TypeOK' BY <1>1 DEF Typing, TypeOK
<1>4. job' = [t \in Sessions |-> job'[t]] BY <1>1 DEF Typing
<1>5. \A x \in exceptions' : Stated(x) BY <1>1 DEF Typing
<1>6. OthersStill(s) BY <1>1 DEF Typing, TypeOK, OthersStill
<1>7. SwapsStay BY <1>1 DEF SwapsStay
<1>8. pc'[s] = next /\ job'[s] = what /\ moved'[s] = moved[s] /\ held'[s] = held[s]
  BY <1>1, <1>2 DEF Typing, TypeOK
<1>9. moved[s] = NoRows /\ held[s] = {} BY <1>1, <1>2 DEF Typing, Knows, Locked
<1>10. Suits(next, what)' BY <1>1 DEF Suits
<1>11. Knows(s)' BY <1>2, <1>8, <1>9, <1>10 DEF Knows
<1>12. \A t \in Sessions : Knows(t)' BY <1>6, <1>7, <1>11, OthersKnow
<1> QED BY <1>3, <1>4, <1>5, <1>12 DEF Typing

(* What a handler leaves behind. *)
LEMMA EndTypes ==
  ASSUME Typing, NEW s \in Sessions, Answer(s), SwapsStay,
         now' \in 0..MaxTime, rows' \in [Ids -> Row \cup {NoRow}],
         swaps' \in [SwapIds -> Swap \cup {NoSwap}], due' \in [Crons -> SUBSET SwapIds],
         \A x \in exceptions' : Stated(x) /\ x.id \in SwapIds \cup XIds
  PROVE  Typing'
<1>1. /\ OthersStill(s) /\ Knows(s)'
      /\ pc' \in [Sessions -> {"idle", "insert", "set", "preview", "lock", "apply", "moves",
                               "enter", "decide", "delete", "book"}]
      /\ held' \in [Sessions -> SUBSET Staff]
      /\ moved' \in [Sessions -> [Ids -> Row \cup {NoRow}]]
      /\ job' = [t \in Sessions |-> job'[t]]
  BY AnswerEnds
<1>2. TypeOK' BY <1>1 DEF TypeOK, Stated
<1>3. \A t \in Sessions : Knows(t)' BY <1>1, OthersKnow
<1> QED BY <1>1, <1>2, <1>3 DEF Typing

-----------------------------------------------------------------------------
(* Requests. *)

(* What a client may ask for is a shape. *)
LEMMA ShapesTyped == \A r \in Staff : Shapes(r) \subseteq Shape
<1> SUFFICES ASSUME NEW r \in Staff, NEW sh \in Shapes(r) PROVE sh \in Shape OBVIOUS
<1>1. sh \in [exchange : BOOLEAN, requester : {r}, target : Staff \ {r}, day : Days,
              targetDay : Days \cup {None}, moveRequester : Answers,
              moveTarget : Answers \cup {FALSE}]
  BY DEF Shapes
<1>2. sh.exchange => sh.targetDay # None BY DEF Shapes
<1>3. Answers \subseteq BOOLEAN BY ShiftAssumption
<1>4. sh \in [exchange : BOOLEAN, requester : Staff, target : Staff, day : Days,
              targetDay : Days \cup {None}, moveRequester : BOOLEAN, moveTarget : BOOLEAN]
  BY <1>1, <1>3
<1>5. sh.requester # sh.target BY <1>1
<1> QED BY <1>2, <1>4, <1>5 DEF Shape

(* The reservations of a shift are reservations. *)
LEMMA ShiftIds == ASSUME Typing, NEW sh PROVE CurrentIds(sh) \subseteq Ids
<1>1. DOMAIN rows = Ids BY DEF Typing, TypeOK
<1>2. \A r, d : OnShift(r, d) \subseteq Ids BY <1>1 DEF OnShift, OccupyingOn
<1> QED BY <1>2 DEF CurrentIds

(* So is an exception for a person and a day. *)
LEMMA ExceptionStated ==
  ASSUME NEW id, NEW r \in Staff, NEW d \in Days, NEW kind, NEW a, NEW b,
         NEW status \in {"PENDING", "APPROVED", "REJECTED"}
  PROVE  /\ Stated(Exception(id, r, d, kind, a, b, status))
         /\ Exception(id, r, d, kind, a, b, status).id = id
BY DEF Exception, Stated, ExceptionFields

(* A request that is there has its fields. *)
LEMMA SwapTyped ==
  ASSUME Typing, NEW i \in SwapIds, swaps[i].status # "NONE" PROVE swaps[i] \in Swap
BY DEF Typing, TypeOK, NoSwap

(* Each entry point asks with what its handler needs. *)
LEMMA ArriveTypes == ASSUME Typing, NEW s \in Workers, Arrive(s) PROVE Typing'
<1>1. JobRecord(NoJob) BY DEF JobRecord, NoJob, JobFields
<1>2. now \in Nat
  <2>1. now \in 0..MaxTime /\ MaxTime \in Nat BY ShiftAssumption DEF Typing, TypeOK
  <2> QED BY <2>1
<1>3. CASE RequestSwap(s)
  <2>1. PICK a, sh :
          /\ a \in Actors /\ sh \in Shapes(a.mine) /\ a.mine # None
          /\ Start(s, "insert", [NoJob EXCEPT !.shape = sh, !.at = now,
                                              !.snapshot = CurrentIds(sh)])
    BY <1>3, Zenon DEF RequestSwap
  <2> DEFINE what == [NoJob EXCEPT !.shape = sh, !.at = now, !.snapshot = CurrentIds(sh)]
  <2>2. a.mine \in Staff BY <2>1, ShiftAssumption DEF Actors, Owner, Manager
  <2>3. sh \in Shape BY <2>1, <2>2, ShapesTyped, Zenon
  <2>4. CurrentIds(sh) \in SUBSET Ids BY ShiftIds
  <2>5. what.shape = sh /\ what.at = now /\ what.snapshot = CurrentIds(sh) /\ JobRecord(what)
    BY <1>1 DEF JobRecord, JobFields
  <2> HIDE DEF what
  <2>6. Suits("insert", what) BY <2>3, <2>4, <2>5, <1>2 DEF Suits, Locked
  <2> QED BY <2>1, <2>6, StartTypes DEF what
<1>4. CASE ActOnSwap(s)
  <2>1. PICK i \in SwapIds, a \in Actors, confirm \in BOOLEAN :
          /\ swaps[i].status # "NONE"
          /\ \E rule \in {r \in RulesFor(swaps[i], a) : r.action \in Asked} :
               Start(s, IF rule.action = "APPROVE" THEN "preview" ELSE "set",
                     [NoJob EXCEPT !.swap = i, !.from = rule.from, !.to = rule.to,
                                   !.confirm = confirm])
    BY <1>4, Zenon DEF ActOnSwap
  <2>2. PICK rule \in RulesFor(swaps[i], a) :
               Start(s, IF rule.action = "APPROVE" THEN "preview" ELSE "set",
                     [NoJob EXCEPT !.swap = i, !.from = rule.from, !.to = rule.to,
                                   !.confirm = confirm])
    BY <2>1
  <2> DEFINE what == [NoJob EXCEPT !.swap = i, !.from = rule.from, !.to = rule.to,
                                   !.confirm = confirm]
             next == IF rule.action = "APPROVE" THEN "preview" ELSE "set"
  <2>3. rule.to \in SwapStatuses
    <3>1. rule \in SWAP_RULES BY DEF RulesFor
    <3> QED BY <3>1 DEF SWAP_RULES, SwapRule, SwapStatuses
  <2>4. swaps[i] \in Swap BY <2>1, SwapTyped
  <2>5. what.swap = i /\ what.to = rule.to /\ JobRecord(what) BY <1>1 DEF JobRecord, JobFields
  <2>6. next \in {"preview", "set"} /\ Start(s, next, what) BY <2>2
  <2> HIDE DEF what, next
  <2>7. Suits(next, what) BY <2>3, <2>4, <2>5, <2>6 DEF Suits, Locked
  <2> QED BY <2>6, <2>7, StartTypes
<1>5. CASE RequestException(s)
  <2>1. PICK r, d, w, kind, leave :
          /\ r \in Staff /\ d \in Days /\ leave \in BOOLEAN
          /\ Start(s, "enter", [NoJob EXCEPT !.x = Entered(r, d, kind, w, leave)])
    BY <1>5, ZenonT(30) DEF RequestException
  <2> DEFINE x == Entered(r, d, kind, w, leave)
             what == [NoJob EXCEPT !.x = x]
  <2>2. Stated(x)
    <3>1. (IF leave THEN "PENDING" ELSE "APPROVED") \in {"PENDING", "APPROVED", "REJECTED"}
      OBVIOUS
    <3> QED BY <2>1, <3>1, ExceptionStated, Zenon DEF Entered
  <2> HIDE DEF x
  <2>3. what.x = x /\ JobRecord(what) BY <1>1 DEF JobRecord, JobFields
  <2> HIDE DEF what
  <2>4. Suits("enter", what) BY <2>2, <2>3 DEF Suits, Locked
  <2> QED BY <2>1, <2>4, StartTypes DEF what, x
<1>6. CASE RequestDecision(s)
  <2>1. PICK x \in exceptions, approve \in BOOLEAN :
          Start(s, "decide", [NoJob EXCEPT !.x = x,
                                           !.to = IF approve THEN "APPROVED" ELSE "REJECTED"])
    BY <1>6, Zenon DEF RequestDecision
  <2> DEFINE what == [NoJob EXCEPT !.x = x, !.to = IF approve THEN "APPROVED" ELSE "REJECTED"]
  <2>2. what.to \in {"APPROVED", "REJECTED"} /\ JobRecord(what) BY <1>1 DEF JobRecord, JobFields
  <2> HIDE DEF what
  <2>3. Suits("decide", what) BY <2>2 DEF Suits, Locked
  <2> QED BY <2>1, <2>3, StartTypes DEF what
<1>7. CASE RequestDelete(s)
  <2>1. PICK x \in exceptions : Start(s, "delete", [NoJob EXCEPT !.x = x])
    BY <1>7, Zenon DEF RequestDelete
  <2> DEFINE what == [NoJob EXCEPT !.x = x]
  <2>2. JobRecord(what) BY <1>1 DEF JobRecord, JobFields
  <2> HIDE DEF what
  <2>3. Suits("delete", what) BY <2>2 DEF Suits, Locked
  <2> QED BY <2>1, <2>3, StartTypes DEF what
<1>8. CASE RequestPlace(s)
  <2>1. PICK p, d, a, r, n :
          /\ p \in Products /\ d \in Days /\ a \in Starts
          /\ r \in Catalogue[p].links /\ n \in 1..Catalogue[p].perSlot
          /\ Start(s, "book", [NoJob EXCEPT !.row = NewRow(p, r, d, a, n)])
    BY <1>8, Zenon DEF RequestPlace
  <2> DEFINE row == NewRow(p, r, d, a, n)
             what == [NoJob EXCEPT !.row = row]
  <2>2. row \in Row /\ row.status = "CONFIRMED"
    <3>1. /\ r \in Staff /\ d \in Nat /\ a \in Nat /\ DayLen \in Nat /\ n \in Nat \ {0}
          /\ Catalogue[p].before \in Nat /\ Catalogue[p].after \in Nat
          /\ Catalogue[p].duration \in Nat
      <4>1. /\ Catalogue[p] \in [links : SUBSET Staff, direct : BOOLEAN, before : Nat,
                                 after : Nat, duration : Nat \ {0}, perSlot : Nat \ {0}]
            /\ r \in Catalogue[p].links /\ n \in 1..Catalogue[p].perSlot
        BY <2>1, CatalogueAssumption
      <4> QED BY <2>1, <4>1, ShiftAssumption, DayAssumption
    <3>2. d * DayLen \in Int BY <3>1
    <3> DEFINE base == d * DayLen
    <3>3. row = [status |-> "CONFIRMED", prod |-> p, rsrc |-> r, day |-> d, start |-> a,
                 end |-> a + Catalogue[p].duration, lo |-> base + a - Catalogue[p].before,
                 hi |-> base + a + Catalogue[p].duration + Catalogue[p].after,
                 party |-> n, excl |-> CapacityOf[r] = 1]
      BY DEF NewRow
    <3> HIDE DEF base, row
    <3>4. /\ a + Catalogue[p].duration \in Int /\ base + a - Catalogue[p].before \in Int
          /\ base + a + Catalogue[p].duration + Catalogue[p].after \in Int
      BY <3>1, <3>2 DEF base
    <3> QED BY <2>1, <3>1, <3>3, <3>4 DEF Row, Occupying
  <2> HIDE DEF row
  <2>3. what.row = row /\ JobRecord(what) BY <1>1 DEF JobRecord, JobFields
  <2> HIDE DEF what
  <2>4. Suits("book", what) BY <2>2, <2>3 DEF Suits, Locked
  <2> QED BY <2>1, <2>4, StartTypes DEF what, row
<1> QED BY <1>3, <1>4, <1>5, <1>6, <1>7, <1>8 DEF Arrive

-----------------------------------------------------------------------------
(* Statements. *)

(* A session that goes on under its transaction. *)
LEMMA GoesOnTypes ==
  ASSUME Typing, NEW s \in Workers, NEW next, Goto(s, next),
         next \in {"preview", "lock", "apply", "moves"},
         job' = [t \in Sessions |-> job'[t]],
         \A t \in Sessions \ {s} :
           job'[t] = job[t] /\ held'[t] = held[t] /\ moved'[t] = moved[t],
         Suits(next, job[s])',
         held' \in [Sessions -> SUBSET Staff], moved' \in [Sessions -> [Ids -> Row \cup {NoRow}]],
         next # "moves" => moved'[s] = NoRows,
         next = "preview" => held'[s] = {},
         next = "lock" => ~(Keys(s)' \subseteq held'[s]),
         next \in {"apply", "moves"} => Keys(s)' \subseteq held'[s],
         UNCHANGED <<now, rows, exceptions, due>>,
         swaps' \in [SwapIds -> Swap \cup {NoSwap}], SwapsStay
  PROVE  Typing'
<1>1. s \in Sessions /\ s \notin Crons BY ShiftAssumption DEF Sessions
<1>2. pc' = [pc EXCEPT ![s] = next] BY DEF Goto
<1>3. TypeOK' BY <1>2 DEF Typing, TypeOK
<1>4. pc'[s] = next /\ \A t \in Sessions \ {s} : pc'[t] = pc[t]
  BY <1>1, <1>2 DEF Typing, TypeOK
<1>5. OthersStill(s) BY <1>4 DEF OthersStill
<1>6. \A x \in exceptions' : Stated(x) BY DEF Typing
<1>7. Suits(pc[s], job[s])' BY <1>4 DEF Suits
<1>8. Knows(s)' BY <1>1, <1>4, <1>7 DEF Knows, Locked
<1>9. \A t \in Sessions : Knows(t)' BY <1>5, <1>8, OthersKnow
<1> QED BY <1>3, <1>6, <1>9 DEF Typing

(* The smaller of what is left of two keys. *)
LEMMA NextKeyIn ==
  ASSUME Typing, NEW s \in Workers, pc[s] = "lock"
  PROVE  NextKey(s) \in Keys(s) \ held[s] /\ Keys(s) \subseteq Staff
<1>1. s \in Sessions BY DEF Sessions
<1>2. swaps[job[s].swap] \in Swap /\ ~(Keys(s) \subseteq held[s])
  BY <1>1 DEF Typing, Knows, Suits, Locked
<1> DEFINE a == swaps[job[s].swap].shape.requester
           b == swaps[job[s].swap].shape.target
           S == Keys(s) \ held[s]
<1>3. a \in Staff /\ b \in Staff /\ Keys(s) = {a, b} BY <1>2 DEF Swap, Shape, Keys
<1>4. a \in Nat /\ b \in Nat BY <1>3, ShiftAssumption
<1>5. S \in SUBSET {a, b} /\ S # {} BY <1>2, <1>3
<1> HIDE DEF a, b, S
<1>6. \E x \in S : \A y \in S : x <= y
  <2>1. CASE a \in S /\ b \in S
    <3>1. a <= b \/ b <= a BY <1>4
    <3>2. a <= a /\ b <= b BY <1>4
    <3> QED BY <2>1, <3>1, <3>2, <1>5
  <2>2. CASE a \notin S
    <3>1. S = {b} BY <2>2, <1>5
    <3>2. b <= b BY <1>4
    <3> QED BY <3>1, <3>2
  <2>3. CASE b \notin S
    <3>1. S = {a} BY <2>3, <1>5
    <3>2. a <= a BY <1>4
    <3> QED BY <3>1, <3>2
  <2> QED BY <2>1, <2>2, <2>3
<1>7. Min(S) \in S BY <1>6 DEF Min
<1> QED BY <1>3, <1>7 DEF NextKey, S

(* The plan of a request speaks of its two people, its days and the *)
(* reservations there are.                                          *)
LEMMA LegsTyped ==
  ASSUME NEW sh \in Shape, NEW leg \in swapLegs(sh)
  PROVE  /\ leg.giver \in Staff /\ leg.taker \in Staff /\ leg.day \in Days
         /\ leg.giver # leg.taker /\ {leg.giver, leg.taker} = {sh.requester, sh.target}
<1>1. \/ leg = Leg(sh.day, sh.requester, sh.target, sh.moveRequester)
      \/ sh.exchange /\ leg = Leg(sh.targetDay, sh.target, sh.requester, sh.moveTarget)
  BY DEF swapLegs
<1>2. /\ sh.requester \in Staff /\ sh.target \in Staff /\ sh.requester # sh.target
      /\ sh.day \in Days /\ (sh.exchange => sh.targetDay \in Days)
  BY DEF Shape
<1> QED BY <1>1, <1>2 DEF Leg

(* Its exceptions and moves have their types. *)
LEMMA PlanTyped ==
  ASSUME Typing, NEW id \in SwapIds, NEW sh \in Shape
  PROVE  /\ \A x \in PlannedExceptions(id, sh) : Stated(x) /\ x.id \in SwapIds
         /\ \A m \in PlannedMoves(sh) : m.id \in Ids /\ m.from \in Staff /\ m.to \in Staff
<1>1. ASSUME NEW leg \in swapLegs(sh), NEW x \in LegExceptions(id, leg)
      PROVE  Stated(x) /\ x.id \in SwapIds
  <2>1. leg.giver \in Staff /\ leg.taker \in Staff /\ leg.day \in Days BY LegsTyped
  <2>2. PICK r, kind, a, b : r \in Staff /\ x = Exception(id, r, leg.day, kind, a, b, "APPROVED")
    BY <2>1, Zenon DEF LegExceptions
  <2>3. "APPROVED" \in {"PENDING", "APPROVED", "REJECTED"} OBVIOUS
  <2>4. /\ Stated(Exception(id, r, leg.day, kind, a, b, "APPROVED"))
        /\ Exception(id, r, leg.day, kind, a, b, "APPROVED").id = id
    BY <2>1, <2>2, <2>3, ExceptionStated
  <2> QED BY <2>2, <2>4
<1>2. ASSUME NEW leg \in swapLegs(sh), NEW m \in LegMoves(leg)
      PROVE  m.id \in Ids /\ m.from \in Staff /\ m.to \in Staff
  <2>1. leg.giver \in Staff /\ leg.taker \in Staff BY LegsTyped
  <2>2. OnShift(leg.giver, leg.day) \subseteq Ids
    BY DEF Typing, TypeOK, OnShift, OccupyingOn
  <2> QED BY <2>1, <2>2 DEF LegMoves
<1>3. ASSUME NEW x \in PlannedExceptions(id, sh) PROVE Stated(x) /\ x.id \in SwapIds
  <2>1. PICK leg \in swapLegs(sh) : x \in LegExceptions(id, leg) BY DEF PlannedExceptions
  <2> QED BY <2>1, <1>1
<1>4. ASSUME NEW m \in PlannedMoves(sh) PROVE m.id \in Ids /\ m.from \in Staff /\ m.to \in Staff
  <2>1. PICK leg \in swapLegs(sh) : m \in LegMoves(leg) BY DEF PlannedMoves
  <2> QED BY <2>1, <1>2
<1> QED BY <1>3, <1>4

(* A handler that is refused, at whatever statement. *)
LEMMA RefuseTypes == ASSUME Typing, NEW s \in Sessions, Refuse(s) PROVE Typing'
<1>1. Answer(s) /\ UNCHANGED <<now, rows, swaps, exceptions, due>> BY DEF Refuse
<1>2. SwapsStay BY <1>1 DEF SwapsStay
<1>3. /\ now' \in 0..MaxTime /\ rows' \in [Ids -> Row \cup {NoRow}]
      /\ swaps' \in [SwapIds -> Swap \cup {NoSwap}] /\ due' \in [Crons -> SUBSET SwapIds]
      /\ \A x \in exceptions' : Stated(x) /\ x.id \in SwapIds \cup XIds
  BY <1>1 DEF Typing, TypeOK
<1> QED BY <1>1, <1>2, <1>3, EndTypes

(* Only the status of a request changes. *)
LEMMA StatusStays ==
  ASSUME Typing, NEW i \in SwapIds, swaps[i] \in Swap, NEW to \in SwapStatuses,
         swaps' = [swaps EXCEPT ![i].status = to]
  PROVE  swaps' \in [SwapIds -> Swap \cup {NoSwap}] /\ SwapsStay
<1>1. swaps \in [SwapIds -> Swap \cup {NoSwap}] BY DEF Typing, TypeOK
<1> DEFINE new == [swaps[i] EXCEPT !.status = to]
<1>2. new \in Swap /\ new.shape = swaps[i].shape /\ new.snapshot = swaps[i].snapshot
  BY DEF Swap
<1>3. swaps' = [swaps EXCEPT ![i] = new] OBVIOUS
<1> HIDE DEF new
<1> QED BY <1>1, <1>2, <1>3 DEF SwapsStay

(* Each statement leaves what its handler needs for the next. *)
LEMMA StatementTypes == ASSUME Typing, NEW s \in Workers, Statement(s) PROVE Typing'
<1>1. s \in Sessions /\ Knows(s) BY DEF Sessions, Typing
<1>2. /\ now \in 0..MaxTime /\ rows \in [Ids -> Row \cup {NoRow}]
      /\ swaps \in [SwapIds -> Swap \cup {NoSwap}] /\ due \in [Crons -> SUBSET SwapIds]
      /\ held \in [Sessions -> SUBSET Staff] /\ moved \in [Sessions -> [Ids -> Row \cup {NoRow}]]
      /\ \A x \in exceptions : Stated(x) /\ x.id \in SwapIds \cup XIds
      /\ job = [t \in Sessions |-> job[t]]
  BY DEF Typing, TypeOK
<1>3. CASE Refuse(s) BY <1>1, <1>3, RefuseTypes
<1>4. CASE InsertSwap(s)
  <2>1. PICK i \in FreeSwaps :
          swaps' = [swaps EXCEPT ![i] = [status |-> "PENDING", shape |-> job[s].shape,
                                         snapshot |-> job[s].snapshot, created |-> job[s].at]]
    BY <1>4 DEF InsertSwap
  <2>2. i \in SwapIds /\ swaps[i].status = "NONE" BY DEF FreeSwaps
  <2>3. job[s].shape \in Shape /\ job[s].snapshot \in SUBSET Ids /\ job[s].at \in Nat
    BY <1>1, <1>4 DEF InsertSwap, Knows, Suits
  <2> DEFINE new == [status |-> "PENDING", shape |-> job[s].shape,
                     snapshot |-> job[s].snapshot, created |-> job[s].at]
  <2>4. new \in Swap BY <2>3 DEF Swap, SwapStatuses
  <2> HIDE DEF new
  <2>5. swaps' \in [SwapIds -> Swap \cup {NoSwap}] BY <1>2, <2>1, <2>2, <2>4 DEF new
  <2>6. swaps[i] \notin Swap BY <2>2 DEF Swap, SwapStatuses
  <2>7. SwapsStay BY <1>2, <2>1, <2>2, <2>6 DEF SwapsStay
  <2>8. Answer(s) /\ UNCHANGED <<now, rows, exceptions, due>> BY <1>4 DEF InsertSwap
  <2> QED BY <1>1, <1>2, <2>5, <2>7, <2>8, EndTypes
<1>5. CASE SetStatus(s)
  <2> DEFINE j == job[s]
  <2>1. /\ j.swap \in SwapIds /\ swaps[j.swap] \in Swap /\ j.to \in SwapStatuses
        /\ JobRecord(j) /\ moved[s] = NoRows /\ held[s] = {}
    BY <1>1, <1>5 DEF SetStatus, Knows, Suits, Locked
  <2>2. swaps' = [swaps EXCEPT ![j.swap].status = j.to] /\ UNCHANGED <<now, rows, exceptions, due>>
    BY <1>5 DEF SetStatus
  <2>3. swaps' \in [SwapIds -> Swap \cup {NoSwap}] /\ SwapsStay BY <2>1, <2>2, StatusStays
  <2>4. CASE Answer(s) BY <1>1, <1>2, <2>2, <2>3, <2>4, EndTypes
  <2>5. CASE Goto(s, "preview") /\ UNCHANGED <<job, held, moved>>
    <3>1. swaps'[j.swap] \in Swap BY <2>1, <2>3 DEF SwapsStay
    <3>2. Suits("preview", j)' BY <2>1, <2>5, <3>1 DEF Suits, Locked
    <3> QED BY <1>2, <2>1, <2>2, <2>3, <2>5, <3>2, GoesOnTypes
  <2> QED BY <1>5, <2>4, <2>5 DEF SetStatus
<1>6. CASE Preview(s)
  <2>1. /\ pc[s] = "preview" /\ Goto(s, "lock")
        /\ UNCHANGED <<now, rows, swaps, exceptions, job, held, moved, due>>
    BY <1>6 DEF Preview
  <2>2. Suits("lock", job[s])' BY <1>1, <2>1 DEF Knows, Suits, Locked
  <2>3. moved[s] = NoRows /\ held[s] = {} BY <1>1, <2>1 DEF Knows, Locked
  <2>4. ~(Keys(s)' \subseteq held'[s]) BY <2>1, <2>3 DEF Keys
  <2>5. SwapsStay BY <2>1 DEF SwapsStay
  <2> QED BY <1>2, <2>1, <2>2, <2>3, <2>4, <2>5, GoesOnTypes
<1>7. CASE LockResource(s)
  <2>1. /\ pc[s] = "lock" /\ held' = [held EXCEPT ![s] = @ \cup {NextKey(s)}]
        /\ Goto(s, IF Keys(s) \subseteq held[s] \cup {NextKey(s)} THEN "apply" ELSE "lock")
        /\ UNCHANGED <<now, rows, swaps, exceptions, job, moved, due>>
    BY <1>7 DEF LockResource
  <2>2. NextKey(s) \in Staff BY <2>1, NextKeyIn
  <2>3. /\ held' \in [Sessions -> SUBSET Staff] /\ held'[s] = held[s] \cup {NextKey(s)}
        /\ \A t \in Sessions \ {s} : held'[t] = held[t]
    BY <1>1, <1>2, <2>1, <2>2
  <2>4. moved[s] = NoRows /\ Suits("lock", job[s])' /\ Suits("apply", job[s])'
    BY <1>1, <2>1 DEF Knows, Suits, Locked
  <2>5. Keys(s)' = Keys(s) BY <2>1 DEF Keys
  <2>6. SwapsStay BY <2>1 DEF SwapsStay
  <2>7. CASE Keys(s) \subseteq held[s] \cup {NextKey(s)}
    <3>1. Goto(s, "apply") BY <2>1, <2>7
    <3> QED BY <1>2, <2>1, <2>3, <2>4, <2>5, <2>6, <2>7, <3>1, GoesOnTypes
  <2>8. CASE ~(Keys(s) \subseteq held[s] \cup {NextKey(s)})
    <3>1. Goto(s, "lock") BY <2>1, <2>8
    <3> QED BY <1>2, <2>1, <2>3, <2>4, <2>5, <2>6, <2>8, <3>1, GoesOnTypes
  <2> QED BY <2>7, <2>8
<1>8. CASE Apply(s)
  <2> DEFINE i == job[s].swap
             sh == swaps[i].shape
             xs == PlannedExceptions(i, sh)
             ms == PlannedMoves(sh)
             j == [[job[s] EXCEPT !.xs = xs] EXCEPT !.moves = ms]
  <2>1. /\ pc[s] = "apply" /\ Goto(s, "moves")
        /\ job' = [job EXCEPT ![s].xs = xs, ![s].moves = ms]
        /\ UNCHANGED <<now, rows, swaps, exceptions, held, moved, due>>
    BY <1>8 DEF Apply
  <2>2. i \in SwapIds /\ swaps[i] \in Swap /\ JobRecord(job[s]) /\ Keys(s) \subseteq held[s]
    BY <1>1, <2>1 DEF Knows, Suits, Locked
  <2>3. sh \in Shape BY <2>2 DEF Swap
  <2>4. /\ \A x \in xs : Stated(x) /\ x.id \in SwapIds
        /\ \A m \in ms : m.id \in Ids /\ m.from \in Staff /\ m.to \in Staff
    <3> HIDE DEF i, sh
    <3> QED BY <2>2, <2>3, PlanTyped
  <2> HIDE DEF sh, xs, ms
  <2>5. JobRecord(j) /\ j.xs = xs /\ j.moves = ms /\ j.swap = i
    BY <2>2 DEF JobRecord, JobFields
  <2>6. job'[s] = j /\ job' = [t \in Sessions |-> job'[t]]
        /\ \A t \in Sessions \ {s} : job'[t] = job[t]
    BY <1>1, <1>2, <2>1
  <2> HIDE DEF i, j
  <2>7. i \in SwapIds /\ swaps'[i] \in Swap BY <2>1, <2>2
  <2>8. Suits("moves", job[s])' BY <2>4, <2>5, <2>6, <2>7 DEF Suits, Locked
  <2>9. Keys(s)' \subseteq held'[s] BY <2>1, <2>2, <2>5, <2>6 DEF Keys, i
  <2>10. SwapsStay BY <2>1 DEF SwapsStay
  <2> QED BY <1>2, <2>1, <2>6, <2>8, <2>9, <2>10, GoesOnTypes
<1>9. CASE MoveReservation(s)
  <2>1. PICK m \in NextMoves(s) :
          /\ StillThere(m) /\ moved' = [moved EXCEPT ![s][m.id] = MovedRow(m)]
          /\ job' = [job EXCEPT ![s].moves = @ \ {m}]
    BY <1>9, Zenon DEF MoveReservation
  <2>2. pc[s] = "moves" /\ UNCHANGED <<now, rows, swaps, exceptions, pc, held, due>>
    BY <1>9 DEF MoveReservation
  <2>3. m \in job[s].moves /\ m.id \in Ids /\ m.to \in Staff
    BY <1>1, <2>2 DEF Knows, Suits, NextMoves
  <2>4. MovedRow(m) \in Row
    <3>1. rows[m.id] \in Row BY <1>2, <2>1, <2>3 DEF StillThere, Occupying, NoRow
    <3> QED BY <2>3, <3>1 DEF MovedRow, Row
  <2>5. moved' \in [Sessions -> [Ids -> Row \cup {NoRow}]]
    BY <1>1, <1>2, <2>1, <2>3, <2>4
  <2>6. JobRecord(job[s]) BY <1>1 DEF Knows, Suits
  <2> DEFINE j == [job[s] EXCEPT !.moves = @ \ {m}]
  <2>7. JobRecord(j) /\ j.moves = job[s].moves \ {m} /\ j.xs = job[s].xs /\ j.swap = job[s].swap
    BY <2>6 DEF JobRecord, JobFields
  <2>8. /\ job'[s] = j /\ job' = [t \in Sessions |-> job'[t]]
        /\ \A t \in Sessions \ {s} : job'[t] = job[t] /\ moved'[t] = moved[t]
    BY <1>1, <1>2, <2>1
  <2> HIDE DEF j
  <2>9. Suits("moves", job[s])' BY <1>1, <2>2, <2>7, <2>8 DEF Knows, Suits, Locked
  <2>10. Keys(s)' \subseteq held'[s] BY <1>1, <2>2, <2>7, <2>8 DEF Knows, Keys
  <2>11. SwapsStay BY <2>2 DEF SwapsStay
  <2>12. Goto(s, "moves") BY <1>1, <2>2 DEF Goto, Typing, TypeOK
  <2> QED BY <1>2, <2>2, <2>5, <2>8, <2>9, <2>10, <2>11, <2>12, GoesOnTypes
<1>10. CASE CommitApproval(s)
  <2>1. /\ pc[s] = "moves" /\ rows' = View(s) /\ Answer(s)
        /\ swaps' = [swaps EXCEPT ![job[s].swap].status = "APPROVED"]
        /\ exceptions' = exceptions \cup job[s].xs /\ UNCHANGED <<now, due>>
    BY <1>10 DEF CommitApproval
  <2>2. /\ job[s].swap \in SwapIds /\ swaps[job[s].swap] \in Swap
        /\ \A x \in job[s].xs : Stated(x) /\ x.id \in SwapIds
    BY <1>1, <2>1 DEF Knows, Suits, Locked
  <2>3. "APPROVED" \in SwapStatuses BY DEF SwapStatuses
  <2>4. swaps' \in [SwapIds -> Swap \cup {NoSwap}] /\ SwapsStay
    BY <2>1, <2>2, <2>3, StatusStays
  <2>5. rows' \in [Ids -> Row \cup {NoRow}] BY <1>1, <1>2, <2>1 DEF View
  <2>6. \A x \in exceptions' : Stated(x) /\ x.id \in SwapIds \cup XIds BY <1>2, <2>1, <2>2
  <2> QED BY <1>1, <1>2, <2>1, <2>4, <2>5, <2>6, EndTypes
<1>11. ASSUME Answer(s), UNCHANGED <<now, rows, swaps, due>>,
              \A x \in exceptions' : Stated(x) /\ x.id \in SwapIds \cup XIds
       PROVE  Typing'
  <2>1. SwapsStay BY <1>11 DEF SwapsStay
  <2> QED BY <1>1, <1>2, <1>11, <2>1, EndTypes
<1>12. CASE InsertException(s)
  <2>1. PICK i \in FreeXIds : exceptions' = exceptions \cup {[job[s].x EXCEPT !.id = i]}
    BY <1>12 DEF InsertException
  <2>2. Stated(job[s].x) BY <1>1, <1>12 DEF InsertException, Knows, Suits
  <2> DEFINE x == [job[s].x EXCEPT !.id = i]
  <2>3. Stated(x) /\ x.id = i BY <2>2 DEF Stated, ExceptionFields
  <2> HIDE DEF x
  <2>4. \A y \in exceptions' : Stated(y) /\ y.id \in SwapIds \cup XIds
    BY <1>2, <2>1, <2>3 DEF x, FreeXIds
  <2> QED BY <1>11, <1>12, <2>4 DEF InsertException
<1>13. CASE DecideException(s)
  <2> DEFINE hit == StillPending(job[s].x.id)
             answered(y) == [y EXCEPT !.status = job[s].to, !.decided = TRUE]
  <2>1. exceptions' = (exceptions \ hit) \cup {answered(y) : y \in hit}
    BY <1>13 DEF DecideException
  <2>2. job[s].to \in {"APPROVED", "REJECTED"} BY <1>1, <1>13 DEF DecideException, Knows, Suits
  <2>3. hit \subseteq exceptions BY DEF StillPending
  <2>4. ASSUME NEW y \in hit PROVE Stated(answered(y)) /\ answered(y).id \in SwapIds \cup XIds
    <3>1. Stated(y) /\ y.id \in SwapIds \cup XIds BY <1>2, <2>3
    <3> QED BY <2>2, <3>1 DEF Stated, ExceptionFields
  <2> HIDE DEF hit, answered
  <2>5. \A x \in exceptions' : Stated(x) /\ x.id \in SwapIds \cup XIds
    BY <1>2, <2>1, <2>3, <2>4
  <2> QED BY <1>11, <1>13, <2>5 DEF DecideException
<1>14. CASE DeleteException(s)
  <2>1. exceptions' \subseteq exceptions BY <1>14 DEF DeleteException
  <2> QED BY <1>2, <1>11, <1>14, <2>1 DEF DeleteException
<1>15. CASE Book(s)
  <2>1. pc[s] = "book" /\ Answer(s) /\ UNCHANGED <<now, swaps, exceptions, due>>
    BY <1>15 DEF Book
  <2>2. job[s].row \in Row BY <1>1, <2>1 DEF Knows, Suits
  <2>3. rows' = rows \/ \E i \in FreeIds : rows' = [rows EXCEPT ![i] = job[s].row]
    BY <1>15 DEF Book
  <2>4. rows' \in [Ids -> Row \cup {NoRow}] BY <1>2, <2>2, <2>3 DEF FreeIds
  <2>5. SwapsStay BY <2>1 DEF SwapsStay
  <2> QED BY <1>1, <1>2, <2>1, <2>4, <2>5, EndTypes
<1> QED BY <1>3, <1>4, <1>5, <1>6, <1>7, <1>8, <1>9, <1>10, <1>12, <1>13, <1>14, <1>15
        DEF Statement, NoSwapLeft, StatusChanged, PreviewRefuse, ApplyRefuse, MoveFails,
            NoExceptionLeft

(* Expiry writes a status, nobody else's. *)
LEMMA CronTypes ==
  ASSUME Typing, NEW s \in Crons, ListDue(s) \/ ExpireSwap(s) PROVE Typing' /\ SwapsStay
<1>1. UNCHANGED <<now, rows, exceptions, pc, job, held, moved>> BY DEF ListDue, ExpireSwap
<1>2. /\ now \in 0..MaxTime /\ rows \in [Ids -> Row \cup {NoRow}]
      /\ swaps \in [SwapIds -> Swap \cup {NoSwap}] /\ due \in [Crons -> SUBSET SwapIds]
  BY DEF Typing, TypeOK
<1>3. swaps' \in [SwapIds -> Swap \cup {NoSwap}] /\ SwapsStay
  <2>1. CASE UNCHANGED swaps BY <1>2, <2>1 DEF SwapsStay
  <2>2. CASE \E i \in due[s] : /\ StatusIs(i, "PENDING")
                               /\ swaps' = [swaps EXCEPT ![i].status = "EXPIRED"]
    <3>1. PICK i \in SwapIds : /\ StatusIs(i, "PENDING")
                               /\ swaps' = [swaps EXCEPT ![i].status = "EXPIRED"]
      BY <1>2, <2>2
    <3>2. swaps[i] \in Swap BY <3>1, SwapTyped DEF StatusIs
    <3>3. "EXPIRED" \in SwapStatuses BY DEF SwapStatuses
    <3> QED BY <3>1, <3>2, <3>3, StatusStays
  <2>3. CASE ListDue(s) BY <2>1, <2>3 DEF ListDue
  <2>4. CASE ExpireSwap(s)
    <3>1. PICK i \in due[s] :
            swaps' = IF StatusIs(i, "PENDING") THEN [swaps EXCEPT ![i].status = "EXPIRED"]
                                               ELSE swaps
      BY <2>4 DEF ExpireSwap
    <3> QED BY <2>1, <2>2, <3>1
  <2> QED BY <2>3, <2>4
<1>4. due' \in [Crons -> SUBSET SwapIds]
  <2>1. CASE ListDue(s)
    <3>1. DueSwaps \in SUBSET SwapIds BY DEF DueSwaps
    <3> QED BY <1>2, <2>1, <3>1 DEF ListDue
  <2>2. CASE ExpireSwap(s)
    <3>1. PICK i \in due[s] : due' = [due EXCEPT ![s] = @ \ {i}] BY <2>2 DEF ExpireSwap
    <3> QED BY <1>2, <3>1
  <2> QED BY <2>1, <2>2
<1>5. TypeOK' BY <1>1, <1>3, <1>4 DEF Typing, TypeOK
<1>6. job' = [t \in Sessions |-> job'[t]] /\ \A x \in exceptions' : Stated(x)
  BY <1>1 DEF Typing
<1>7. \A t \in Sessions : Knows(t)'
  <2>1. ASSUME NEW t \in Sessions PROVE Knows(t)'
    <3>1. s \in Sessions /\ pc[s] = "idle" BY DEF Typing, Knows, Sessions
    <3>2. OthersStill(s) BY <1>1 DEF OthersStill
    <3>3. CASE t # s BY <1>3, <3>2, <3>3, OthersKnow
    <3>4. CASE t = s
      <4>1. Knows(s) BY <3>1 DEF Typing
      <4> QED BY <1>1, <3>1, <3>4, <4>1 DEF Knows, Suits, Locked
    <3> QED BY <3>3, <3>4
  <2> QED BY <2>1
<1> QED BY <1>3, <1>5, <1>6, <1>7 DEF Typing

(* Every step keeps the types and what handlers know ... *)
LEMMA TypingStep == ASSUME Typing, [Next]_vars PROVE Typing'
<1>1. \/ UNCHANGED vars
      \/ \E s \in Workers : Arrive(s) \/ Statement(s) \/ Crash(s)
      \/ \E s \in Crons : ListDue(s) \/ ExpireSwap(s)
      \/ \E i \in Ids : CancelReservation(i)
      \/ Tick
  BY DEF Next, Rest
<1>2. ASSUME UNCHANGED <<swaps, exceptions, pc, job, held, moved, due>>,
             now' \in 0..MaxTime, rows' \in [Ids -> Row \cup {NoRow}]
      PROVE  Typing'
  <2>1. TypeOK' BY <1>2 DEF Typing, TypeOK
  <2>2. \A s \in Sessions : Knows(s)' BY <1>2 DEF Typing, Knows, Suits, Keys
  <2> QED BY <1>2, <2>1, <2>2 DEF Typing
<1>3. now \in 0..MaxTime /\ rows \in [Ids -> Row \cup {NoRow}] BY DEF Typing, TypeOK
<1>4. CASE UNCHANGED vars BY <1>2, <1>3, <1>4 DEF vars
<1>5. ASSUME NEW s \in Workers, Arrive(s) \/ Statement(s) \/ Crash(s) PROVE Typing'
  <2>1. CASE Crash(s) BY <2>1, RefuseTypes DEF Crash, Sessions
  <2> QED BY <1>5, <2>1, ArriveTypes, StatementTypes
<1>6. ASSUME NEW s \in Crons, ListDue(s) \/ ExpireSwap(s) PROVE Typing' BY <1>6, CronTypes
<1>7. ASSUME NEW i \in Ids, CancelReservation(i) PROVE Typing'
  <2>1. /\ rows[i].status \in Occupying /\ rows' = [rows EXCEPT ![i].status = "CANCELED_BY_USER"]
        /\ UNCHANGED <<now, swaps, exceptions, pc, job, held, moved, due>>
    BY <1>7 DEF CancelReservation
  <2>2. rows[i] \in Row BY <1>3, <2>1 DEF NoRow, Occupying
  <2> DEFINE new == [rows[i] EXCEPT !.status = "CANCELED_BY_USER"]
  <2>3. new \in Row BY <2>2 DEF Row
  <2>4. rows' = [rows EXCEPT ![i] = new] BY <2>1
  <2> HIDE DEF new
  <2> QED BY <1>2, <1>3, <2>1, <2>3, <2>4
<1>8. CASE Tick
  <2>1. now' \in 0..MaxTime BY <1>3, <1>8, ShiftAssumption DEF Tick
  <2> QED BY <1>2, <1>3, <1>8, <2>1 DEF Tick
<1> QED BY <1>1, <1>4, <1>5, <1>6, <1>7, <1>8

(* ... and so does the start. *)
LEMMA TypingInit == ASSUME Init PROVE Typing
<1>1. TypeOK BY ShiftAssumption DEF Init, TypeOK, NoRows
<1>2. job = [s \in Sessions |-> job[s]] BY DEF Init
<1>3. JobRecord(NoJob) BY DEF JobRecord, NoJob, JobFields
<1>4. \A s \in Sessions : Knows(s) BY <1>3 DEF Init, Knows, Suits, Locked
<1> QED BY <1>1, <1>2, <1>4 DEF Init, Typing

(* Every variable keeps its type, and every handler knows what its next *)
(* statement needs, of as many people, requests and sessions as there are. *)
THEOREM ShiftsTyped == Spec => []Typing
<1>1. Init => Typing BY TypingInit
<1>2. Typing /\ [Next]_vars => Typing' BY TypingStep
<1> QED BY <1>1, <1>2, PTL DEF Spec

(* So every variable keeps its type. *)
THEOREM TypeCorrect == Spec => []TypeOK
<1>1. Typing => TypeOK BY DEF Typing
<1> QED BY <1>1, ShiftsTyped, PTL

-----------------------------------------------------------------------------
(* An approval moves what both sides agreed to. *)

(* What the request says of a move: it was shown, it is one of its legs, and *)
(* a reservation whose staff the customer picked was confirmed.              *)
Wanted(s, m) ==
  /\ m.id \in Ids /\ rows[m.id].status # "NONE"
  /\ m.id \in swaps[job[s].swap].snapshot
  /\ Catalogue[rows[m.id].prod].direct => job[s].confirm
  /\ \E leg \in swapLegs(swaps[job[s].swap].shape) :
       leg.reassign /\ leg.day = rows[m.id].day /\ leg.giver = m.from /\ leg.taker = m.to

(* A row that is written: it was its giver's and is the taker's. *)
Given(s, i) ==
  \E m : /\ Wanted(s, m) /\ m.id = i /\ m.from = rows[i].rsrc
         /\ rows[i].status \in Occupying /\ moved[s][i] = [rows[i] EXCEPT !.rsrc = m.to]

Agreed(s) ==
  pc[s] = "moves" =>
    /\ swaps[job[s].swap].status = "ACCEPTED"
    /\ \A m \in job[s].moves : Wanted(s, m)
    /\ \A i \in Ids : Written(s, i) => Given(s, i)

(* No two sessions approve one request or write one reservation. *)
Apart ==
  \A s, t \in Sessions : s # t =>
    /\ ~(pc[s] = "moves" /\ pc[t] = "moves" /\ job[s].swap = job[t].swap)
    /\ \A i \in Ids : ~(Written(s, i) /\ Written(t, i))

Settled == Typing /\ Apart /\ \A s \in Sessions : Agreed(s)

(* A reservation stays the reservation it is. *)
RowsStay ==
  \A k \in Ids : rows[k].status # "NONE" =>
    rows'[k].status # "NONE" /\ rows'[k].day = rows[k].day /\ rows'[k].prod = rows[k].prod

(* Session t is where it was, and so is what it holds. *)
StillHolds(t) ==
  /\ pc'[t] = pc[t] /\ job'[t] = job[t] /\ moved'[t] = moved[t]
  /\ pc[t] = "moves" => swaps'[job[t].swap] = swaps[job[t].swap]
  /\ \A k \in Ids : Written(t, k) => rows'[k] = rows[k]

(* Then it still does as agreed. *)
LEMMA StillAgreed ==
  ASSUME NEW t \in Sessions, Agreed(t), RowsStay, StillHolds(t) PROVE Agreed(t)'
<1>1. pc'[t] = pc[t] /\ job'[t] = job[t] /\ moved'[t] = moved[t] BY DEF StillHolds
<1>2. ASSUME pc[t] = "moves", NEW m, Wanted(t, m) PROVE Wanted(t, m)'
  <2>1. swaps'[job[t].swap] = swaps[job[t].swap] BY <1>2 DEF StillHolds
  <2>2. /\ rows'[m.id].status # "NONE" /\ rows'[m.id].day = rows[m.id].day
        /\ rows'[m.id].prod = rows[m.id].prod
    BY <1>2 DEF Wanted, RowsStay
  <2> QED BY <1>1, <1>2, <2>1, <2>2 DEF Wanted
<1>3. ASSUME pc[t] = "moves", NEW i \in Ids, Written(t, i), Given(t, i) PROVE Given(t, i)'
  <2>1. PICK m : /\ Wanted(t, m) /\ m.id = i /\ m.from = rows[i].rsrc
                 /\ rows[i].status \in Occupying /\ moved[t][i] = [rows[i] EXCEPT !.rsrc = m.to]
    BY <1>3 DEF Given
  <2>2. rows'[i] = rows[i] BY <1>3 DEF StillHolds
  <2>3. Wanted(t, m)' BY <1>2, <1>3, <2>1
  <2> QED BY <1>1, <2>1, <2>2, <2>3 DEF Given
<1>4. \A i : Written(t, i)' <=> Written(t, i) BY <1>1 DEF Written
<1>5. CASE pc[t] = "moves"
  <2>1. swaps'[job'[t].swap].status = "ACCEPTED" BY <1>1, <1>5 DEF Agreed, StillHolds
  <2>2. \A m \in job'[t].moves : Wanted(t, m)' BY <1>1, <1>2, <1>5 DEF Agreed
  <2>3. \A i \in Ids : Written(t, i)' => Given(t, i)' BY <1>3, <1>4, <1>5 DEF Agreed
  <2> QED BY <2>1, <2>2, <2>3 DEF Agreed
<1> QED BY <1>1, <1>5 DEF Agreed

(* A session that does not approve has written nothing. *)
LEMMA NothingWritten ==
  ASSUME Typing, NEW s \in Sessions, pc[s] # "moves", NEW i \in Ids PROVE ~Written(s, i)
<1>1. moved[s] = NoRows BY DEF Typing, Knows
<1> QED BY <1>1 DEF Written, NoRows, NoRow

(* A step that leaves every approval but that of session s alone. *)
LEMMA SettledStep ==
  ASSUME Settled, Typing', NEW s \in Sessions, OthersStill(s), RowsStay,
         \A t \in Sessions \ {s} :
           /\ pc[t] = "moves" => swaps'[job[t].swap] = swaps[job[t].swap]
           /\ \A k \in Ids : Written(t, k) => rows'[k] = rows[k],
         Agreed(s)',
         pc'[s] = "moves" => \A t \in Sessions \ {s} : ~(pc[t] = "moves" /\ job[t].swap = job'[s].swap),
         \A i \in Ids : moved'[s][i].status # "NONE" => RowFree(s, i)
  PROVE  Settled'
<1>1. \A t \in Sessions \ {s} : StillHolds(t) BY DEF OthersStill, StillHolds
<1>2. \A t \in Sessions : Agreed(t)' BY <1>1, StillAgreed DEF Settled
<1>3. Apart'
  <2>1. \A t \in Sessions \ {s} :
          /\ pc'[t] = pc[t] /\ job'[t] = job[t]
          /\ \A i \in Ids : Written(t, i)' <=> Written(t, i)
    BY DEF OthersStill, Written
  <2>2. \A i \in Ids, t \in Sessions \ {s} : ~(Written(s, i)' /\ Written(t, i))
    BY DEF Written, RowFree
  <2> QED BY <2>1, <2>2 DEF Settled, Apart
<1> QED BY <1>2, <1>3 DEF Settled

(* No approval, before or after: only the tables matter. *)
LEMMA NotApproving ==
  ASSUME Settled, Typing', NEW s \in Sessions, OthersStill(s), RowsStay, pc'[s] # "moves",
         \A t \in Sessions \ {s} :
           /\ pc[t] = "moves" => swaps'[job[t].swap] = swaps[job[t].swap]
           /\ \A k \in Ids : Written(t, k) => rows'[k] = rows[k]
  PROVE  Settled'
<1>1. Agreed(s)' BY DEF Agreed
<1>2. \A i \in Ids : moved'[s][i].status = "NONE"
  <2>1. moved'[s] = NoRows BY DEF Typing, Knows
  <2> QED BY <2>1 DEF NoRows, NoRow
<1> QED BY <1>1, <1>2, SettledStep

(* Every handler that is answered without touching a reservation or the *)
(* request of another approval.                                         *)
LEMMA AnswerSettles ==
  ASSUME Settled, Typing', NEW s \in Sessions, Answer(s), UNCHANGED rows,
         \A t \in Sessions \ {s} : pc[t] = "moves" => swaps'[job[t].swap] = swaps[job[t].swap]
  PROVE  Settled'
<1>1. OthersStill(s) /\ pc'[s] = "idle" BY AnswerEnds DEF Settled
<1>2. RowsStay BY DEF RowsStay
<1> QED BY <1>1, <1>2, NotApproving

(* A request that nobody is approving is written, or none. *)
LEMMA OneSwapWritten ==
  ASSUME Settled, NEW s \in Sessions, NEW i \in SwapIds,
         i \in SwapIds /\ (SwapFree(s, i) \/ swaps[i].status # "ACCEPTED"),
         \A k \in SwapIds \ {i} : swaps'[k] = swaps[k],
         NEW t \in Sessions \ {s}, pc[t] = "moves"
  PROVE  swaps'[job[t].swap] = swaps[job[t].swap]
<1>1. job[t].swap \in SwapIds BY DEF Settled, Typing, Knows, Suits, Locked
<1>2. swaps[job[t].swap].status = "ACCEPTED" BY DEF Settled, Agreed
<1>3. job[t].swap # i BY <1>2 DEF SwapFree
<1> QED BY <1>1, <1>3

(* The plan moves what the request showed, as it was asked for. *)
LEMMA PlanWanted ==
  ASSUME Typing, NEW s \in Sessions, job[s].swap \in SwapIds, swaps[job[s].swap] \in Swap,
         Approvable(s), NEW m \in PlannedMoves(swaps[job[s].swap].shape)
  PROVE  Wanted(s, m)
<1> DEFINE sh == swaps[job[s].swap].shape
<1>1. PICK leg \in swapLegs(sh) : m \in LegMoves(leg) BY DEF PlannedMoves
<1>2. /\ leg.reassign /\ m.id \in OnShift(leg.giver, leg.day)
      /\ m.from = leg.giver /\ m.to = leg.taker
  BY <1>1 DEF LegMoves
<1>3. /\ m.id \in Ids /\ rows[m.id].status \in Occupying /\ rows[m.id].day = leg.day
      /\ m.id \in CurrentIds(sh)
  <2>1. DOMAIN rows = Ids BY DEF Typing, TypeOK
  <2>2. m.id \in CurrentIds(sh) BY <1>1, <1>2 DEF CurrentIds
  <2> QED BY <1>2, <2>1, <2>2 DEF OnShift, OccupyingOn
<1>4. m.id \in swaps[job[s].swap].snapshot BY <1>3 DEF Approvable, Usable
<1>5. Catalogue[rows[m.id].prod].direct => job[s].confirm
  <2>1. DirectPicks(sh) # {} => job[s].confirm BY DEF Approvable, Usable
  <2> QED BY <2>1 DEF DirectPicks
<1>6. rows[m.id].status # "NONE" BY <1>3 DEF Occupying
<1> QED BY <1>1, <1>2, <1>3, <1>4, <1>5, <1>6 DEF Wanted

(* Each statement moves only what was agreed, once. *)
LEMMA SettledStatement ==
  ASSUME Settled, Typing', NEW s \in Workers, Statement(s) PROVE Settled'
<1>1. s \in Sessions /\ Typing /\ Knows(s) /\ Agreed(s) BY DEF Sessions, Settled, Typing
<1>2. \A i \in Ids, t \in Sessions : pc[t] # "moves" => ~Written(t, i) BY <1>1, NothingWritten
<1>3. CASE Refuse(s) BY <1>1, <1>3, AnswerSettles DEF Refuse
<1>4. CASE InsertSwap(s)
  <2>1. PICK i \in FreeSwaps :
          swaps' = [swaps EXCEPT ![i] = [status |-> "PENDING", shape |-> job[s].shape,
                                         snapshot |-> job[s].snapshot, created |-> job[s].at]]
    BY <1>4 DEF InsertSwap
  <2>2. i \in SwapIds /\ swaps[i].status # "ACCEPTED" BY DEF FreeSwaps
  <2>3. \A k \in SwapIds \ {i} : swaps'[k] = swaps[k] BY <1>1, <2>1 DEF Typing, TypeOK
  <2> QED BY <1>1, <1>4, <2>2, <2>3, OneSwapWritten, AnswerSettles DEF InsertSwap
<1>5. CASE SetStatus(s)
  <2> DEFINE i == job[s].swap
  <2>1. i \in SwapIds BY <1>1, <1>5 DEF SetStatus, Knows, Suits
  <2>2. SwapFree(s, i) /\ UNCHANGED rows BY <1>5 DEF SetStatus
  <2>3. \A k \in SwapIds \ {i} : swaps'[k] = swaps[k]
    BY <1>1, <1>5 DEF SetStatus, Typing, TypeOK
  <2>4. \A t \in Sessions \ {s} : pc[t] = "moves" => swaps'[job[t].swap] = swaps[job[t].swap]
    BY <1>1, <2>1, <2>2, <2>3, OneSwapWritten
  <2>5. CASE Answer(s) BY <1>1, <2>2, <2>4, <2>5, AnswerSettles
  <2>6. CASE Goto(s, "preview") /\ UNCHANGED <<job, held, moved>>
    <3>1. OthersStill(s) /\ pc'[s] = "preview"
      BY <1>1, <2>6 DEF Goto, Typing, TypeOK, OthersStill
    <3>2. RowsStay BY <2>2 DEF RowsStay
    <3> QED BY <1>1, <2>2, <2>4, <3>1, <3>2, NotApproving
  <2> QED BY <1>5, <2>5, <2>6 DEF SetStatus
<1>6. CASE Preview(s) \/ LockResource(s)
  <2>1. PICK next \in {"lock", "apply"} : Goto(s, next) BY <1>6 DEF Preview, LockResource
  <2>2. UNCHANGED <<rows, swaps, job, moved>> /\ \A t \in Sessions \ {s} : held'[t] = held[t]
    BY <1>1, <1>6 DEF Preview, LockResource, Typing, TypeOK
  <2>3. OthersStill(s) /\ pc'[s] = next
    BY <1>1, <2>1, <2>2 DEF Goto, Typing, TypeOK, OthersStill
  <2>4. RowsStay BY <2>2 DEF RowsStay
  <2> QED BY <1>1, <2>1, <2>2, <2>3, <2>4, NotApproving
<1>7. CASE Apply(s)
  <2> DEFINE i == job[s].swap
             ms == PlannedMoves(swaps[i].shape)
  <2>1. /\ pc[s] = "apply" /\ SwapFree(s, i) /\ Approvable(s) /\ Goto(s, "moves")
        /\ UNCHANGED <<rows, swaps, held, moved>>
    BY <1>7 DEF Apply
  <2>2. i \in SwapIds /\ swaps[i] \in Swap /\ JobRecord(job[s])
    BY <1>1, <2>1 DEF Knows, Suits, Locked
  <2>3. \A m \in ms : Wanted(s, m) BY <1>1, <2>1, <2>2, PlanWanted
  <2> DEFINE j == [[job[s] EXCEPT !.xs = PlannedExceptions(i, swaps[i].shape)] EXCEPT !.moves = ms]
  <2>4. j.moves = ms /\ j.swap = i /\ j.confirm = job[s].confirm
    BY <2>2 DEF JobRecord, JobFields
  <2>5. job'[s] = j /\ \A t \in Sessions \ {s} : job'[t] = job[t]
    <3>1. job' = [job EXCEPT ![s].xs = PlannedExceptions(i, swaps[i].shape), ![s].moves = ms]
      BY <1>7 DEF Apply
    <3> QED BY <1>1, <3>1 DEF Typing
  <2> HIDE DEF j, i, ms
  <2>6. pc'[s] = "moves" /\ OthersStill(s)
    BY <1>1, <2>1, <2>5 DEF Goto, Typing, TypeOK, OthersStill
  <2>7. RowsStay BY <2>1 DEF RowsStay
  <2>8. \A k \in Ids : ~Written(s, k)' BY <1>1, <1>2, <2>1 DEF Written
  <2>9. Agreed(s)'
    <3>1. swaps[i].status = "ACCEPTED" BY <2>1 DEF Approvable, i
    <3>2. \A m \in ms : Wanted(s, m)' BY <2>1, <2>3, <2>4, <2>5 DEF Wanted, i
    <3> QED BY <2>1, <2>4, <2>5, <2>6, <2>8, <3>1, <3>2 DEF Agreed
  <2>10. \A t \in Sessions \ {s} : ~(pc[t] = "moves" /\ job[t].swap = job'[s].swap)
    BY <2>1, <2>4, <2>5 DEF SwapFree, i
  <2> QED BY <1>1, <2>1, <2>6, <2>7, <2>8, <2>9, <2>10, SettledStep DEF Written
<1>8. CASE MoveReservation(s)
  <2>1. PICK m : /\ m \in NextMoves(s) /\ RowFree(s, m.id) /\ StillThere(m)
                 /\ moved' = [moved EXCEPT ![s][m.id] = MovedRow(m)]
                 /\ job' = [job EXCEPT ![s].moves = @ \ {m}]
    BY <1>8, Zenon DEF MoveReservation
  <2>2. pc[s] = "moves" /\ UNCHANGED <<rows, swaps, pc, held>> BY <1>8 DEF MoveReservation
  <2>3. m \in job[s].moves /\ Wanted(s, m) BY <1>1, <2>1, <2>2 DEF NextMoves, Agreed
  <2>4. JobRecord(job[s]) BY <1>1 DEF Knows, Suits
  <2> DEFINE j == [job[s] EXCEPT !.moves = @ \ {m}]
  <2>5. j.moves = job[s].moves \ {m} /\ j.swap = job[s].swap /\ j.confirm = job[s].confirm
    BY <2>4 DEF JobRecord, JobFields
  <2>6. job'[s] = j /\ \A t \in Sessions \ {s} : job'[t] = job[t] /\ moved'[t] = moved[t]
    BY <1>1, <2>1 DEF Typing, TypeOK
  <2> HIDE DEF j
  <2>7. /\ moved'[s][m.id] = MovedRow(m)
        /\ \A k \in Ids \ {m.id} : moved'[s][k] = moved[s][k]
    BY <1>1, <2>1, <2>3 DEF Typing, TypeOK, Wanted
  <2>8. OthersStill(s) /\ RowsStay /\ pc'[s] = "moves"
    BY <2>2, <2>6 DEF OthersStill, RowsStay
  <2>9. \A n : Wanted(s, n) => Wanted(s, n)' BY <2>2, <2>5, <2>6 DEF Wanted
  <2>10. Agreed(s)'
    <3>1. \A n \in job'[s].moves : Wanted(s, n)' BY <1>1, <2>2, <2>5, <2>6, <2>9 DEF Agreed
    <3>2. ASSUME NEW k \in Ids, Written(s, k)' PROVE Given(s, k)'
      <4>1. CASE k = m.id
        <5>1. Wanted(s, m)' BY <2>3, <2>9
        <5>2. m.from = rows'[k].rsrc /\ rows'[k].status \in Occupying
          BY <2>1, <2>2, <4>1 DEF StillThere
        <5>3. moved'[s][k] = [rows'[k] EXCEPT !.rsrc = m.to]
          BY <2>2, <2>7, <4>1 DEF MovedRow
        <5> QED BY <4>1, <5>1, <5>2, <5>3 DEF Given
      <4>2. CASE k # m.id
        <5>1. Given(s, k) BY <1>1, <2>2, <2>7, <3>2, <4>2 DEF Agreed, Written
        <5>2. moved'[s][k] = moved[s][k] BY <2>7, <4>2
        <5> QED BY <2>2, <2>9, <5>1, <5>2 DEF Given
      <4> QED BY <4>1, <4>2
    <3> QED BY <1>1, <2>2, <2>5, <2>6, <3>1, <3>2 DEF Agreed
  <2>11. \A t \in Sessions \ {s} : ~(pc[t] = "moves" /\ job[t].swap = job'[s].swap)
    BY <1>1, <2>2, <2>5, <2>6 DEF Settled, Apart
  <2>12. ASSUME NEW k \in Ids, moved'[s][k].status # "NONE" PROVE RowFree(s, k)
    <3>1. CASE k = m.id BY <2>1, <3>1
    <3>2. CASE k # m.id
      <4>1. Written(s, k) BY <2>7, <2>12, <3>2 DEF Written
      <4> QED BY <1>1, <4>1 DEF Settled, Apart, RowFree
    <3> QED BY <3>1, <3>2
  <2> QED BY <1>1, <2>2, <2>8, <2>10, <2>11, <2>12, SettledStep
<1>9. CASE CommitApproval(s)
  <2> DEFINE i == job[s].swap
  <2>1. /\ pc[s] = "moves" /\ rows' = View(s) /\ Answer(s)
        /\ swaps' = [swaps EXCEPT ![i].status = "APPROVED"]
    BY <1>9 DEF CommitApproval
  <2>2. i \in SwapIds BY <1>1, <2>1 DEF Knows, Suits, Locked
  <2>3. \A t \in Sessions \ {s} : pc[t] = "moves" => swaps'[job[t].swap] = swaps[job[t].swap]
    <3>1. \A k \in SwapIds \ {i} : swaps'[k] = swaps[k] BY <1>1, <2>1 DEF Typing, TypeOK
    <3>2. SwapFree(s, i) BY <1>1, <2>1 DEF Settled, Apart, SwapFree
    <3> QED BY <1>1, <2>2, <3>1, <3>2, OneSwapWritten
  <2>4. \A k \in Ids : rows'[k] = IF Written(s, k) THEN moved[s][k] ELSE rows[k]
    BY <2>1 DEF View
  <2>5. \A t \in Sessions \ {s}, k \in Ids : Written(t, k) => rows'[k] = rows[k]
    BY <1>1, <2>4 DEF Settled, Apart
  <2>6. RowsStay
    <3> SUFFICES ASSUME NEW k \in Ids, rows[k].status # "NONE"
                 PROVE  /\ rows'[k].status # "NONE" /\ rows'[k].day = rows[k].day
                        /\ rows'[k].prod = rows[k].prod
      BY DEF RowsStay
    <3>1. CASE Written(s, k)
      <4>1. Given(s, k) BY <1>1, <2>1, <3>1 DEF Agreed
      <4>2. PICK m : /\ rows[k].status \in Occupying
                     /\ moved[s][k] = [rows[k] EXCEPT !.rsrc = m.to]
        BY <4>1 DEF Given
      <4>3. rows[k] \in Row BY <1>1, <4>2 DEF Typing, TypeOK, NoRow, Occupying
      <4> QED BY <2>4, <3>1, <4>2, <4>3 DEF Row
    <3>2. CASE ~Written(s, k) BY <2>4, <3>2
    <3> QED BY <3>1, <3>2
  <2>7. OthersStill(s) /\ pc'[s] = "idle" BY <1>1, <2>1, AnswerEnds
  <2> QED BY <1>1, <2>3, <2>5, <2>6, <2>7, NotApproving
<1>10. CASE InsertException(s) \/ DecideException(s) \/ DeleteException(s)
  <2>1. CASE InsertException(s)
    <3>1. Answer(s) /\ UNCHANGED <<now, rows, swaps, due>> BY <2>1 DEF InsertException
    <3> QED BY <1>1, <3>1, AnswerSettles
  <2>2. CASE DecideException(s)
    <3>1. Answer(s) /\ UNCHANGED <<now, rows, swaps, due>>
      BY <2>2, Zenon DEF DecideException
    <3> QED BY <1>1, <3>1, AnswerSettles
  <2>3. CASE DeleteException(s)
    <3>1. Answer(s) /\ UNCHANGED <<now, rows, swaps, due>> BY <2>3 DEF DeleteException
    <3> QED BY <1>1, <3>1, AnswerSettles
  <2> QED BY <1>10, <2>1, <2>2, <2>3
<1>11. CASE Book(s)
  <2>1. Answer(s) /\ UNCHANGED swaps BY <1>11 DEF Book
  <2>2. rows' = rows \/ \E i \in FreeIds : rows' = [rows EXCEPT ![i] = job[s].row]
    BY <1>11 DEF Book
  <2>3. \A k \in Ids : rows[k].status # "NONE" => rows'[k] = rows[k]
    BY <1>1, <2>2 DEF Typing, TypeOK, FreeIds
  <2>4. RowsStay BY <2>3 DEF RowsStay
  <2>5. ASSUME NEW t \in Sessions, NEW k \in Ids, Written(t, k) PROVE rows[k].status # "NONE"
    <3>1. Agreed(t) /\ pc[t] = "moves" BY <1>2, <2>5 DEF Settled
    <3>2. Given(t, k) BY <2>5, <3>1 DEF Agreed
    <3> QED BY <3>2 DEF Given, Wanted
  <2>6. OthersStill(s) /\ pc'[s] = "idle" BY <1>1, <2>1, AnswerEnds
  <2> QED BY <1>1, <2>1, <2>3, <2>4, <2>5, <2>6, NotApproving
<1> QED BY <1>3, <1>4, <1>5, <1>6, <1>7, <1>8, <1>9, <1>10, <1>11
        DEF Statement, NoSwapLeft, StatusChanged, PreviewRefuse, ApplyRefuse, MoveFails,
            NoExceptionLeft

(* What nobody but an approval does: a step of a request, of expiry, of a *)
(* customer who cancels, of the clock.                                    *)
LEMMA ArriveStarts ==
  ASSUME Typing, NEW s \in Workers, Arrive(s)
  PROVE  /\ pc[s] = "idle" /\ pc'[s] \in {"insert", "set", "preview", "enter", "decide",
                                          "delete", "book"}
         /\ OthersStill(s) /\ moved' = moved /\ rows' = rows /\ swaps' = swaps
         /\ held' = held /\ now' = now /\ exceptions' = exceptions
<1>1. s \in Sessions BY DEF Sessions
<1>2. \E next, what :
        /\ next \in {"insert", "set", "preview", "enter", "decide", "delete", "book"}
        /\ Start(s, next, what)
  <2>1. CASE RequestSwap(s)
    <3>1. \E what : Start(s, "insert", what) BY <2>1, Zenon DEF RequestSwap
    <3> QED BY <3>1
  <2>2. CASE ActOnSwap(s)
    <3>1. \E rule, what : Start(s, IF rule.action = "APPROVE" THEN "preview" ELSE "set", what)
      BY <2>2, Zenon DEF ActOnSwap
    <3> QED BY <3>1
  <2>3. CASE RequestException(s)
    <3>1. \E what : Start(s, "enter", what) BY <2>3, Zenon DEF RequestException
    <3> QED BY <3>1
  <2>4. CASE RequestDecision(s)
    <3>1. \E what : Start(s, "decide", what) BY <2>4, Zenon DEF RequestDecision
    <3> QED BY <3>1
  <2>5. CASE RequestDelete(s)
    <3>1. \E what : Start(s, "delete", what) BY <2>5, Zenon DEF RequestDelete
    <3> QED BY <3>1
  <2>6. CASE RequestPlace(s)
    <3>1. \E what : Start(s, "book", what) BY <2>6, Zenon DEF RequestPlace
    <3> QED BY <3>1
  <2> QED BY <2>1, <2>2, <2>3, <2>4, <2>5, <2>6 DEF Arrive
<1>3. PICK next, what : /\ Start(s, next, what)
                        /\ next \in {"insert", "set", "preview", "enter", "decide", "delete", "book"}
  BY <1>2
<1> QED BY <1>1, <1>3 DEF Start, OthersStill, Typing, TypeOK

(* So do the steps that are no statement of a handler. *)
LEMMA SettledStays ==
  ASSUME Settled, Typing', [Next]_vars, \A s \in Workers : ~Statement(s) PROVE Settled'
<1>1. Typing BY DEF Settled
<1>2. ASSUME UNCHANGED <<swaps, pc, job, moved>>, RowsStay,
             \A t \in Sessions, k \in Ids : Written(t, k) => rows'[k] = rows[k]
      PROVE  Settled'
  <2>1. \A t \in Sessions : StillHolds(t) BY <1>2 DEF StillHolds
  <2>2. \A t \in Sessions : Agreed(t)' BY <1>2, <2>1, StillAgreed DEF Settled
  <2>3. Apart' BY <1>2 DEF Settled, Apart, Written
  <2> QED BY <2>2, <2>3 DEF Settled
<1>3. CASE UNCHANGED vars
  <2>1. UNCHANGED <<swaps, pc, job, moved>> /\ UNCHANGED rows BY <1>3 DEF vars
  <2> QED BY <1>2, <2>1 DEF RowsStay
<1>4. ASSUME NEW s \in Workers, Arrive(s) PROVE Settled'
  <2>1. /\ pc'[s] # "moves" /\ OthersStill(s) /\ rows' = rows /\ swaps' = swaps
    BY <1>1, <1>4, ArriveStarts
  <2>2. RowsStay /\ s \in Sessions BY <2>1 DEF RowsStay, Sessions
  <2> QED BY <2>1, <2>2, NotApproving
<1>5. ASSUME NEW s \in Workers, Crash(s) PROVE Settled'
  <2>1. s \in Sessions /\ Answer(s) /\ UNCHANGED <<rows, swaps>>
    BY <1>5 DEF Crash, Refuse, Sessions
  <2> QED BY <2>1, AnswerSettles
<1>6. ASSUME NEW s \in Crons, ListDue(s) \/ ExpireSwap(s) PROVE Settled'
  <2>1. UNCHANGED <<rows, pc, job, moved, held>> BY <1>6 DEF ListDue, ExpireSwap
  <2>2. s \in Sessions /\ pc[s] = "idle" BY <1>1 DEF Sessions, Typing, Knows
  <2>3. \A t \in Sessions \ {s} : pc[t] = "moves" => swaps'[job[t].swap] = swaps[job[t].swap]
    <3>1. CASE UNCHANGED swaps BY <3>1
    <3>2. CASE ExpireSwap(s)
      <4>1. PICK i \in due[s] :
              /\ SwapFree(s, i)
              /\ swaps' = IF StatusIs(i, "PENDING") THEN [swaps EXCEPT ![i].status = "EXPIRED"]
                                                    ELSE swaps
        BY <3>2 DEF ExpireSwap
      <4>2. i \in SwapIds BY <1>1 DEF Typing, TypeOK
      <4>3. \A k \in SwapIds \ {i} : swaps'[k] = swaps[k] BY <1>1, <4>1 DEF Typing, TypeOK
      <4> QED BY <2>2, <4>1, <4>2, <4>3, OneSwapWritten
    <3> QED BY <1>6, <3>1, <3>2 DEF ListDue
  <2>4. OthersStill(s) /\ RowsStay BY <2>1 DEF OthersStill, RowsStay
  <2> QED BY <2>1, <2>2, <2>3, <2>4, NotApproving
<1>7. ASSUME NEW i \in Ids, CancelReservation(i) PROVE Settled'
  <2>1. /\ rows[i].status \in Occupying /\ \A t \in Sessions : ~Written(t, i)
        /\ rows' = [rows EXCEPT ![i].status = "CANCELED_BY_USER"]
        /\ UNCHANGED <<swaps, pc, job, moved>>
    BY <1>7 DEF CancelReservation
  <2>2. rows[i] \in Row BY <1>1, <2>1 DEF Typing, TypeOK, NoRow, Occupying
  <2>3. \A k \in Ids \ {i} : rows'[k] = rows[k] BY <1>1, <2>1 DEF Typing, TypeOK
  <2>4. rows'[i] = [rows[i] EXCEPT !.status = "CANCELED_BY_USER"]
    BY <1>1, <2>1 DEF Typing, TypeOK
  <2>5. RowsStay BY <2>2, <2>3, <2>4 DEF RowsStay, Row
  <2> QED BY <1>2, <2>1, <2>3, <2>5
<1>8. CASE Tick BY <1>2, <1>8 DEF Tick, RowsStay
<1> QED BY <1>3, <1>4, <1>5, <1>6, <1>7, <1>8 DEF Next, Rest

(* Every step, and the start. *)
LEMMA SettledNext == ASSUME Settled, [Next]_vars PROVE Settled'
<1>1. Typing' BY TypingStep DEF Settled
<1>2. CASE \E s \in Workers : Statement(s) BY <1>1, <1>2, SettledStatement
<1>3. CASE \A s \in Workers : ~Statement(s) BY <1>1, <1>3, SettledStays
<1> QED BY <1>2, <1>3

(* Nothing is being approved at the start. *)
LEMMA SettledInit == ASSUME Init PROVE Settled
<1>1. Typing BY TypingInit
<1>2. \A s \in Sessions : pc[s] = "idle" BY DEF Init
<1>3. \A s \in Sessions, i \in Ids : ~Written(s, i) BY <1>1, <1>2, NothingWritten
<1> QED BY <1>1, <1>2, <1>3 DEF Settled, Apart, Agreed

(* What an approval does, as the property says. *)
LEMMA MovesStep ==
  ASSUME Settled, [Next]_vars, NEW k \in Ids, rows[k].status # "NONE",
         rows'[k].rsrc # rows[k].rsrc
  PROVE  \E i \in SwapIds, s \in Workers :
         /\ Approving(i) /\ job[s].swap = i
         /\ k \in swaps[i].snapshot /\ rows[k].status \in Occupying
         /\ Catalogue[rows[k].prod].direct => job[s].confirm
         /\ \E leg \in swapLegs(swaps[i].shape) :
              /\ leg.reassign /\ leg.day = rows[k].day
              /\ leg.giver = rows[k].rsrc /\ leg.taker = rows'[k].rsrc
<1>1. Typing /\ rows \in [Ids -> Row \cup {NoRow}] BY DEF Settled, Typing, TypeOK
<1>2. rows' # rows OBVIOUS
<1>3. \E s \in Workers : CommitApproval(s)
  <2>1. ASSUME NEW s \in Workers, Arrive(s) PROVE FALSE BY <1>1, <1>2, <2>1, ArriveStarts
  <2>2. ASSUME NEW s \in Crons, ListDue(s) \/ ExpireSwap(s) PROVE FALSE
    BY <1>2, <2>2 DEF ListDue, ExpireSwap
  <2>3. ASSUME NEW i \in Ids, CancelReservation(i) PROVE FALSE
    <3>1. rows[i].status \in Occupying /\ rows' = [rows EXCEPT ![i].status = "CANCELED_BY_USER"]
      BY <2>3 DEF CancelReservation
    <3>2. rows[i] \in Row BY <1>1, <3>1 DEF NoRow, Occupying
    <3>3. [rows[i] EXCEPT !.status = "CANCELED_BY_USER"].rsrc = rows[i].rsrc BY <3>2 DEF Row
    <3> QED BY <1>1, <3>1, <3>3
  <2>4. ASSUME NEW s \in Workers, Book(s) PROVE FALSE
    <3>1. rows' = rows \/ \E i \in FreeIds : rows' = [rows EXCEPT ![i] = job[s].row]
      BY <2>4 DEF Book
    <3> QED BY <1>1, <1>2, <3>1 DEF FreeIds
  <2>5. ASSUME NEW s \in Workers, Statement(s), ~CommitApproval(s), ~Book(s) PROVE FALSE
    <3>1. ~Refuse(s) BY <1>2 DEF Refuse
    <3>2. ~InsertSwap(s) /\ ~SetStatus(s) /\ ~Preview(s) /\ ~LockResource(s)
      BY <1>2 DEF InsertSwap, SetStatus, Preview, LockResource
    <3>3. ~Apply(s) BY <1>2, Zenon DEF Apply
    <3>4. ~MoveReservation(s) BY <1>2 DEF MoveReservation
    <3>5. ~InsertException(s) BY <1>2, Zenon DEF InsertException
    <3>6. ~DecideException(s) BY <1>2, Zenon DEF DecideException
    <3>7. ~DeleteException(s) BY <1>2 DEF DeleteException
    <3> QED BY <2>5, <3>1, <3>2, <3>3, <3>4, <3>5, <3>6, <3>7
            DEF Statement, NoSwapLeft, StatusChanged, PreviewRefuse, ApplyRefuse, MoveFails,
                NoExceptionLeft
  <2>6. ~(UNCHANGED vars) /\ ~Tick /\ ~Rest BY <1>2 DEF vars, Tick, Rest
  <2>7. \A s \in Workers : ~Crash(s) BY <1>2 DEF Crash, Refuse
  <2> QED BY <2>1, <2>2, <2>3, <2>4, <2>5, <2>6, <2>7 DEF Next
<1>4. PICK s \in Workers : CommitApproval(s) BY <1>3
<1>5. s \in Sessions /\ Knows(s) /\ Agreed(s) BY <1>1 DEF Settled, Typing, Sessions
<1>6. /\ pc[s] = "moves" /\ rows' = View(s)
      /\ swaps' = [swaps EXCEPT ![job[s].swap].status = "APPROVED"]
  BY <1>4 DEF CommitApproval
<1>7. Written(s, k) /\ rows'[k] = moved[s][k] BY <1>6 DEF View
<1>8. PICK m : /\ Wanted(s, m) /\ m.id = k /\ m.from = rows[k].rsrc
               /\ rows[k].status \in Occupying /\ moved[s][k] = [rows[k] EXCEPT !.rsrc = m.to]
  BY <1>5, <1>6, <1>7 DEF Agreed, Given
<1>9. rows'[k].rsrc = m.to
  <2>1. rows[k] \in Row BY <1>1, <1>8 DEF NoRow, Occupying
  <2> QED BY <1>7, <1>8, <2>1 DEF Row
<1>10. job[s].swap \in SwapIds /\ Approving(job[s].swap)
  <2>1. /\ job[s].swap \in SwapIds /\ swaps[job[s].swap] \in Swap
        /\ swaps[job[s].swap].status = "ACCEPTED"
    BY <1>5, <1>6 DEF Knows, Suits, Locked, Agreed
  <2>2. swaps'[job[s].swap].status = "APPROVED"
    <3>1. swaps'[job[s].swap] = [swaps[job[s].swap] EXCEPT !.status = "APPROVED"]
      BY <1>1, <1>6, <2>1 DEF Typing, TypeOK
    <3> QED BY <2>1, <3>1 DEF Swap
  <2> QED BY <2>1, <2>2 DEF Approving
<1> QED BY <1>8, <1>9, <1>10 DEF Wanted

(* Whatever an approval is about to write, both sides agreed to, and no other *)
(* session is approving the same request or writing the same reservation.   *)
THEOREM RequestsSettled == Spec => []Settled
<1>1. Init => Settled BY SettledInit
<1>2. Settled /\ [Next]_vars => Settled' BY SettledNext
<1> QED BY <1>1, <1>2, PTL DEF Spec

(* An approval moves exactly what the request showed to both sides, to the *)
(* other side; reservations whose staff the customer picked only when that *)
(* was confirmed; and nothing else moves a reservation (swaps.ts).         *)
THEOREM AgreementKept == Spec => MovesAsAgreed
<1>1. Settled /\ [Next]_vars =>
        [\A k \in Ids : rows[k].status # "NONE" /\ rows'[k].rsrc # rows[k].rsrc =>
           \E i \in SwapIds, s \in Workers :
             /\ Approving(i) /\ job[s].swap = i
             /\ k \in swaps[i].snapshot /\ rows[k].status \in Occupying
             /\ Catalogue[rows[k].prod].direct => job[s].confirm
             /\ \E leg \in swapLegs(swaps[i].shape) :
                  /\ leg.reassign /\ leg.day = rows[k].day
                  /\ leg.giver = rows[k].rsrc /\ leg.taker = rows'[k].rsrc]_vars
  BY MovesStep
<1> QED BY <1>1, RequestsSettled, PTL DEF Spec, MovesAsAgreed

-----------------------------------------------------------------------------
(* No instant is oversold, where reservations lie within their day. *)

(* No product is offered so late, or so early, that its buffers leave the    *)
(* day: planSwap counts only what starts on the day of the shift (swaps.ts), *)
(* and without this a reservation of the day before may still be there.      *)
WithinDay ==
  \A p \in Products, a \in Starts :
    /\ Catalogue[p].before <= a
    /\ a + Catalogue[p].duration + Catalogue[p].after <= DayLen

InDay(row) ==
  /\ row.day \in Nat /\ row.lo \in Int /\ row.hi \in Int /\ row.party \in Nat \ {0}
  /\ row.day * DayLen <= row.lo /\ row.lo < row.hi /\ row.hi <= row.day * DayLen + DayLen

(* Rows of different days do not touch. *)
LEMMA DaysApart ==
  ASSUME NEW a, NEW b, InDay(a), InDay(b), a.day # b.day PROVE ~Overlaps(a, b)
<1>1. \A m, n, k, l \in Nat : n = m + 1 + k => m * l + l <= n * l
  <2> SUFFICES ASSUME NEW m \in Nat, NEW k \in Nat, NEW l \in Nat
               PROVE  m * l + l <= (m + 1 + k) * l
    OBVIOUS
  <2>1. (m + 1 + k) * l = m * l + l + k * l OBVIOUS
  <2>2. k * l \in Nat /\ m * l \in Nat OBVIOUS
  <2> DEFINE u == m * l
             v == k * l
             w == (m + 1 + k) * l
  <2> HIDE DEF u, v, w
  <2>3. w = u + l + v /\ u \in Nat /\ v \in Nat BY <2>1, <2>2 DEF u, v, w
  <2>4. u + l <= w BY <2>3
  <2> QED BY <2>4 DEF u, w
<1>2. DayLen \in Nat BY DayAssumption
<1>3. ASSUME NEW x, NEW y, InDay(x), InDay(y), x.day < y.day PROVE x.hi <= y.lo
  <2>1. x.day \in Nat /\ y.day \in Nat BY <1>3 DEF InDay
  <2>2. y.day - x.day - 1 \in Nat /\ y.day = x.day + 1 + (y.day - x.day - 1) BY <1>3, <2>1
  <2> DEFINE u == x.day * DayLen
             v == y.day * DayLen
  <2>3. u + DayLen <= v BY <1>1, <1>2, <2>1, <2>2
  <2>4. u \in Nat /\ v \in Nat BY <1>2, <2>1
  <2>5. x.hi \in Int /\ y.lo \in Int /\ x.hi <= u + DayLen /\ v <= y.lo BY <1>3 DEF InDay
  <2> HIDE DEF u, v
  <2> QED BY <1>2, <2>3, <2>4, <2>5
<1>4. a.day < b.day \/ b.day < a.day BY DEF InDay
<1>5. a.lo \in Int /\ a.hi \in Int /\ b.lo \in Int /\ b.hi \in Int BY DEF InDay
<1>6. CASE a.day < b.day
  <2>1. a.hi <= b.lo BY <1>3, <1>6
  <2> QED BY <1>5, <2>1 DEF Overlaps
<1>7. CASE b.day < a.day
  <2>1. b.hi <= a.lo BY <1>3, <1>7
  <2> QED BY <1>5, <2>1 DEF Overlaps
<1> QED BY <1>4, <1>6, <1>7

(* A table of such rows. *)
TimedTable(t) == DOMAIN t = Ids /\ \A i \in Ids : t[i].status # "NONE" => InDay(t[i])

(* Its rows on one resource are finitely many, timed, and not empty. *)
LEMMA TableTyped ==
  ASSUME NEW t, TimedTable(t), NEW r
  PROVE  IsFiniteSet(OccupyingOn(t, r)) /\ Typed(t, OccupyingOn(t, r))
<1>1. OccupyingOn(t, r) \subseteq Ids BY DEF OccupyingOn, TimedTable
<1>2. IsFiniteSet(OccupyingOn(t, r)) BY <1>1, ShiftAssumption, FS_Subset
<1>3. \A i \in OccupyingOn(t, r) : InDay(t[i])
  BY <1>1 DEF OccupyingOn, TimedTable, Occupying
<1> QED BY <1>2, <1>3 DEF Typed, InDay

(* The same reservation, at the same time. *)
SameTime(a, b) == a.lo = b.lo /\ a.hi = b.hi /\ a.party = b.party

(* Whoever is on r in table u was there in table t: there is room still. *)
LEMMA NoMoreOn ==
  ASSUME NEW t, NEW u, TimedTable(t), TimedTable(u), NEW r \in Staff,
         NotOversold(t, r, CapacityOf[r]),
         \A i \in Ids : u[i].status \in Occupying /\ u[i].rsrc = r =>
           t[i].status \in Occupying /\ t[i].rsrc = r /\ SameTime(u[i], t[i])
  PROVE  NotOversold(u, r, CapacityOf[r])
<1>1. \A i \in OccupyingOn(u, r) \ {} :
        /\ i \in OccupyingOn(t, r)
        /\ u[i].lo = t[i].lo /\ u[i].hi = t[i].hi /\ u[i].party = t[i].party
  BY DEF OccupyingOn, TimedTable, SameTime
<1>2. /\ IsFiniteSet(OccupyingOn(t, r)) /\ Typed(t, OccupyingOn(t, r))
      /\ IsFiniteSet(OccupyingOn(u, r)) /\ Typed(u, OccupyingOn(u, r))
  BY TableTyped
<1>3. \A m \in OccupyingOn(u, r) \cap {} : FoundRoom(u, r, m, CapacityOf[r]) OBVIOUS
<1>4. CapacityOf[r] \in Nat BY ShiftAssumption
<1> QED BY <1>1, <1>2, <1>3, <1>4, RoomSuffices

-----------------------------------------------------------------------------
(* The table after an approval. *)

(* Reservation i goes with leg of the request. *)
Goes(sh, i, leg) == leg \in swapLegs(sh) /\ leg.reassign /\ i \in OnShift(leg.giver, leg.day)

(* It goes to the other of the two; everything else stays. *)
LEMMA AfterIs ==
  ASSUME NEW sh \in Shape, NEW i \in Ids
  PROVE  /\ \A leg : Goes(sh, i, leg) => AfterMoves(sh)[i] = [rows[i] EXCEPT !.rsrc = leg.taker]
         /\ (\A leg : ~Goes(sh, i, leg)) => AfterMoves(sh)[i] = rows[i]
<1> DEFINE legs == {l \in swapLegs(sh) : l.reassign /\ i \in OnShift(l.giver, l.day)}
           one == CHOOSE l \in legs : TRUE
<1>1. AfterMoves(sh)[i] = IF legs = {} THEN rows[i] ELSE [rows[i] EXCEPT !.rsrc = one.taker]
  BY DEF AfterMoves
<1>2. \A leg : Goes(sh, i, leg) <=> leg \in legs BY DEF Goes
<1>3. ASSUME NEW leg \in legs PROVE one.taker = leg.taker
  <2>1. one \in legs BY <1>3
  <2>2. one.giver = rows[i].rsrc /\ leg.giver = rows[i].rsrc
    BY <1>3, <2>1 DEF OnShift, OccupyingOn
  <2>3. one \in swapLegs(sh) /\ leg \in swapLegs(sh) BY <1>3, <2>1
  <2> HIDE DEF one, legs
  <2>4. /\ {one.giver, one.taker} = {sh.requester, sh.target} /\ one.giver # one.taker
        /\ {leg.giver, leg.taker} = {sh.requester, sh.target} /\ leg.giver # leg.taker
    BY <2>3, LegsTyped
  <2> QED BY <2>2, <2>4
<1> HIDE DEF legs, one
<1>4. \A leg : Goes(sh, i, leg) => AfterMoves(sh)[i] = [rows[i] EXCEPT !.rsrc = leg.taker]
  BY <1>1, <1>2, <1>3
<1>5. (\A leg : ~Goes(sh, i, leg)) => AfterMoves(sh)[i] = rows[i] BY <1>1, <1>2
<1> QED BY <1>4, <1>5

(* So it is a table of the same reservations at the same times. *)
LEMMA AfterTimed ==
  ASSUME Typing, TimedTable(rows), NEW sh \in Shape
  PROVE  /\ TimedTable(AfterMoves(sh))
         /\ \A i \in Ids : /\ AfterMoves(sh)[i].status = rows[i].status
                           /\ AfterMoves(sh)[i].day = rows[i].day
                           /\ SameTime(AfterMoves(sh)[i], rows[i])
<1>1. ASSUME NEW i \in Ids
      PROVE  /\ AfterMoves(sh)[i].status = rows[i].status
             /\ AfterMoves(sh)[i].day = rows[i].day
             /\ SameTime(AfterMoves(sh)[i], rows[i])
  <2>1. CASE \A leg : ~Goes(sh, i, leg) BY <2>1, AfterIs DEF SameTime
  <2>2. CASE \E leg : Goes(sh, i, leg)
    <3>1. PICK leg : Goes(sh, i, leg) BY <2>2
    <3>2. AfterMoves(sh)[i] = [rows[i] EXCEPT !.rsrc = leg.taker] BY <3>1, AfterIs
    <3>3. rows[i] \in Row \cup {NoRow} BY DEF Typing, TypeOK
    <3> QED BY <3>2, <3>3 DEF SameTime, Row, NoRow
  <2> QED BY <2>1, <2>2
<1>2. DOMAIN AfterMoves(sh) = Ids BY DEF AfterMoves
<1>3. ASSUME NEW i \in Ids, AfterMoves(sh)[i].status # "NONE" PROVE InDay(AfterMoves(sh)[i])
  <2>1. InDay(rows[i]) BY <1>1, <1>3 DEF TimedTable
  <2> QED BY <1>1, <2>1 DEF InDay, SameTime
<1> QED BY <1>1, <1>2, <1>3 DEF TimedTable

(* A plan without conflicts leaves room for all it moves, on both sides. *)
LEMMA PlanFits ==
  ASSUME Typing, TimedTable(rows), NEW sh \in Shape, NEW id, NoConflict(id, sh),
         NEW r \in Staff, NotOversold(rows, r, CapacityOf[r])
  PROVE  NotOversold(AfterMoves(sh), r, CapacityOf[r])
<1> DEFINE u == AfterMoves(sh)
           fresh == {m.id : m \in {n \in PlannedMoves(sh) : n.to = r}}
<1>1. /\ TimedTable(u)
      /\ \A i \in Ids : u[i].status = rows[i].status /\ u[i].day = rows[i].day
                        /\ SameTime(u[i], rows[i])
  BY AfterTimed
<1>2. /\ IsFiniteSet(OccupyingOn(rows, r)) /\ Typed(rows, OccupyingOn(rows, r))
      /\ IsFiniteSet(OccupyingOn(u, r)) /\ Typed(u, OccupyingOn(u, r))
  BY <1>1, TableTyped
<1>3. ASSUME NEW i, NEW leg, Goes(sh, i, leg)
      PROVE  [id |-> i, from |-> leg.giver, to |-> leg.taker] \in PlannedMoves(sh)
  <2>1. [id |-> i, from |-> leg.giver, to |-> leg.taker] \in LegMoves(leg)
    BY <1>3 DEF Goes, LegMoves
  <2> QED BY <1>3, <2>1 DEF Goes, PlannedMoves
<1>4. ASSUME NEW i \in OccupyingOn(u, r) \ fresh
      PROVE  /\ i \in OccupyingOn(rows, r)
             /\ u[i].lo = rows[i].lo /\ u[i].hi = rows[i].hi /\ u[i].party = rows[i].party
  <2>1. i \in Ids /\ u[i].status \in Occupying /\ u[i].rsrc = r
    BY <1>1 DEF OccupyingOn, TimedTable
  <2>2. CASE \E leg : Goes(sh, i, leg)
    <3>1. PICK leg : Goes(sh, i, leg) BY <2>2
    <3>2. u[i] = [rows[i] EXCEPT !.rsrc = leg.taker] BY <2>1, <3>1, AfterIs
    <3>3. rows[i] \in Row
      <4>1. rows[i].status \in Occupying BY <1>1, <2>1
      <4> QED BY <2>1, <4>1 DEF Typing, TypeOK, NoRow, Occupying
    <3>4. leg.taker = r BY <2>1, <3>2, <3>3 DEF Row
    <3>5. [id |-> i, from |-> leg.giver, to |-> leg.taker] \in PlannedMoves(sh) BY <1>3, <3>1
    <3>6. i \in fresh BY <3>4, <3>5
    <3> QED BY <3>6
  <2>3. CASE \A leg : ~Goes(sh, i, leg)
    <3>1. u[i] = rows[i] BY <2>1, <2>3, AfterIs
    <3> QED BY <2>1, <3>1 DEF OccupyingOn, Typing, TypeOK
  <2> QED BY <2>2, <2>3
<1>5. ASSUME NEW i \in OccupyingOn(u, r) \cap fresh PROVE FoundRoom(u, r, i, CapacityOf[r])
  <2>1. PICK m \in PlannedMoves(sh) : m.to = r /\ m.id = i OBVIOUS
  <2>2. RoomAfterMove(sh, m) BY <2>1, Zenon DEF NoConflict
  <2> DEFINE others == {j \in OccupyingOn(u, r) \ {i} : u[j].day = u[i].day}
  <2>3. ASSUME NEW j \in OccupyingOn(u, r) \ {i}, j \notin others PROVE ~Overlaps(u[j], u[i])
    <3>1. u[j].day # u[i].day BY <2>3
    <3>2. InDay(u[j]) /\ InDay(u[i]) BY <1>1 DEF OccupyingOn, TimedTable, Occupying
    <3> QED BY <3>1, <3>2, DaysApart
  <2>4. \/ \A j \in others : ~Overlaps(u[j], u[i])
        \/ PeakOccupancy(u[i], u, others) + u[i].party <= CapacityOf[r]
    BY <2>1, <2>2 DEF RoomAfterMove
  <2>5. others \in SUBSET (OccupyingOn(u, r) \ {i}) OBVIOUS
  <2> HIDE DEF others, u, fresh
  <2> QED BY <2>3, <2>4, <2>5 DEF FoundRoom, RoomBeside
<1>6. CapacityOf[r] \in Nat BY ShiftAssumption
<1> HIDE DEF u, fresh
<1> QED BY <1>2, <1>4, <1>5, <1>6, RoomSuffices DEF u

-----------------------------------------------------------------------------
(* Nobody books on, or moves anything to, a resource one has locked. *)

Exclusive == \A s, t \in Sessions : s # t => held[s] \cap held[t] = {}

Timed ==
  /\ TimedTable(rows)
  /\ \A s \in Sessions : pc[s] = "book" => InDay(job[s].row)

(* What an approval still has to do: all of the plan is written or to come, *)
(* and there is room for all of it.                                         *)
Carries(s, sh) ==
  /\ \A m \in PlannedMoves(sh) : m \in job[s].moves \/ Written(s, m.id)
  /\ \A r \in {sh.requester, sh.target} : NotOversold(AfterMoves(sh), r, CapacityOf[r])

Promised(s) ==
  pc[s] = "moves" =>
    \A sh \in Shape : sh = swaps[job[s].swap].shape => Carries(s, sh)

Unsold ==
  /\ Settled /\ Exclusive /\ Timed /\ NoOverbooking
  /\ \A s \in Sessions : Promised(s)

(* On a resource session t has locked, reservations only go. *)
NothingComes(t) ==
  \A i \in Ids : rows'[i].status \in Occupying /\ rows'[i].rsrc \in held[t] => rows'[i] = rows[i]

(* Session s approves, and knows it. *)
LEMMA Approver ==
  ASSUME Typing, NEW s \in Sessions, pc[s] = "moves", NEW sh, sh = swaps[job[s].swap].shape
  PROVE  /\ job[s].swap \in SwapIds /\ swaps[job[s].swap] \in Swap /\ sh \in Shape
         /\ sh.requester \in held[s] /\ sh.target \in held[s]
         /\ sh.requester \in Staff /\ sh.target \in Staff
<1>1. job[s].swap \in SwapIds /\ swaps[job[s].swap] \in Swap /\ Keys(s) \subseteq held[s]
  BY DEF Typing, Knows, Suits, Locked
<1>2. sh \in Shape BY <1>1 DEF Swap
<1>3. Keys(s) = {sh.requester, sh.target} BY DEF Keys
<1> QED BY <1>1, <1>2, <1>3 DEF Shape

(* A reservation that goes is on a resource that is locked, and on its leg. *)
LEMMA GoesFromKey ==
  ASSUME Typing, NEW sh \in Shape, NEW i, NEW leg, Goes(sh, i, leg)
  PROVE  /\ i \in Ids /\ rows[i].status \in Occupying /\ rows[i].rsrc = leg.giver
         /\ rows[i].day = leg.day
         /\ leg.giver \in {sh.requester, sh.target} /\ leg.taker \in {sh.requester, sh.target}
<1>1. leg \in swapLegs(sh) BY DEF Goes
<1>2. leg.giver \in {sh.requester, sh.target} /\ leg.taker \in {sh.requester, sh.target}
  BY <1>1, LegsTyped
<1>3. i \in OnShift(leg.giver, leg.day) BY DEF Goes
<1>4. DOMAIN rows = Ids BY DEF Typing, TypeOK
<1> QED BY <1>2, <1>3, <1>4 DEF OnShift, OccupyingOn

(* What the plan moves is what goes. *)
LEMMA PlanGoes ==
  ASSUME NEW sh, NEW m
  PROVE  m \in PlannedMoves(sh) <=>
           \E leg : Goes(sh, m.id, leg) /\ m = [id |-> m.id, from |-> leg.giver, to |-> leg.taker]
<1>1. ASSUME m \in PlannedMoves(sh)
      PROVE  \E leg : Goes(sh, m.id, leg) /\ m = [id |-> m.id, from |-> leg.giver, to |-> leg.taker]
  <2>1. PICK leg \in swapLegs(sh) : m \in LegMoves(leg) BY <1>1 DEF PlannedMoves
  <2>2. leg.reassign BY <2>1 DEF LegMoves
  <2>3. PICK i \in OnShift(leg.giver, leg.day) :
          m = [id |-> i, from |-> leg.giver, to |-> leg.taker]
    BY <2>1, <2>2 DEF LegMoves
  <2> QED BY <2>2, <2>3 DEF Goes
<1>2. ASSUME NEW leg, Goes(sh, m.id, leg), m = [id |-> m.id, from |-> leg.giver, to |-> leg.taker]
      PROVE  m \in PlannedMoves(sh)
  <2>1. m \in LegMoves(leg) BY <1>2, Zenon DEF Goes, LegMoves
  <2> QED BY <1>2, <2>1 DEF Goes, PlannedMoves
<1> QED BY <1>1, <1>2

(* All this of the tables before a step, and of those after it. *)
PlansTell ==
  /\ \A sh, m : m \in PlannedMoves(sh) <=>
       \E leg : Goes(sh, m.id, leg) /\ m = [id |-> m.id, from |-> leg.giver, to |-> leg.taker]
  /\ \A sh \in Shape, i \in Ids :
       /\ \A leg : Goes(sh, i, leg) => AfterMoves(sh)[i] = [rows[i] EXCEPT !.rsrc = leg.taker]
       /\ (\A leg : ~Goes(sh, i, leg)) => AfterMoves(sh)[i] = rows[i]
  /\ Typing /\ TimedTable(rows) =>
       \A sh \in Shape :
         /\ TimedTable(AfterMoves(sh))
         /\ \A i \in Ids : /\ AfterMoves(sh)[i].status = rows[i].status
                           /\ AfterMoves(sh)[i].day = rows[i].day
                           /\ SameTime(AfterMoves(sh)[i], rows[i])

(* They hold before ... *)
LEMMA PlansTellNow == PlansTell
<1>1. \A sh, m : m \in PlannedMoves(sh) <=>
        \E leg : Goes(sh, m.id, leg) /\ m = [id |-> m.id, from |-> leg.giver, to |-> leg.taker]
  BY PlanGoes
<1>2. \A sh \in Shape, i \in Ids :
        /\ \A leg : Goes(sh, i, leg) => AfterMoves(sh)[i] = [rows[i] EXCEPT !.rsrc = leg.taker]
        /\ (\A leg : ~Goes(sh, i, leg)) => AfterMoves(sh)[i] = rows[i]
  BY AfterIs
<1>3. ASSUME Typing, TimedTable(rows), NEW sh \in Shape
      PROVE  /\ TimedTable(AfterMoves(sh))
             /\ \A i \in Ids : /\ AfterMoves(sh)[i].status = rows[i].status
                               /\ AfterMoves(sh)[i].day = rows[i].day
                               /\ SameTime(AfterMoves(sh)[i], rows[i])
  BY <1>3, AfterTimed
<1> QED BY <1>1, <1>2, <1>3, Zenon DEF PlansTell

(* ... and after. *)
LEMMA PlansTellNext == PlansTell'
BY PlansTellNow, PTL

(* Session t is at its statement still. *)
Still(t) == pc'[t] = pc[t] /\ job'[t] = job[t] /\ moved'[t] = moved[t]

(* So the room an approval was promised stays its own. *)
LEMMA StillPromised ==
  ASSUME Unsold, Typing', TimedTable(rows)', NEW s \in Sessions, SwapsStay, NothingComes(s),
         Still(s)
  PROVE  Promised(s)'
<1>1. Typing BY DEF Unsold, Settled
<1>2. pc'[s] = pc[s] /\ job'[s] = job[s] /\ moved'[s] = moved[s] BY DEF Still
<1> SUFFICES ASSUME pc[s] = "moves", NEW sh \in Shape, sh = swaps'[job'[s].swap].shape
             PROVE  Carries(s, sh)'
  BY <1>2 DEF Promised
<1>3. sh = swaps[job[s].swap].shape
  <2>1. job[s].swap \in SwapIds /\ swaps[job[s].swap] \in Swap
    BY <1>1 DEF Typing, Knows, Suits, Locked
  <2> QED BY <1>2, <2>1 DEF SwapsStay
<1>4. Carries(s, sh) BY <1>3 DEF Unsold, Promised
<1>5. /\ sh.requester \in held[s] /\ sh.target \in held[s]
      /\ sh.requester \in Staff /\ sh.target \in Staff
  BY <1>1, <1>3, Approver
<1>6. ASSUME NEW i, NEW leg, Goes(sh, i, leg)' PROVE Goes(sh, i, leg) /\ rows'[i] = rows[i]
  <2>1. leg \in swapLegs(sh) /\ leg.reassign /\ i \in OnShift(leg.giver, leg.day)'
    BY <1>6 DEF Goes
  <2>2. i \in Ids /\ rows'[i].status \in Occupying /\ rows'[i].rsrc = leg.giver
        /\ rows'[i].day = leg.day
    BY <2>1 DEF OnShift, OccupyingOn, Typing, TypeOK
  <2>3. leg.giver \in {sh.requester, sh.target} BY <2>1, LegsTyped
  <2>4. rows'[i] = rows[i] BY <1>5, <2>2, <2>3 DEF NothingComes
  <2>5. i \in OnShift(leg.giver, leg.day)
    BY <1>1, <2>2, <2>4 DEF OnShift, OccupyingOn, Typing, TypeOK
  <2> QED BY <2>1, <2>4, <2>5 DEF Goes
<1>7. ASSUME NEW m, (m \in PlannedMoves(sh))' PROVE m \in job'[s].moves \/ Written(s, m.id)'
  <2>1. PICK leg : Goes(sh, m.id, leg)' /\ m = [id |-> m.id, from |-> leg.giver, to |-> leg.taker]
    BY <1>7, PlansTellNext DEF PlansTell
  <2>2. m \in PlannedMoves(sh)
    <3>1. Goes(sh, m.id, leg) BY <1>6, <2>1
    <3> QED BY <2>1, <3>1, PlanGoes
  <2> QED BY <1>2, <1>4, <2>2 DEF Carries, Written
<1>8. ASSUME NEW r \in {sh.requester, sh.target} PROVE NotOversold(AfterMoves(sh), r, CapacityOf[r])'
  <2> DEFINE t == AfterMoves(sh)
             u == AfterMoves(sh)'
  <2>1. TimedTable(t) /\ \A i \in Ids : t[i].status = rows[i].status BY <1>1, AfterTimed DEF Unsold, Timed
  <2>2. TimedTable(u) /\ \A i \in Ids : u[i].status = rows'[i].status /\ SameTime(u[i], rows'[i])
    <3>1. (Typing /\ TimedTable(rows))' OBVIOUS
    <3> QED BY <3>1, PlansTellNext DEF PlansTell
  <2>3. NotOversold(t, r, CapacityOf[r]) /\ r \in Staff
    <3>1. \A q \in {sh.requester, sh.target} : NotOversold(AfterMoves(sh), q, CapacityOf[q])
      BY <1>4, Zenon DEF Carries
    <3>2. NotOversold(t, r, CapacityOf[r]) BY <3>1, Zenon
    <3>3. r \in Staff BY <1>5
    <3> QED BY <3>2, <3>3
  <2>4. ASSUME NEW i \in Ids, u[i].status \in Occupying, u[i].rsrc = r
        PROVE  u[i] = t[i]
    <3>1. rows'[i].status \in Occupying BY <2>2, <2>4
    <3>2. CASE \E leg : Goes(sh, i, leg)'
      <4>1. PICK leg : Goes(sh, i, leg)' BY <3>2
      <4>2. u[i] = [rows'[i] EXCEPT !.rsrc = leg.taker] BY <4>1, PlansTellNext DEF PlansTell
      <4>3. t[i] = [rows[i] EXCEPT !.rsrc = leg.taker] BY <1>6, <4>1, AfterIs
      <4> QED BY <1>6, <4>1, <4>2, <4>3
    <3>3. CASE \A leg : ~Goes(sh, i, leg)'
      <4>1. u[i] = rows'[i] BY <3>3, PlansTellNext DEF PlansTell
      <4>2. rows'[i] = rows[i] BY <1>5, <2>4, <3>1, <4>1 DEF NothingComes
      <4>3. \A leg : ~Goes(sh, i, leg)
        <5>1. ASSUME NEW leg, Goes(sh, i, leg) PROVE Goes(sh, i, leg)'
          <6>1. rows[i].status \in Occupying /\ rows[i].rsrc = leg.giver /\ rows[i].day = leg.day
            BY <1>1, <5>1, GoesFromKey
          <6>2. i \in OnShift(leg.giver, leg.day)'
            BY <4>2, <6>1 DEF OnShift, OccupyingOn, Typing, TypeOK
          <6> QED BY <5>1, <6>2 DEF Goes
        <5> QED BY <3>3, <5>1
      <4>4. t[i] = rows[i] BY <4>3, AfterIs
      <4> QED BY <4>1, <4>2, <4>4
    <3> QED BY <3>2, <3>3
  <2>5. \A i \in Ids : u[i].status \in Occupying /\ u[i].rsrc = r =>
          t[i].status \in Occupying /\ t[i].rsrc = r /\ SameTime(u[i], t[i])
    BY <2>4 DEF SameTime
  <2> HIDE DEF t, u
  <2>6. NotOversold(u, r, CapacityOf[r]) BY <2>1, <2>2, <2>3, <2>5, NoMoreOn
  <2> QED BY <2>6 DEF u
<1>9. (\A m \in PlannedMoves(sh) : m \in job[s].moves \/ Written(s, m.id))' BY <1>7
<1>10. (\A r \in {sh.requester, sh.target} : NotOversold(AfterMoves(sh), r, CapacityOf[r]))'
  BY <1>8
<1> QED BY <1>9, <1>10, Zenon DEF Carries

(* A request stays what was asked for, whatever happens. *)
LEMMA RequestsStay == ASSUME Typing, [Next]_vars PROVE SwapsStay
<1>1. swaps \in [SwapIds -> Swap \cup {NoSwap}] BY DEF Typing, TypeOK
<1>2. CASE swaps' = swaps BY <1>2 DEF SwapsStay
<1>3. ASSUME NEW s \in Workers, Statement(s) PROVE SwapsStay
  <2>1. Knows(s) BY DEF Typing, Sessions
  <2>2. CASE InsertSwap(s)
    <3>1. PICK i \in FreeSwaps : \E new : swaps' = [swaps EXCEPT ![i] = new]
      BY <2>2 DEF InsertSwap
    <3>2. swaps[i] \notin Swap BY DEF FreeSwaps, Swap, SwapStatuses
    <3> QED BY <1>1, <3>1, <3>2 DEF SwapsStay
  <2>3. CASE SetStatus(s)
    <3>1. swaps' = [swaps EXCEPT ![job[s].swap].status = job[s].to] BY <2>3 DEF SetStatus
    <3>2. /\ job[s].swap \in SwapIds /\ swaps[job[s].swap] \in Swap
          /\ job[s].to \in SwapStatuses
      BY <2>1, <2>3 DEF SetStatus, Knows, Suits
    <3> QED BY <3>1, <3>2, StatusStays
  <2>4. CASE CommitApproval(s)
    <3>1. swaps' = [swaps EXCEPT ![job[s].swap].status = "APPROVED"] BY <2>4 DEF CommitApproval
    <3>2. job[s].swap \in SwapIds /\ swaps[job[s].swap] \in Swap
      BY <2>1, <2>4 DEF CommitApproval, Knows, Suits, Locked
    <3>3. "APPROVED" \in SwapStatuses BY DEF SwapStatuses
    <3> QED BY <3>1, <3>2, <3>3, StatusStays
  <2>5. CASE Refuse(s) BY <1>2, <2>5 DEF Refuse
  <2>6. CASE Preview(s) \/ LockResource(s) \/ MoveReservation(s)
    BY <1>2, <2>6 DEF Preview, LockResource, MoveReservation
  <2>7. CASE Apply(s)
    <3>1. swaps' = swaps BY <2>7, Zenon DEF Apply
    <3> QED BY <1>2, <3>1
  <2>8. CASE InsertException(s)
    <3>1. swaps' = swaps BY <2>8, Zenon DEF InsertException
    <3> QED BY <1>2, <3>1
  <2>9. CASE DecideException(s)
    <3>1. swaps' = swaps BY <2>9, Zenon DEF DecideException
    <3> QED BY <1>2, <3>1
  <2>10. CASE DeleteException(s)
    <3>1. swaps' = swaps BY <2>10, Zenon DEF DeleteException
    <3> QED BY <1>2, <3>1
  <2>11. CASE Book(s)
    <3>1. swaps' = swaps BY <2>11, Zenon DEF Book
    <3> QED BY <1>2, <3>1
  <2> QED BY <1>3, <2>2, <2>3, <2>4, <2>5, <2>6, <2>7, <2>8, <2>9, <2>10, <2>11
          DEF Statement, NoSwapLeft, StatusChanged, PreviewRefuse, ApplyRefuse, MoveFails,
              NoExceptionLeft
<1>4. ASSUME NEW s \in Workers, Arrive(s) PROVE SwapsStay BY <1>2, <1>4, ArriveStarts
<1>5. ASSUME NEW s \in Workers, Crash(s) PROVE SwapsStay BY <1>2, <1>5 DEF Crash, Refuse
<1>6. ASSUME NEW s \in Crons, ListDue(s) \/ ExpireSwap(s) PROVE SwapsStay BY <1>6, CronTypes
<1>7. ASSUME NEW i \in Ids, CancelReservation(i) PROVE SwapsStay
  BY <1>2, <1>7 DEF CancelReservation
<1>8. CASE UNCHANGED vars BY <1>2, <1>8 DEF vars
<1>9. CASE Tick BY <1>2, <1>9 DEF Tick
<1> QED BY <1>3, <1>4, <1>5, <1>6, <1>7, <1>8, <1>9 DEF Next, Rest

(* A step of session s. *)
LEMMA UnsoldBy ==
  ASSUME Unsold, Settled', NEW s \in Sessions, OthersStill(s), SwapsStay,
         held'[s] \subseteq held[s]
           \/ \E key : KeyFree(s, key) /\ held'[s] = held[s] \cup {key},
         TimedTable(rows)', NoOverbooking', pc'[s] = "book" => InDay(job'[s].row),
         \A t \in Sessions \ {s} : NothingComes(t),
         Promised(s)'
  PROVE  Unsold'
<1>1. Typing' BY DEF Settled
<1>2. \A t \in Sessions : Promised(t)'
  <2>1. ASSUME NEW t \in Sessions \ {s} PROVE Promised(t)'
    <3>1. Still(t) BY DEF OthersStill, Still
    <3> QED BY <1>1, <3>1, StillPromised
  <2> QED BY <2>1
<1>3. Exclusive'
  <2>1. \A t \in Sessions \ {s} : held'[t] = held[t] BY DEF OthersStill
  <2>2. \A t \in Sessions \ {s} : held'[s] \cap held[t] = {}
    BY DEF Unsold, Exclusive, KeyFree
  <2> QED BY <2>1, <2>2 DEF Unsold, Exclusive
<1>4. Timed'
  <2>1. \A t \in Sessions \ {s} : pc'[t] = pc[t] /\ job'[t] = job[t] BY DEF OthersStill
  <2> QED BY <2>1 DEF Unsold, Timed
<1> QED BY <1>2, <1>3, <1>4 DEF Unsold

(* A step of nobody that serves a request. *)
LEMMA UnsoldStill ==
  ASSUME Unsold, Settled', UNCHANGED <<pc, job, held, moved>>, SwapsStay,
         TimedTable(rows)', NoOverbooking', \A t \in Sessions : NothingComes(t)
  PROVE  Unsold'
<1>1. Typing' BY DEF Settled
<1>2. \A t \in Sessions : Promised(t)'
  <2>1. \A t \in Sessions : Still(t) BY DEF Still
  <2> QED BY <1>1, <2>1, StillPromised
<1>3. Exclusive' /\ Timed' BY DEF Unsold, Exclusive, Timed
<1> QED BY <1>2, <1>3 DEF Unsold

(* A step that touches no reservation. *)
LEMMA RowsUnsold ==
  ASSUME Unsold, UNCHANGED rows
  PROVE  /\ TimedTable(rows)' /\ NoOverbooking' /\ \A t : NothingComes(t)
BY DEF Unsold, Timed, TimedTable, NoOverbooking, NothingComes

(* What a customer asks for lies within its day. *)
LEMMA NewInDay ==
  ASSUME WithinDay, NEW p \in Products, NEW r \in Catalogue[p].links, NEW d \in Days,
         NEW a \in Starts, NEW n \in 1..Catalogue[p].perSlot
  PROVE  InDay(NewRow(p, r, d, a, n))
<1>1. Catalogue[p] \in [links : SUBSET Staff, direct : BOOLEAN, before : Nat, after : Nat,
                        duration : Nat \ {0}, perSlot : Nat \ {0}]
  BY CatalogueAssumption
<1> DEFINE base == d * DayLen
           before == Catalogue[p].before
           after == Catalogue[p].after
           long == Catalogue[p].duration
           row == NewRow(p, r, d, a, n)
<1>2. d \in Nat /\ a \in Nat /\ DayLen \in Nat /\ n \in Nat \ {0}
  BY <1>1, ShiftAssumption, DayAssumption
<1>3. base \in Nat BY <1>2
<1>4. before \in Nat /\ after \in Nat /\ long \in Nat \ {0} BY <1>1
<1>5. before <= a /\ a + long + after <= DayLen BY DEF WithinDay
<1>6. /\ row.day = d /\ row.party = n /\ row.lo = base + a - before
      /\ row.hi = base + a + long + after
  BY DEF NewRow
<1> HIDE DEF row, base, before, after, long
<1>7. /\ base + a - before \in Int /\ base + a + long + after \in Int
      /\ base <= base + a - before /\ base + a - before < base + a + long + after
      /\ base + a + long + after <= base + DayLen
  BY <1>2, <1>3, <1>4, <1>5
<1>8. d * DayLen = base BY DEF base
<1>9. InDay(row) BY <1>2, <1>6, <1>7, <1>8 DEF InDay
<1> QED BY <1>9 DEF row

(* So whoever is about to insert a booking, inserts one of one day. *)
LEMMA AsksInDay ==
  ASSUME WithinDay, Typing, NEW s \in Workers, Arrive(s), pc'[s] = "book"
  PROVE  InDay(job'[s].row)
<1>1. s \in Sessions BY DEF Sessions
<1>2. ASSUME NEW next, NEW what, Start(s, next, what) PROVE next = "book" /\ job'[s] = what
  BY <1>1, <1>2 DEF Start, Typing, TypeOK
<1>3. ~RequestSwap(s)
  <2>1. RequestSwap(s) => \E what : Start(s, "insert", what) BY Zenon DEF RequestSwap
  <2>2. "insert" # "book" OBVIOUS
  <2> QED BY <1>2, <2>1, <2>2
<1>4. ~ActOnSwap(s)
  <2>1. ActOnSwap(s) => \E rule, what :
          Start(s, IF rule.action = "APPROVE" THEN "preview" ELSE "set", what)
    BY Zenon DEF ActOnSwap
  <2>2. \A rule : (IF rule.action = "APPROVE" THEN "preview" ELSE "set") # "book" OBVIOUS
  <2> QED BY <1>2, <2>1, <2>2
<1>5. ~RequestException(s)
  <2>1. RequestException(s) => \E what : Start(s, "enter", what) BY Zenon DEF RequestException
  <2>2. "enter" # "book" OBVIOUS
  <2> QED BY <1>2, <2>1, <2>2
<1>6. ~RequestDecision(s)
  <2>1. RequestDecision(s) => \E what : Start(s, "decide", what) BY Zenon DEF RequestDecision
  <2>2. "decide" # "book" OBVIOUS
  <2> QED BY <1>2, <2>1, <2>2
<1>7. ~RequestDelete(s)
  <2>1. RequestDelete(s) => \E what : Start(s, "delete", what) BY Zenon DEF RequestDelete
  <2>2. "delete" # "book" OBVIOUS
  <2> QED BY <1>2, <2>1, <2>2
<1>8. RequestPlace(s) BY <1>3, <1>4, <1>5, <1>6, <1>7 DEF Arrive
<1>9. PICK p, d, a, r, n :
          /\ p \in Products /\ d \in Days /\ a \in Starts
          /\ r \in Catalogue[p].links /\ n \in 1..Catalogue[p].perSlot
          /\ Start(s, "book", [NoJob EXCEPT !.row = NewRow(p, r, d, a, n)])
  BY <1>8, Zenon DEF RequestPlace
<1>10. InDay(NewRow(p, r, d, a, n)) BY <1>9, NewInDay
<1>11. job'[s] = [NoJob EXCEPT !.row = NewRow(p, r, d, a, n)] BY <1>2, <1>9
<1>12. [NoJob EXCEPT !.row = NewRow(p, r, d, a, n)].row = NewRow(p, r, d, a, n) BY DEF NoJob
<1> QED BY <1>10, <1>11, <1>12

(* A handler that ends without a reservation. *)
LEMMA AnswerUnsold ==
  ASSUME Unsold, Settled', SwapsStay, NEW s \in Sessions, Answer(s), UNCHANGED rows
  PROVE  Unsold'
<1>1. Typing BY DEF Unsold, Settled
<1>2. OthersStill(s) /\ pc'[s] = "idle" /\ held'[s] = {} BY <1>1, AnswerEnds
<1>3. Promised(s)' BY <1>2 DEF Promised
<1> QED BY <1>2, <1>3, RowsUnsold, UnsoldBy

(* The insert counts again, under the lock. *)
LEMMA BookUnsold ==
  ASSUME Unsold, Settled', SwapsStay, NEW s \in Workers, Book(s)
  PROVE  Unsold'
<1>1. Typing /\ s \in Sessions /\ Knows(s) BY DEF Unsold, Settled, Typing, Sessions
<1> PICK row : row = job[s].row OBVIOUS
<1>2. pc[s] = "book" /\ KeyFree(s, row.rsrc) /\ Answer(s) BY DEF Book
<1>3. row \in Row /\ row.status = "CONFIRMED" /\ InDay(row)
  BY <1>1, <1>2 DEF Knows, Suits, Unsold, Timed
<1>4. CASE UNCHANGED rows BY <1>1, <1>2, <1>4, AnswerUnsold
<1>5. ASSUME HasRoom(row, rows), NEW i \in FreeIds, rows' = [rows EXCEPT ![i] = row]
      PROVE  Unsold'
  <2>1. i \in Ids /\ rows[i].status = "NONE" BY DEF FreeIds
  <2>2. rows'[i] = row /\ \A k \in Ids \ {i} : rows'[k] = rows[k]
    BY <1>1, <1>5, <2>1 DEF Typing, TypeOK
  <2>3. TimedTable(rows) /\ DOMAIN rows' = Ids BY <1>5 DEF Unsold, Timed, TimedTable
  <2>4. TimedTable(rows)'
    <3>1. \A k \in Ids : rows'[k].status # "NONE" => InDay(rows'[k])
      BY <1>3, <2>2, <2>3 DEF TimedTable
    <3> QED BY <2>3, <3>1 DEF TimedTable
  <2>5. row.rsrc \in Staff BY <1>3 DEF Row
  <2>6. NoOverbooking'
    <3> SUFFICES ASSUME NEW r \in Staff PROVE NotOversold(rows', r, CapacityOf[r])
      BY DEF NoOverbooking
    <3> DEFINE u == rows'
    <3>1. TimedTable(u) /\ u[i] = row /\ \A k \in Ids \ {i} : u[k] = rows[k] BY <2>2, <2>4
    <3> HIDE DEF u
    <3>2. NotOversold(rows, r, CapacityOf[r]) /\ CapacityOf[r] \in Nat
      BY ShiftAssumption DEF Unsold, NoOverbooking
    <3>3. CASE r # row.rsrc
      <4>1. \A k \in Ids : u[k].status \in Occupying /\ u[k].rsrc = r =>
              rows[k].status \in Occupying /\ rows[k].rsrc = r /\ SameTime(u[k], rows[k])
        BY <3>1, <3>3 DEF SameTime
      <4>2. NotOversold(u, r, CapacityOf[r]) BY <2>3, <3>1, <3>2, <4>1, NoMoreOn
      <4> QED BY <4>2 DEF u
    <3>4. CASE r = row.rsrc
      <4>1. OccupyingOn(u, r) \ {i} = OccupyingOn(rows, r)
        BY <2>1, <2>3, <3>1 DEF OccupyingOn, TimedTable, Occupying
      <4>2. \A k \in OccupyingOn(rows, r) :
              u[k].lo = rows[k].lo /\ u[k].hi = rows[k].hi /\ u[k].party = rows[k].party
        BY <2>1, <2>3, <3>1 DEF OccupyingOn, TimedTable, Occupying
      <4>3. /\ IsFiniteSet(OccupyingOn(rows, r)) /\ Typed(rows, OccupyingOn(rows, r))
            /\ IsFiniteSet(OccupyingOn(u, r)) /\ Typed(u, OccupyingOn(u, r))
        BY <2>3, <3>1, TableTyped
      <4> PICK perSlot : perSlot = Catalogue[row.prod].perSlot OBVIOUS
      <4>4. perSlot \in Nat BY <1>3, CatalogueAssumption DEF Row
      <4>5. row.lo \in Int /\ row.party \in Nat BY <1>3 DEF InDay
      <4>6. FitsNew(row, row.party, rows, r, perSlot, CapacityOf[r])
        BY <1>5, <3>4 DEF HasRoom
      <4>7. u[i].lo = row.lo /\ u[i].hi = row.hi /\ u[i].party = row.party BY <3>1
      <4>8. FoundRoom(u, r, i, CapacityOf[r])
        BY <3>2, <4>1, <4>2, <4>3, <4>4, <4>5, <4>6, <4>7, NewFoundRoom
      <4>9. \A k \in OccupyingOn(u, r) \ {i} :
              /\ k \in OccupyingOn(rows, r)
              /\ u[k].lo = rows[k].lo /\ u[k].hi = rows[k].hi /\ u[k].party = rows[k].party
        BY <4>1, <4>2
      <4>10. \A m \in OccupyingOn(u, r) \cap {i} : FoundRoom(u, r, m, CapacityOf[r]) BY <4>8
      <4>11. NotOversold(u, r, CapacityOf[r]) BY <3>2, <4>3, <4>9, <4>10, RoomSuffices
      <4> QED BY <4>11 DEF u
    <3> QED BY <3>3, <3>4
  <2>7. ASSUME NEW t \in Sessions \ {s} PROVE NothingComes(t)
    <3>1. row.rsrc \notin held[t] BY <1>2 DEF KeyFree
    <3> QED BY <2>2, <3>1 DEF NothingComes
  <2>8. OthersStill(s) /\ pc'[s] = "idle" /\ held'[s] = {} BY <1>1, <1>2, AnswerEnds
  <2>9. Promised(s)' BY <2>8 DEF Promised
  <2> QED BY <1>1, <2>4, <2>6, <2>7, <2>8, <2>9, UnsoldBy
<1> QED BY <1>4, <1>5 DEF Book

(* The approval as it is committed is the one that was planned. *)
LEMMA CommitUnsold ==
  ASSUME Unsold, Settled', SwapsStay, NEW s \in Workers, CommitApproval(s)
  PROVE  Unsold'
<1>1. Typing /\ s \in Sessions /\ Agreed(s) BY DEF Unsold, Settled, Sessions
<1>2. pc[s] = "moves" /\ job[s].moves = {} /\ rows' = View(s) /\ Answer(s)
  BY DEF CommitApproval
<1> PICK sh : sh = swaps[job[s].swap].shape OBVIOUS
<1>3. /\ sh \in Shape /\ sh.requester \in held[s] /\ sh.target \in held[s]
      /\ sh.requester \in Staff /\ sh.target \in Staff
  BY <1>1, <1>2, Approver
<1>4. Carries(s, sh) BY <1>1, <1>2, <1>3 DEF Unsold, Promised
<1> DEFINE u == AfterMoves(sh)
<1>5. TimedTable(rows) BY DEF Unsold, Timed
<1>6. /\ TimedTable(u)
      /\ \A i \in Ids : u[i].status = rows[i].status /\ SameTime(u[i], rows[i])
  BY <1>1, <1>3, <1>5, AfterTimed
<1>7. ASSUME NEW k \in Ids PROVE rows'[k] = u[k]
  <2>1. rows'[k] = IF Written(s, k) THEN moved[s][k] ELSE rows[k] BY <1>2 DEF View
  <2>2. CASE Written(s, k)
    <3>1. PICK m : /\ Wanted(s, m) /\ m.id = k /\ m.from = rows[k].rsrc
                   /\ rows[k].status \in Occupying /\ moved[s][k] = [rows[k] EXCEPT !.rsrc = m.to]
      BY <1>1, <1>2, <2>2 DEF Agreed, Given
    <3>2. PICK leg \in swapLegs(sh) :
            leg.reassign /\ leg.day = rows[k].day /\ leg.giver = m.from /\ leg.taker = m.to
      BY <3>1 DEF Wanted
    <3>3. k \in OnShift(leg.giver, leg.day)
      BY <1>1, <3>1, <3>2 DEF OnShift, OccupyingOn, Typing, TypeOK
    <3>4. Goes(sh, k, leg) BY <3>2, <3>3 DEF Goes
    <3>5. u[k] = [rows[k] EXCEPT !.rsrc = leg.taker] BY <1>3, <3>4, AfterIs
    <3> QED BY <2>1, <2>2, <3>1, <3>2, <3>5
  <2>3. CASE ~Written(s, k)
    <3>1. ASSUME NEW leg, Goes(sh, k, leg) PROVE FALSE
      <4> DEFINE m == [id |-> k, from |-> leg.giver, to |-> leg.taker]
      <4>1. m.id = k /\ m = [id |-> m.id, from |-> leg.giver, to |-> leg.taker] OBVIOUS
      <4> HIDE DEF m
      <4>2. m \in PlannedMoves(sh) BY <3>1, <4>1, PlanGoes
      <4>3. \A n \in PlannedMoves(sh) : n \in job[s].moves \/ Written(s, n.id)
        BY <1>4, Zenon DEF Carries
      <4> QED BY <1>2, <2>3, <4>1, <4>2, <4>3
    <3>2. u[k] = rows[k] BY <1>3, <3>1, AfterIs
    <3> QED BY <2>1, <2>3, <3>2
  <2> QED BY <2>2, <2>3
<1>8. DOMAIN rows' = Ids BY <1>2 DEF View
<1>9. TimedTable(rows)' BY <1>6, <1>7, <1>8 DEF TimedTable
<1>10. ASSUME NEW k \in Ids, rows'[k] # rows[k] PROVE rows'[k].rsrc \in held[s]
  <2>1. \E leg : Goes(sh, k, leg) BY <1>3, <1>7, <1>10, AfterIs
  <2>2. PICK leg : Goes(sh, k, leg) BY <2>1
  <2>3. u[k] = [rows[k] EXCEPT !.rsrc = leg.taker] BY <1>3, <2>2, PlansTellNow, Zenon DEF PlansTell
  <2>4. rows[k].status \in Occupying /\ leg.taker \in {sh.requester, sh.target}
    BY <1>1, <1>3, <2>2, GoesFromKey
  <2>5. rows[k] \in Row BY <1>1, <2>4 DEF Typing, TypeOK, NoRow, Occupying
  <2>6. u[k].rsrc = leg.taker BY <2>3, <2>5 DEF Row
  <2> QED BY <1>3, <1>7, <2>4, <2>6
<1>11. NoOverbooking'
  <2> SUFFICES ASSUME NEW r \in Staff PROVE NotOversold(rows', r, CapacityOf[r])
    BY DEF NoOverbooking
  <2> DEFINE v == rows'
  <2>1. TimedTable(v) BY <1>9
  <2>2. \A k \in Ids : v[k] = u[k] /\ (v[k] # rows[k] => v[k].rsrc \in held[s]) BY <1>7, <1>10
  <2> HIDE DEF u, v
  <2>3. CASE r \in {sh.requester, sh.target}
    <3>1. NotOversold(u, r, CapacityOf[r])
      <4>1. \A q \in {sh.requester, sh.target} : NotOversold(u, q, CapacityOf[q])
        BY <1>4, Zenon DEF Carries, u
      <4> QED BY <2>3, <4>1, Zenon
    <3>2. \A k \in Ids : v[k].status \in Occupying /\ v[k].rsrc = r =>
            u[k].status \in Occupying /\ u[k].rsrc = r /\ SameTime(v[k], u[k])
      BY <2>2 DEF SameTime
    <3>3. NotOversold(v, r, CapacityOf[r]) BY <1>6, <2>1, <3>1, <3>2, NoMoreOn
    <3> QED BY <3>3 DEF v
  <2>4. CASE r \notin {sh.requester, sh.target}
    <3>1. NotOversold(rows, r, CapacityOf[r]) BY DEF Unsold, NoOverbooking
    <3>2. ASSUME NEW k \in Ids, v[k].status \in Occupying, v[k].rsrc = r
          PROVE  rows[k].status \in Occupying /\ rows[k].rsrc = r /\ SameTime(v[k], rows[k])
      <4>1. \A leg : ~Goes(sh, k, leg)
        <5>1. ASSUME NEW leg, Goes(sh, k, leg) PROVE FALSE
          <6>1. u[k] = [rows[k] EXCEPT !.rsrc = leg.taker]
            BY <1>3, <5>1, PlansTellNow, Zenon DEF PlansTell, u
          <6>2. rows[k].status \in Occupying /\ leg.taker \in {sh.requester, sh.target}
            BY <1>1, <1>3, <5>1, GoesFromKey
          <6>3. rows[k] \in Row BY <1>1, <6>2 DEF Typing, TypeOK, NoRow, Occupying
          <6>4. u[k].rsrc = leg.taker BY <6>1, <6>3 DEF Row
          <6> QED BY <2>2, <2>4, <3>2, <6>2, <6>4
        <5> QED BY <5>1
      <4>2. u[k] = rows[k] BY <1>3, <4>1, AfterIs DEF u
      <4> QED BY <2>2, <3>2, <4>2 DEF SameTime
    <3>3. NotOversold(v, r, CapacityOf[r]) BY <1>5, <2>1, <3>1, <3>2, NoMoreOn
    <3> QED BY <3>3 DEF v
  <2> QED BY <2>3, <2>4
<1>12. ASSUME NEW t \in Sessions \ {s} PROVE NothingComes(t)
  <2>1. held[s] \cap held[t] = {} BY <1>1 DEF Unsold, Exclusive
  <2> QED BY <1>10, <2>1 DEF NothingComes
<1>13. OthersStill(s) /\ pc'[s] = "idle" /\ held'[s] = {} BY <1>1, <1>2, AnswerEnds
<1>14. Promised(s)' BY <1>13 DEF Promised
<1> QED BY <1>1, <1>9, <1>11, <1>12, <1>13, <1>14, UnsoldBy

(* The plan that counts is made under both locks. *)
LEMMA ApplyUnsold ==
  ASSUME Unsold, Settled', SwapsStay, NEW s \in Workers, Apply(s)
  PROVE  Unsold'
<1>1. Typing /\ s \in Sessions /\ Knows(s) BY DEF Unsold, Settled, Typing, Sessions
<1> PICK i : i = job[s].swap OBVIOUS
<1> PICK sh : sh = swaps[i].shape OBVIOUS
<1>2. /\ pc[s] = "apply" /\ Approvable(s) /\ Goto(s, "moves")
      /\ UNCHANGED <<rows, swaps, held, moved>>
      /\ job' = [job EXCEPT ![s].xs = PlannedExceptions(i, sh), ![s].moves = PlannedMoves(sh)]
  BY DEF Apply
<1>3. i \in SwapIds /\ swaps[i] \in Swap /\ JobRecord(job[s])
  BY <1>1, <1>2 DEF Knows, Suits, Locked
<1>4. sh \in Shape BY <1>3 DEF Swap
<1> PICK ms : ms = PlannedMoves(sh) OBVIOUS
<1> DEFINE j == [[job[s] EXCEPT !.xs = PlannedExceptions(i, sh)] EXCEPT !.moves = ms]
<1>5. j.moves = ms /\ j.swap = i BY <1>3 DEF JobRecord, JobFields
<1>6. job'[s] = j /\ \A t \in Sessions \ {s} : job'[t] = job[t] BY <1>1, <1>2 DEF Typing
<1> HIDE DEF j
<1>7. pc'[s] = "moves" /\ OthersStill(s)
  BY <1>1, <1>2, <1>6 DEF Goto, Typing, TypeOK, OthersStill
<1>8. \A r \in Staff : NotOversold(AfterMoves(sh), r, CapacityOf[r])
  <2>1. NoConflict(i, sh) BY <1>2 DEF Approvable, Usable
  <2>2. TimedTable(rows) /\ \A r \in Staff : NotOversold(rows, r, CapacityOf[r])
    BY DEF Unsold, Timed, NoOverbooking
  <2> QED BY <1>1, <1>4, <2>1, <2>2, PlanFits
<1>9. (PlannedMoves(sh) = ms)'
  <2>1. \A leg : LegMoves(leg)' = LegMoves(leg) BY <1>2 DEF LegMoves, OnShift
  <2> QED BY <1>2, <2>1 DEF PlannedMoves
<1>10. AfterMoves(sh)' = AfterMoves(sh) BY <1>2 DEF AfterMoves, OnShift
<1>11. Promised(s)'
  <2> SUFFICES ASSUME NEW q \in Shape, q = swaps'[job'[s].swap].shape PROVE Carries(s, q)'
    BY DEF Promised
  <2>1. q = sh BY <1>2, <1>5, <1>6
  <2>2. (\A m \in PlannedMoves(sh) : m \in job[s].moves \/ Written(s, m.id))'
    BY <1>5, <1>6, <1>9
  <2>3. (\A r \in {sh.requester, sh.target} : NotOversold(AfterMoves(sh), r, CapacityOf[r]))'
    <3>1. sh.requester \in Staff /\ sh.target \in Staff BY <1>4 DEF Shape
    <3>2. \A r \in {sh.requester, sh.target} : NotOversold(AfterMoves(sh), r, CapacityOf[r])
      BY <1>8, <3>1
    <3> QED BY <1>10, <3>2, Zenon
  <2>4. Carries(s, sh)' BY <2>2, <2>3, Zenon DEF Carries
  <2> QED BY <2>1, <2>4
<1>12. held'[s] \subseteq held[s] /\ pc'[s] # "book" BY <1>2, <1>7
<1>13. TimedTable(rows)' /\ NoOverbooking' /\ \A t : NothingComes(t) BY <1>2, RowsUnsold
<1> QED BY <1>1, <1>7, <1>11, <1>12, <1>13, UnsoldBy

(* A move that is made is written. *)
LEMMA MoveUnsold ==
  ASSUME Unsold, Settled', SwapsStay, NEW s \in Workers, MoveReservation(s)
  PROVE  Unsold'
<1>1. Typing /\ s \in Sessions /\ Knows(s) BY DEF Unsold, Settled, Typing, Sessions
<1>2. PICK m : /\ m \in NextMoves(s) /\ StillThere(m)
               /\ moved' = [moved EXCEPT ![s][m.id] = MovedRow(m)]
               /\ job' = [job EXCEPT ![s].moves = @ \ {m}]
  BY Zenon DEF MoveReservation
<1>3. pc[s] = "moves" /\ UNCHANGED <<rows, swaps, pc, held>> BY DEF MoveReservation
<1>4. m.id \in Ids /\ JobRecord(job[s]) BY <1>1, <1>2, <1>3 DEF NextMoves, Knows, Suits
<1> DEFINE j == [job[s] EXCEPT !.moves = @ \ {m}]
<1>5. j.moves = job[s].moves \ {m} /\ j.swap = job[s].swap BY <1>4 DEF JobRecord, JobFields
<1>6. job'[s] = j /\ \A t \in Sessions \ {s} : job'[t] = job[t] /\ moved'[t] = moved[t]
  BY <1>1, <1>2 DEF Typing, TypeOK
<1> HIDE DEF j
<1>7. OthersStill(s) /\ pc'[s] = "moves" BY <1>3, <1>6 DEF OthersStill
<1>8. /\ moved'[s][m.id] = MovedRow(m)
      /\ \A k \in Ids \ {m.id} : moved'[s][k] = moved[s][k]
  BY <1>1, <1>2, <1>4 DEF Typing, TypeOK
<1>9. Written(s, m.id)'
  <2>1. rows[m.id] \in Row
    BY <1>1, <1>2, <1>4 DEF StillThere, Occupying, Typing, TypeOK, NoRow
  <2>2. MovedRow(m).status # "NONE" BY <2>1 DEF MovedRow, Row, Occupying
  <2> QED BY <1>8, <2>2 DEF Written
<1>10. \A k \in Ids : Written(s, k) => Written(s, k)' BY <1>8, <1>9 DEF Written
<1>11. Promised(s)'
  <2> SUFFICES ASSUME NEW sh \in Shape, sh = swaps'[job'[s].swap].shape PROVE Carries(s, sh)'
    BY DEF Promised
  <2>1. Carries(s, sh) BY <1>1, <1>3, <1>5, <1>6 DEF Unsold, Promised
  <2>2. AfterMoves(sh)' = AfterMoves(sh) BY <1>3 DEF AfterMoves, OnShift
  <2>3. PlannedMoves(sh)' = PlannedMoves(sh)
    <3>1. \A leg : LegMoves(leg)' = LegMoves(leg) BY <1>3 DEF LegMoves, OnShift
    <3> QED BY <3>1 DEF PlannedMoves
  <2>4. \A n \in PlannedMoves(sh) : n.id \in Ids
    <3>1. \A n \in PlannedMoves(sh) : \E leg : Goes(sh, n.id, leg) BY PlanGoes
    <3> QED BY <1>1, <3>1, GoesFromKey
  <2>5. (\A n \in PlannedMoves(sh) : n \in job[s].moves \/ Written(s, n.id))'
    <3>1. \A n \in PlannedMoves(sh) : n \in job[s].moves \/ Written(s, n.id)
      BY <2>1, Zenon DEF Carries
    <3> QED BY <1>5, <1>6, <1>9, <1>10, <2>3, <2>4, <3>1
  <2>6. (\A r \in {sh.requester, sh.target} : NotOversold(AfterMoves(sh), r, CapacityOf[r]))'
    <3>1. \A r \in {sh.requester, sh.target} : NotOversold(AfterMoves(sh), r, CapacityOf[r])
      BY <2>1, Zenon DEF Carries
    <3> QED BY <2>2, <3>1
  <2> QED BY <2>5, <2>6, Zenon DEF Carries
<1>12. held'[s] \subseteq held[s] /\ pc'[s] # "book" BY <1>3, <1>7
<1>13. TimedTable(rows)' /\ NoOverbooking' /\ \A t : NothingComes(t) BY <1>3, RowsUnsold
<1> QED BY <1>1, <1>7, <1>11, <1>12, <1>13, UnsoldBy

(* No statement of a handler oversells. *)
LEMMA StatementUnsold ==
  ASSUME Unsold, Settled', SwapsStay, NEW s \in Workers, Statement(s)
  PROVE  Unsold'
<1>1. Typing /\ s \in Sessions /\ Knows(s) BY DEF Unsold, Settled, Typing, Sessions
<1>2. CASE Refuse(s) BY <1>1, <1>2, AnswerUnsold DEF Refuse
<1>3. CASE InsertSwap(s) BY <1>1, <1>3, AnswerUnsold DEF InsertSwap
<1>4. ASSUME OthersStill(s), pc'[s] \notin {"moves", "book"}, UNCHANGED rows,
             held'[s] \subseteq held[s]
               \/ \E key : KeyFree(s, key) /\ held'[s] = held[s] \cup {key}
      PROVE  Unsold'
  <2>1. Promised(s)' BY <1>4 DEF Promised
  <2> QED BY <1>1, <1>4, <2>1, RowsUnsold, UnsoldBy
<1>5. CASE SetStatus(s)
  <2>1. UNCHANGED rows BY <1>5 DEF SetStatus
  <2>2. CASE Answer(s) BY <1>1, <2>1, <2>2, AnswerUnsold
  <2>3. CASE Goto(s, "preview") /\ UNCHANGED <<job, held, moved>>
    <3>1. OthersStill(s) /\ pc'[s] = "preview" /\ held'[s] = held[s]
      BY <1>1, <2>3 DEF Goto, Typing, TypeOK, OthersStill
    <3> QED BY <1>4, <2>1, <3>1
  <2> QED BY <1>5, <2>2, <2>3 DEF SetStatus
<1>6. CASE Preview(s)
  <2>1. UNCHANGED <<rows, job, held, moved>> /\ Goto(s, "lock") BY <1>6 DEF Preview
  <2>2. OthersStill(s) /\ pc'[s] = "lock" /\ held'[s] = held[s]
    BY <1>1, <2>1 DEF Goto, Typing, TypeOK, OthersStill
  <2> QED BY <1>4, <2>1, <2>2
<1>7. CASE LockResource(s)
  <2>1. /\ KeyFree(s, NextKey(s)) /\ held' = [held EXCEPT ![s] = @ \cup {NextKey(s)}]
        /\ UNCHANGED <<rows, job, moved>>
    BY <1>7 DEF LockResource
  <2>2. PICK next \in {"lock", "apply"} : Goto(s, next) BY <1>7 DEF LockResource
  <2>3. held'[s] = held[s] \cup {NextKey(s)} BY <1>1, <2>1 DEF Typing, TypeOK
  <2>4. OthersStill(s) /\ pc'[s] = next
    BY <1>1, <2>1, <2>2 DEF Goto, Typing, TypeOK, OthersStill
  <2> QED BY <1>4, <2>1, <2>3, <2>4
<1>8. CASE InsertException(s)
  <2>1. Answer(s) /\ UNCHANGED <<now, rows, swaps, due>> BY <1>8, Zenon DEF InsertException
  <2> QED BY <1>1, <2>1, AnswerUnsold
<1>9. CASE DecideException(s)
  <2>1. Answer(s) /\ UNCHANGED <<now, rows, swaps, due>> BY <1>9, Zenon DEF DecideException
  <2> QED BY <1>1, <2>1, AnswerUnsold
<1>10. CASE DeleteException(s)
  <2>1. Answer(s) /\ UNCHANGED <<now, rows, swaps, due>> BY <1>10, Zenon DEF DeleteException
  <2> QED BY <1>1, <2>1, AnswerUnsold
<1> QED BY <1>2, <1>3, <1>5, <1>6, <1>7, <1>8, <1>9, <1>10, BookUnsold, CommitUnsold,
           ApplyUnsold, MoveUnsold
        DEF Statement, NoSwapLeft, StatusChanged, PreviewRefuse, ApplyRefuse, MoveFails,
            NoExceptionLeft

(* No step does ... *)
LEMMA UnsoldStep == ASSUME WithinDay, Unsold, [Next]_vars PROVE Unsold'
<1>1. Settled' /\ SwapsStay /\ Typing
  BY SettledNext, RequestsStay DEF Unsold, Settled
<1>2. ASSUME UNCHANGED <<rows, pc, job, held, moved>> PROVE Unsold'
  <2>1. TimedTable(rows)' /\ NoOverbooking' /\ \A t : NothingComes(t) BY <1>2, RowsUnsold
  <2> QED BY <1>1, <1>2, <2>1, UnsoldStill
<1>3. CASE UNCHANGED vars BY <1>2, <1>3 DEF vars
<1>4. ASSUME NEW s \in Workers, Statement(s) PROVE Unsold' BY <1>1, <1>4, StatementUnsold
<1>5. ASSUME NEW s \in Workers, Arrive(s) PROVE Unsold'
  <2>1. /\ pc'[s] # "moves" /\ OthersStill(s) /\ rows' = rows /\ held' = held
    BY <1>1, <1>5, ArriveStarts
  <2>2. s \in Sessions /\ Promised(s)' /\ held'[s] \subseteq held[s]
    BY <2>1 DEF Promised, Sessions
  <2>3. pc'[s] = "book" => InDay(job'[s].row) BY <1>1, <1>5, AsksInDay
  <2>4. TimedTable(rows)' /\ NoOverbooking' /\ \A t : NothingComes(t) BY <2>1, RowsUnsold
  <2> QED BY <1>1, <2>1, <2>2, <2>3, <2>4, UnsoldBy
<1>6. ASSUME NEW s \in Workers, Crash(s) PROVE Unsold'
  <2>1. s \in Sessions /\ Answer(s) /\ UNCHANGED rows BY <1>6 DEF Crash, Refuse, Sessions
  <2> QED BY <1>1, <2>1, AnswerUnsold
<1>7. ASSUME NEW s \in Crons, ListDue(s) \/ ExpireSwap(s) PROVE Unsold'
  BY <1>2, <1>7 DEF ListDue, ExpireSwap
<1>8. CASE Tick BY <1>2, <1>8 DEF Tick
<1>9. ASSUME NEW i \in Ids, CancelReservation(i) PROVE Unsold'
  <2>1. /\ rows[i].status \in Occupying
        /\ rows' = [rows EXCEPT ![i].status = "CANCELED_BY_USER"]
        /\ UNCHANGED <<pc, job, held, moved>>
    BY <1>9 DEF CancelReservation
  <2>2. rows \in [Ids -> Row \cup {NoRow}] /\ rows[i] \in Row
    BY <1>1, <2>1 DEF Typing, TypeOK, NoRow, Occupying
  <2>3. DOMAIN rows' = Ids /\ \A k \in Ids \ {i} : rows'[k] = rows[k] BY <2>1, <2>2
  <2>4. /\ rows'[i].status = "CANCELED_BY_USER" /\ SameTime(rows'[i], rows[i])
        /\ rows'[i].day = rows[i].day
    <3>1. rows'[i] = [rows[i] EXCEPT !.status = "CANCELED_BY_USER"] BY <2>1, <2>2
    <3> QED BY <2>2, <3>1 DEF SameTime, Row
  <2>5. TimedTable(rows) BY DEF Unsold, Timed
  <2>6. "CANCELED_BY_USER" \notin Occupying /\ rows[i].status # "NONE" BY <2>1 DEF Occupying
  <2>7. TimedTable(rows)'
    <3>1. InDay(rows[i]) BY <2>5, <2>6 DEF TimedTable
    <3>2. InDay(rows'[i]) BY <2>4, <3>1 DEF InDay, SameTime
    <3>3. \A k \in Ids : rows'[k].status # "NONE" => InDay(rows'[k])
      BY <2>3, <2>5, <3>2 DEF TimedTable
    <3> QED BY <2>3, <3>3 DEF TimedTable
  <2>8. \A k \in Ids : rows'[k].status \in Occupying => rows'[k] = rows[k]
    BY <2>3, <2>4, <2>6
  <2>9. NoOverbooking'
    <3> SUFFICES ASSUME NEW r \in Staff PROVE NotOversold(rows', r, CapacityOf[r])
      BY DEF NoOverbooking
    <3> DEFINE u == rows'
    <3>1. TimedTable(u) /\ \A k \in Ids : u[k].status \in Occupying => u[k] = rows[k]
      BY <2>7, <2>8
    <3> HIDE DEF u
    <3>2. NotOversold(rows, r, CapacityOf[r]) BY DEF Unsold, NoOverbooking
    <3>3. \A k \in Ids : u[k].status \in Occupying /\ u[k].rsrc = r =>
            rows[k].status \in Occupying /\ rows[k].rsrc = r /\ SameTime(u[k], rows[k])
      BY <3>1 DEF SameTime
    <3>4. NotOversold(u, r, CapacityOf[r]) BY <2>5, <3>1, <3>2, <3>3, NoMoreOn
    <3> QED BY <3>4 DEF u
  <2>10. \A t \in Sessions : NothingComes(t) BY <2>8 DEF NothingComes
  <2> QED BY <1>1, <2>1, <2>7, <2>9, <2>10, UnsoldStill
<1> QED BY <1>3, <1>4, <1>5, <1>6, <1>7, <1>8, <1>9 DEF Next, Rest

(* ... and nothing is sold at the start. *)
LEMMA UnsoldInit == ASSUME Init PROVE Unsold
<1>1. Settled BY SettledInit
<1>2. rows = NoRows /\ \A s \in Sessions : pc[s] = "idle" /\ held[s] = {} BY DEF Init
<1>3. DOMAIN rows = Ids /\ \A i \in Ids : rows[i].status = "NONE" BY <1>2 DEF NoRows, NoRow
<1>4. Timed BY <1>2, <1>3 DEF Timed, TimedTable
<1>5. \A r : OccupyingOn(rows, r) = {} BY <1>3 DEF OccupyingOn, Occupying
<1>6. NoOverbooking BY <1>5 DEF NoOverbooking, NotOversold
<1>7. Exclusive BY <1>2 DEF Exclusive
<1>8. \A s \in Sessions : Promised(s) BY <1>2 DEF Promised
<1> QED BY <1>1, <1>4, <1>6, <1>7, <1>8 DEF Unsold

(* Where the reservations of every product lie within their day, no instant  *)
(* of any resource is sold beyond its capacity: not by bookings, not by a    *)
(* swap, nor by two of them and bookings in any order (planSwap counts under *)
(* both locks, and its row by row moves are one transaction).                *)
THEOREM NeverOversold == ASSUME WithinDay PROVE Spec => []NoOverbooking
<1>1. Init => Unsold BY UnsoldInit
<1>2. Unsold /\ [Next]_vars => Unsold' BY UnsoldStep
<1>3. Unsold => NoOverbooking BY DEF Unsold
<1> QED BY <1>1, <1>2, <1>3, PTL DEF Spec

=============================================================================
