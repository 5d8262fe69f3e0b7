--------------------------- MODULE BookingProofs ---------------------------
(***************************************************************************)
(* Safety of Booking for every value of its constants.  Steps are sorted   *)
(* into the few kinds that matter to locks and writes (StepKinds).         *)
(* Invariants then build on each other:                                    *)
(*   Typing    types, and what a handler has in hand at each statement:    *)
(*             TypeOK alone is not inductive, for what a statement uses of *)
(*             its request must have been put there;                       *)
(*   Locking   who may hold and write what, at which statement;            *)
(*   Faithful  what is pending, compared with the committed row;           *)
(*   Covered   every exclusive row has its seat to itself.                 *)
(* Locking gives the freedom from advisory deadlocks, Faithful the two     *)
(* action properties, all of them the no_overlap constraint.               *)
(*                                                                         *)
(* Then what Booking promises of its table.                                *)
(* First, no instant of a resource is sold beyond its capacity.  The       *)
(* inductive invariant Sold says it of three kinds of table: the committed *)
(* one, the one each transaction sees, and, between the check of a move    *)
(* and its UPDATE, the one that UPDATE is going to make.  A pending row    *)
(* either takes the room its committed version has, or takes room on a     *)
(* resource whose lock its transaction holds; so what others commit can    *)
(* only make room on a resource one has locked.                            *)
(*                                                                         *)
(* Second, what a customer may hold: a change replaces its reservation     *)
(* once, and nobody holds more upcoming reservations of a product than the *)
(* policy allows.  Ordered says in which order a placing handler works and *)
(* what its transaction has written by then; Limited says what it has      *)
(* counted.  Both hold through the commits of others because the handler   *)
(* has its customer's lock from before the first to after the last of      *)
(* those steps.                                                            *)
(*                                                                         *)
(* Last, Booking implements ReservationLedger while no capacity is edited. *)
(* Each transaction takes effect at its commit, as one step of the ledger; *)
(* every other step leaves the ledger as it is.  The argument is one       *)
(* invariant, Planned: from its first write to its commit a handler has,   *)
(* in what it wrote and what it locked, all that the step of the ledger    *)
(* asks for, and what others commit meanwhile takes none of it away.       *)
(***************************************************************************)
EXTENDS Booking, RulesProofs, TLAPS

-----------------------------------------------------------------------------
(* Types. *)

(* What a handler that places a reservation has in hand. *)
PlacingKnows(s) ==
  LET q == req[s]
  IN  /\ q.prod \in Products /\ q.party # 0 /\ cand[s] \in Resources
      /\ q.kind # "WALKIN" => q.actor.who \in Accounts
      /\ q.kind = "CHANGE" => q.id \in Ids

(* What a handler that decides on, or moves, a reservation has in hand. *)
DecidingKnows(s) ==
  LET q == req[s]
  IN  /\ q.kind \in {"TRANSITION", "REASSIGN"}
      /\ q.id \in Ids /\ q.seen \in Row /\ q.to \in Statuses

(* What session s knows, by the statement it is about to run. *)
Knows(s) ==
  /\ Placing(s) => PlacingKnows(s)
  /\ pc[s] \in {"cust", "old", "limits", "slot"} => Placing(s)
  /\ pc[s] = "old" => req[s].kind = "CHANGE"
  /\ pc[s] \in {"validate", "update", "target", "move", "relocate"} => DecidingKnows(s)
  /\ pc[s] \in {"validate", "update"} => Allowed(req[s].seen.status, req[s].to)
  /\ pc[s] \in {"move", "relocate"} => cand[s] \in Resources

(* The inductive invariant. *)
Typing == TypeOK /\ \A s \in Sessions : Knows(s)

(* The table only names states. *)
LEMMA TableStatuses ==
  \A from, to : Allowed(from, to) => from \in Statuses /\ to \in Statuses
BY DEF Allowed, RULES, Rule, Statuses

(* The empty request is a request. *)
LEMMA NoReqType == NoReq \in Request
<1>1. InitCapacity \in [Resources -> Nat \ {0}] BY ResourceAssumption
<1>2. System \in Actor BY DEF System, Actor
<1> QED BY <1>1, <1>2 DEF NoReq, Request

(* The absent row is no row. *)
LEMMA NoRowIsNone == NoRow.status = "NONE" /\ NoRow \notin Row
BY DEF NoRow, Row, Statuses

(* Fields of a row. *)
LEMMA RowFields ==
  ASSUME NEW row \in Row
  PROVE  row.status \in Statuses /\ row.rsrc \in Resources
BY DEF Row

(* A stored row is a row. *)
LEMMA StoredRow ==
  ASSUME Typing, NEW i \in Ids, rows[i].status \in Statuses PROVE rows[i] \in Row
BY NoRowIsNone DEF Typing, TypeOK, Statuses

(* The clock of a request. *)
LEMMA RequestTime ==
  ASSUME Typing, NEW s \in Sessions PROVE req[s].at \in Nat
BY DEF Typing, TypeOK, Request

(* Types at the start. *)
LEMMA InitTyping == Init => Typing
<1> SUFFICES ASSUME Init PROVE Typing OBVIOUS
<1>1. TypeOK
  <2>1. now \in 0..MaxTime BY ClockAssumption DEF Init
  <2>2. rows \in [Ids -> Row \cup {NoRow}] /\ writes \in [Sessions -> [Ids -> Row \cup {NoRow}]]
    BY DEF Init, NoWrites
  <2>3. req \in [Sessions -> Request] BY NoReqType DEF Init
  <2>4. batch \in [Crons -> [to : Statuses \cup {"NONE"}, at : Nat, ids : SUBSET Ids]]
    BY DEF Init, NoBatch
  <2> QED BY <2>1, <2>2, <2>3, <2>4, ResourceAssumption DEF Init, TypeOK, Statements
<1>2. ASSUME NEW s \in Sessions PROVE Knows(s)
  BY DEF Init, Knows, Placing, NoReq
<1> QED BY <1>1, <1>2 DEF Typing

(* The end of a transaction, whatever became of the table. *)
LEMMA RollbackTyping ==
  ASSUME Typing, NEW s \in Sessions, Rollback(s), UNCHANGED <<now, capacity, active, shelf>>,
         rows' \in [Ids -> Row \cup {NoRow}],
         batch' \in [Crons -> [to : Statuses \cup {"NONE"}, at : Nat, ids : SUBSET Ids]]
  PROVE  Typing'
<1>1. TypeOK'
  <2>1. NoWrites \in [Ids -> Row \cup {NoRow}] BY DEF NoWrites
  <2> QED BY <2>1, NoReqType DEF Typing, TypeOK, Rollback, Leave, DropTx, Statements
<1>2. ASSUME NEW t \in Sessions PROVE Knows(t)'
  BY DEF Typing, TypeOK, Knows, Placing, PlacingKnows, DecidingKnows, Rollback, Leave, NoReq
<1> QED BY <1>1, <1>2 DEF Typing

(* A step on to the next statement of the same request. *)
LEMMA GotoTyping ==
  ASSUME Typing, NEW s \in Sessions, UNCHANGED <<now, db, batch>>,
         NEW next \in Statements, Goto(s, next),
         held' \in [Sessions -> SUBSET LockKeys],
         writes' \in [Sessions -> [Ids -> Row \cup {NoRow}]],
         entries' \in [Sessions -> SUBSET LogEntry],
         next \in {"old", "limits", "slot"} => Placing(s),
         next = "old" => req[s].kind = "CHANGE",
         next \in {"update", "relocate", "commit"} \/ next \in {"old", "limits", "slot"},
         next \in {"update", "relocate"} => DecidingKnows(s),
         next = "update" => Allowed(req[s].seen.status, req[s].to),
         next = "relocate" => cand[s] \in Resources
  PROVE  Typing'
<1>1. TypeOK'
  BY DEF Typing, TypeOK, Goto, db
<1>2. ASSUME NEW t \in Sessions PROVE Knows(t)'
  BY DEF Typing, TypeOK, Knows, Placing, PlacingKnows, DecidingKnows, Goto
<1> QED BY <1>1, <1>2 DEF Typing

(* A write of a row and its log entry. *)
LEMMA WriteTyping ==
  ASSUME Typing, NEW s \in Sessions, NEW i \in Ids, NEW row \in Row, NEW e \in LogEntry,
         Write(s, i, row, e)
  PROVE  /\ writes' \in [Sessions -> [Ids -> Row \cup {NoRow}]]
         /\ entries' \in [Sessions -> SUBSET LogEntry]
BY DEF Typing, TypeOK, Write

-----------------------------------------------------------------------------
(* Placing. *)

(* A handler starts to place a reservation. *)
LEMMA StartPlacingTyping ==
  ASSUME Typing, NEW s \in Sessions, NEW q \in Request, NEW offered \in SUBSET Resources,
         q.kind \in {"PLACE", "CHANGE", "WALKIN"}, q.prod \in Products, q.party # 0,
         q.kind # "WALKIN" => q.actor.who \in Accounts,
         q.kind = "CHANGE" => q.id \in Ids,
         StartPlacing(s, q, offered)
  PROVE  Typing'
<1>1. PICK r \in offered :
        /\ pc'   = [pc EXCEPT ![s] = "cust"]
        /\ req'  = [req EXCEPT ![s] = q]
        /\ cand' = [cand EXCEPT ![s] = r]
        /\ todo' = [todo EXCEPT ![s] = offered \ {r}]
        /\ UNCHANGED <<now, db, retried, tx, batch>>
  BY DEF StartPlacing
<1>2. TypeOK'
  BY <1>1 DEF Typing, TypeOK, Statements, db, tx
<1>3. ASSUME NEW t \in Sessions PROVE Knows(t)'
  BY <1>1 DEF Typing, TypeOK, Knows, Placing, PlacingKnows, DecidingKnows
<1> QED BY <1>2, <1>3 DEF Typing

(* Only resources are offered. *)
LEMMA OfferedType ==
  ASSUME Typing, NEW t, NEW p, NEW st, NEW n, NEW pick
  PROVE  Offered(t, p, st, n, pick) \in SUBSET Resources
BY DEF Offered, Typing, TypeOK

(* What Order builds. *)
LEMMA OrderType ==
  ASSUME Typing, NEW kind \in {"PLACE", "CHANGE", "WALKIN"}, NEW actor \in Actor,
         NEW p \in Products, NEW st \in Nat, NEW n \in Nat
  PROVE  /\ Order(kind, actor, p, st, n) \in Request
         /\ Order(kind, actor, p, st, n).kind = kind
         /\ Order(kind, actor, p, st, n).prod = p
         /\ Order(kind, actor, p, st, n).party = n
         /\ Order(kind, actor, p, st, n).actor = actor
<1>1. now \in Nat /\ capacity \in [Resources -> Nat \ {0}]
  BY ClockAssumption DEF Typing, TypeOK
<1> QED BY <1>1, NoReqType, ZenonT(40) DEF Order, Request, NoReq

(* A party has at least one person. *)
LEMMA PartySizesType ==
  ASSUME NEW p \in Products, NEW n \in PartySizes(p) PROVE n \in Nat /\ n # 0
BY CatalogueAssumption DEF PartySizes, CatalogueType

(* The actors that place and reassign. *)
LEMMA PlacingActors ==
  /\ Owner \in Actor
  /\ \A c \in Customers : Customer(c) \in Actor /\ Customer(c).who \in Accounts
BY DEF Owner, Customer, Actor, Accounts

(* The entry points of create.ts. *)
LEMMA PlaceTyping ==
  ASSUME Typing, NEW s \in Sessions, Place(s) PROVE Typing'
<1>1. CASE RequestPlace(s)
  <2>1. PICK c \in Customers, p \in Products, st \in Starts :
          \E n \in PartySizes(p), pick \in Picks(p) :
            StartPlacing(s, Order("PLACE", Customer(c), p, st, n),
                            Offered(rows, p, st, n, pick))
    BY <1>1 DEF RequestPlace
  <2>2. PICK n \in PartySizes(p), pick \in Picks(p) :
            StartPlacing(s, Order("PLACE", Customer(c), p, st, n),
                            Offered(rows, p, st, n, pick))
    BY <2>1
  <2>3. st \in Nat BY ClockAssumption
  <2> DEFINE q == Order("PLACE", Customer(c), p, st, n)
  <2>4. /\ q \in Request /\ q.kind = "PLACE" /\ q.prod \in Products /\ q.party # 0
        /\ q.actor.who \in Accounts
    BY <2>3, OrderType, PartySizesType, PlacingActors
  <2> HIDE DEF q
  <2> QED BY <2>2, <2>4, StartPlacingTyping, OfferedType DEF q
<1>2. CASE RequestWalkIn(s)
  <2>1. PICK p \in Products, st \in Starts :
          \E n \in PartySizes(p), pick \in Named(p) :
            StartPlacing(s, Order("WALKIN", Owner, p, st, n),
                            Offered(rows, p, st, n, pick))
    BY <1>2 DEF RequestWalkIn
  <2>2. PICK n \in PartySizes(p), pick \in Named(p) :
            StartPlacing(s, Order("WALKIN", Owner, p, st, n),
                            Offered(rows, p, st, n, pick))
    BY <2>1
  <2>3. st \in Nat BY ClockAssumption
  <2> DEFINE q == Order("WALKIN", Owner, p, st, n)
  <2>4. q \in Request /\ q.kind = "WALKIN" /\ q.prod \in Products /\ q.party # 0
    BY <2>3, OrderType, PartySizesType, PlacingActors
  <2> HIDE DEF q
  <2> QED BY <2>2, <2>4, StartPlacingTyping, OfferedType DEF q
<1>3. CASE RequestChange(s)
  <2> DEFINE q(i, st, n) == [Order("CHANGE", Customer(rows[i].cust), rows[i].prod, st, n) EXCEPT
                    !.id = i, !.seen = rows[i],
                    !.force = ~BeforeCancelDeadline(rows[i], now, Policy.cancelDeadline)]
  <2>1. PICK i \in Ids, st \in Starts :
          /\ rows[i].status \in Occupying
          /\ rows[i].cust \in Customers
          /\ \E n \in PartySizes(rows[i].prod), pick \in Picks(rows[i].prod) :
               StartPlacing(s, q(i, st, n),
                 Offered([rows EXCEPT ![i] = NoRow], rows[i].prod, st, n, pick))
    BY <1>3 DEF RequestChange
  <2>2. PICK n \in PartySizes(rows[i].prod), pick \in Picks(rows[i].prod) :
          StartPlacing(s, q(i, st, n),
                 Offered([rows EXCEPT ![i] = NoRow], rows[i].prod, st, n, pick))
    BY <2>1
  <2>3. st \in Nat BY ClockAssumption
  <2>4. rows[i] \in Row
    BY <2>1, NoRowIsNone DEF Typing, TypeOK, Occupying
  <2>5. rows[i].prod \in Products BY <2>4 DEF Row
  <2>6. n \in Nat /\ n # 0 BY <2>5, PartySizesType
  <2>7. BeforeCancelDeadline(rows[i], now, Policy.cancelDeadline) \in BOOLEAN
    BY DEF BeforeCancelDeadline
  <2> DEFINE o == Order("CHANGE", Customer(rows[i].cust), rows[i].prod, st, n)
  <2>8. /\ o \in Request /\ o.kind = "CHANGE" /\ o.prod \in Products /\ o.party # 0
        /\ o.actor.who \in Accounts
    BY <2>1, <2>3, <2>5, <2>6, OrderType, PlacingActors
  <2> HIDE DEF o
  <2>9. /\ q(i, st, n) \in Request /\ q(i, st, n).kind = "CHANGE"
        /\ q(i, st, n).prod \in Products /\ q(i, st, n).party # 0
        /\ q(i, st, n).actor.who \in Accounts /\ q(i, st, n).id \in Ids
    <3>1. q(i, st, n) = [o EXCEPT !.id = i, !.seen = rows[i],
                    !.force = ~BeforeCancelDeadline(rows[i], now, Policy.cancelDeadline)]
      BY DEF o
    <3> QED BY <2>4, <2>7, <2>8, <3>1 DEF Request
  <2> HIDE DEF q
  <2> QED BY <2>2, <2>9, StartPlacingTyping, OfferedType
<1> QED BY <1>1, <1>2, <1>3 DEF Place

(* A placing handler has an account to lock. *)
LEMMA AccountType ==
  ASSUME Typing, NEW s \in Sessions, Placing(s) PROVE Account(s) \in Accounts
BY DEF Typing, Knows, PlacingKnows, Account, Accounts

(* The customer lock of insertOne. *)
LEMMA LockCustomerTyping ==
  ASSUME Typing, NEW s \in Sessions, LockCustomer(s) PROVE Typing'
<1>1. Placing(s) /\ Account(s) \in LockKeys
  BY AccountType DEF LockCustomer, Typing, Knows, LockKeys
<1>2. held' \in [Sessions -> SUBSET LockKeys]
  BY <1>1 DEF LockCustomer, Hold, Typing, TypeOK
<1> DEFINE next == CASE req[s].kind = "CHANGE" -> "old"
                     [] req[s].kind = "PLACE"  -> "limits"
                     [] req[s].kind = "WALKIN" -> "slot"
<1>3. next \in {"old", "limits", "slot"} /\ (next = "old" => req[s].kind = "CHANGE")
  BY <1>1 DEF Placing
<1>4. Goto(s, next) /\ UNCHANGED <<now, db, writes, entries, batch>>
  BY DEF LockCustomer
<1>5. /\ writes' \in [Sessions -> [Ids -> Row \cup {NoRow}]]
      /\ entries' \in [Sessions -> SUBSET LogEntry]
  BY <1>4 DEF Typing, TypeOK
<1> HIDE DEF next
<1> QED BY <1>1, <1>2, <1>3, <1>4, <1>5, GotoTyping DEF Statements

(* The cancel of the row a change replaces. *)
LEMMA CancelOldTyping ==
  ASSUME Typing, NEW s \in Sessions, CancelOld(s) PROVE Typing'
<1> DEFINE i == req[s].id
           old == rows[i]
           row == [old EXCEPT !.status = "CANCELED_BY_USER", !.canceledAt = req[s].at]
           e == [id |-> i, from |-> old.status, to |-> "CANCELED_BY_USER",
                 fromRsrc |-> None, toRsrc |-> None]
<1>1. pc[s] = "old" /\ StillLive(old) /\ Write(s, i, row, e) /\ Goto(s, "limits")
      /\ UNCHANGED <<now, db, held, batch>>
  BY DEF CancelOld
<1>2. Placing(s) /\ i \in Ids
  BY <1>1 DEF Typing, Knows, PlacingKnows
<1>3. old \in Row
  BY <1>1, <1>2, NoRowIsNone DEF Typing, TypeOK, Occupying, StillLive
<1>4. row \in Row
  <2>1. req[s].at \in Nat BY DEF Typing, TypeOK, Request
  <2> QED BY <1>3, <2>1 DEF Row, Statuses
<1>5. e \in LogEntry
  BY <1>2, <1>3 DEF LogEntry, Row, Statuses
<1> HIDE DEF row, e
<1>6. /\ writes' \in [Sessions -> [Ids -> Row \cup {NoRow}]]
      /\ entries' \in [Sessions -> SUBSET LogEntry]
  BY <1>1, <1>2, <1>4, <1>5, WriteTyping
<1>7. held' \in [Sessions -> SUBSET LockKeys] BY <1>1 DEF Typing, TypeOK
<1> QED BY <1>1, <1>2, <1>6, <1>7, GotoTyping DEF Statements

(* The row insertOne stores is a row. *)
LEMMA NewRowType ==
  ASSUME Typing, NEW s \in Sessions, Placing(s)
  PROVE  NewRow(s) \in Row /\ NewStatus(s) \in {"REQUESTED", "CONFIRMED"}
<1> DEFINE q == req[s]
<1>1. /\ q.prod \in Products /\ q.party \in Nat \ {0} /\ cand[s] \in Resources
      /\ q.start \in Nat /\ q.at \in Nat /\ q.id \in Ids \cup {None}
  BY DEF Typing, TypeOK, Knows, PlacingKnows, Request
<1>2. /\ Catalogue[q.prod].before \in Nat /\ Catalogue[q.prod].after \in Nat
      /\ Catalogue[q.prod].duration \in Nat
  BY <1>1, CatalogueAssumption DEF CatalogueType
<1>3. /\ OccupyRange(q.prod, q.start).lo \in Int
      /\ OccupyRange(q.prod, q.start).hi \in Int
      /\ q.start + Catalogue[q.prod].duration \in Nat
  BY <1>1, <1>2 DEF OccupyRange
<1>4. NewStatus(s) \in {"REQUESTED", "CONFIRMED"} BY DEF NewStatus
<1>5. Account(s) \in Accounts BY AccountType
<1>6. (q.caps[cand[s]] = 1) \in BOOLEAN OBVIOUS
<1>7. (IF q.kind = "WALKIN" THEN "WALK_IN" ELSE "WEB") \in {"WEB", "WALK_IN"} OBVIOUS
<1> QED BY <1>1, <1>3, <1>4, <1>5, <1>6, <1>7 DEF NewRow, Row, Statuses

(* The insert. *)
LEMMA InsertRowTyping ==
  ASSUME Typing, NEW s \in Sessions, InsertRow(s) PROVE Typing'
<1>1. Placing(s) /\ cand[s] \in Resources
  BY DEF InsertRow, Typing, Knows, PlacingKnows
<1>2. PICK i \in FreeIds :
        Write(s, i, NewRow(s), [id |-> i, from |-> "NONE", to |-> NewStatus(s),
                                fromRsrc |-> None, toRsrc |-> cand[s]])
  BY DEF InsertRow
<1>3. i \in Ids BY DEF FreeIds
<1>4. [id |-> i, from |-> "NONE", to |-> NewStatus(s),
       fromRsrc |-> None, toRsrc |-> cand[s]] \in LogEntry
  BY <1>1, <1>3, NewRowType DEF LogEntry, Statuses
<1>5. /\ writes' \in [Sessions -> [Ids -> Row \cup {NoRow}]]
      /\ entries' \in [Sessions -> SUBSET LogEntry]
  BY <1>1, <1>2, <1>3, <1>4, NewRowType, WriteTyping
<1>6. held' \in [Sessions -> SUBSET LockKeys]
  BY <1>1 DEF InsertRow, Hold, LockKeys, Typing, TypeOK
<1>7. Goto(s, "commit") /\ UNCHANGED <<now, db, batch>> BY DEF InsertRow
<1> QED BY <1>5, <1>6, <1>7, GotoTyping DEF Statements

(* A new attempt of the same request: on another candidate, or once more. *)
LEMMA AgainTyping ==
  ASSUME Typing, NEW s \in Sessions, NEW r \in Resources, Placing(s), DropTx(s),
         pc' = [pc EXCEPT ![s] = "cust"], cand' = [cand EXCEPT ![s] = r],
         todo' \in [Sessions -> SUBSET Resources], retried' \in [Sessions -> BOOLEAN],
         UNCHANGED <<now, db, req, batch>>
  PROVE  Typing'
<1>1. TypeOK'
  BY DEF Typing, TypeOK, DropTx, NoWrites, Statements, db
<1>2. ASSUME NEW t \in Sessions PROVE Knows(t)'
  BY DEF Typing, TypeOK, Knows, Placing, PlacingKnows, DecidingKnows
<1> QED BY <1>1, <1>2 DEF Typing

(* A refusal: the transaction ends and the table stays. *)
LEMMA RollbackInPlace ==
  ASSUME Typing, NEW s \in Sessions, Rollback(s), UNCHANGED <<now, db, batch>>
  PROVE  Typing'
BY RollbackTyping DEF db, Typing, TypeOK

(* 409 SLOT_TAKEN. *)
LEMMA SlotTakenTyping ==
  ASSUME Typing, NEW s \in Sessions, SlotTaken(s) PROVE Typing'
<1>1. DropTx(s) /\ UNCHANGED <<now, db, batch>> /\ Placing(s)
  BY DEF SlotTaken, Typing, Knows
<1>2. CASE Leave(s)
  BY <1>1, <1>2, RollbackInPlace DEF Rollback
<1>3. CASE \E r \in todo[s] :
          /\ pc'      = [pc EXCEPT ![s] = "cust"]
          /\ cand'    = [cand EXCEPT ![s] = r]
          /\ todo'    = [todo EXCEPT ![s] = @ \ {r}]
          /\ retried' = [retried EXCEPT ![s] = FALSE]
          /\ UNCHANGED req
  <2>1. PICK r \in todo[s] :
          /\ pc'      = [pc EXCEPT ![s] = "cust"]
          /\ cand'    = [cand EXCEPT ![s] = r]
          /\ todo'    = [todo EXCEPT ![s] = @ \ {r}]
          /\ retried' = [retried EXCEPT ![s] = FALSE]
          /\ UNCHANGED req
    BY <1>3
  <2>2. /\ r \in Resources /\ todo' \in [Sessions -> SUBSET Resources]
        /\ retried' \in [Sessions -> BOOLEAN]
    BY <2>1 DEF Typing, TypeOK
  <2> QED BY <1>1, <2>1, <2>2, AgainTyping
<1> QED BY <1>2, <1>3 DEF SlotTaken

(* withDeadlockRetry. *)
LEMMA DeadlockRetryTyping ==
  ASSUME Typing, NEW s \in Sessions, DeadlockRetry(s) PROVE Typing'
<1>1. /\ Placing(s) /\ DropTx(s) /\ pc' = [pc EXCEPT ![s] = "cust"]
      /\ UNCHANGED <<now, db, req, cand, todo, batch>>
      /\ retried' = [retried EXCEPT ![s] = TRUE]
  BY DEF DeadlockRetry
<1>2. /\ cand[s] \in Resources /\ cand' = [cand EXCEPT ![s] = cand[s]]
      /\ todo' \in [Sessions -> SUBSET Resources] /\ retried' \in [Sessions -> BOOLEAN]
  BY <1>1 DEF Typing, TypeOK, Knows, PlacingKnows
<1> QED BY <1>1, <1>2, AgainTyping

-----------------------------------------------------------------------------
(* Deciding and moving. *)

(* The callers of transitionReservation are actors. *)
LEMMA CallerTypes ==
  /\ System \in Actor
  /\ Callers \subseteq Actor
BY DEF System, Callers, Customer, Manager, Owner, Admin, Actor, Accounts

(* transitionReservation up to its guard. *)
LEMMA StartTransitionTyping ==
  ASSUME Typing, NEW s \in Sessions, NEW i \in Ids, NEW to, NEW a \in Actor, NEW at \in Nat,
         StartTransition(s, i, to, a, at),
         batch' \in [Crons -> [to : Statuses \cup {"NONE"}, at : Nat, ids : SUBSET Ids]]
  PROVE  Typing'
<1> DEFINE next == IF RuleFor(rows[i].status, to).revalidate THEN "validate" ELSE "update"
           q == [NoReq EXCEPT !.kind = "TRANSITION", !.at = at, !.actor = a, !.to = to,
                              !.id = i, !.seen = rows[i], !.caps = capacity]
<1>1. /\ rows[i].status # "NONE" /\ Allowed(rows[i].status, to)
      /\ pc' = [pc EXCEPT ![s] = next] /\ req' = [req EXCEPT ![s] = q]
      /\ UNCHANGED <<now, db, cand, todo, retried, tx>>
  BY DEF StartTransition
<1>2. next \in {"validate", "update"} OBVIOUS
<1>3. rows[i] \in Row /\ to \in Statuses
  BY <1>1, NoRowIsNone, TableStatuses DEF Typing, TypeOK
<1>4. /\ q \in Request /\ q.kind = "TRANSITION" /\ q.id \in Ids /\ q.seen \in Row
      /\ q.to \in Statuses /\ q.seen.status = rows[i].status /\ q.to = to
  BY <1>3, NoReqType DEF Request, NoReq, Typing, TypeOK
<1> HIDE DEF next, q
<1>5. TypeOK'
  BY <1>1, <1>2, <1>4 DEF Typing, TypeOK, Statements, db, tx
<1>6. ASSUME NEW t \in Sessions PROVE Knows(t)'
  <2>1. CASE t = s
    BY <1>1, <1>2, <1>4, <2>1 DEF Typing, TypeOK, Knows, Placing, PlacingKnows, DecidingKnows
  <2>2. CASE t # s
    BY <1>1, <2>2 DEF Typing, TypeOK, Knows, Placing, PlacingKnows, DecidingKnows
  <2> QED BY <2>1, <2>2
<1> QED BY <1>5, <1>6 DEF Typing

(* A client decides. *)
LEMMA RequestTransitionTyping ==
  ASSUME Typing, NEW s \in Sessions, RequestTransition(s) PROVE Typing'
<1>1. PICK i \in Ids, to \in Targets, a \in Callers : StartTransition(s, i, to, a, now)
  BY DEF RequestTransition
<1>2. now \in Nat /\ a \in Actor
  BY CallerTypes, ClockAssumption DEF Typing, TypeOK
<1>3. batch' \in [Crons -> [to : Statuses \cup {"NONE"}, at : Nat, ids : SUBSET Ids]]
  BY DEF RequestTransition, Typing, TypeOK
<1> QED BY <1>1, <1>2, <1>3, StartTransitionTyping

(* The revalidation of an approval. *)
LEMMA ValidateTyping ==
  ASSUME Typing, NEW s \in Sessions, Validate(s) PROVE Typing'
<1>1. /\ pc[s] = "validate" /\ Goto(s, "update") /\ UNCHANGED <<now, db, tx, batch>>
  BY DEF Validate
<1>2. DecidingKnows(s) /\ Allowed(req[s].seen.status, req[s].to)
  BY <1>1 DEF Typing, Knows
<1>3. /\ held' \in [Sessions -> SUBSET LockKeys]
      /\ writes' \in [Sessions -> [Ids -> Row \cup {NoRow}]]
      /\ entries' \in [Sessions -> SUBSET LogEntry]
  BY <1>1 DEF Typing, TypeOK, tx
<1> QED BY <1>1, <1>2, <1>3, GotoTyping DEF Statements

(* A transition of a row is a row. *)
LEMMA TransitionedType ==
  ASSUME NEW row \in Row, NEW to \in Statuses, NEW at \in Nat, NEW a
  PROVE  Transitioned(row, to, at, a) \in Row
BY DEF Transitioned, Row

(* The conditional update. *)
LEMMA UpdateTyping ==
  ASSUME Typing, NEW s \in Sessions, Update(s) PROVE Typing'
<1> DEFINE q == req[s]
           row == Transitioned(rows[q.id], q.to, q.at, q.actor)
           e == [id |-> q.id, from |-> q.seen.status, to |-> q.to,
                 fromRsrc |-> None, toRsrc |-> None]
<1>1. /\ pc[s] = "update" /\ StatusAsLoaded(s) /\ Write(s, q.id, row, e)
      /\ UNCHANGED <<now, db, held, batch>>
  BY DEF Update
<1>2. DecidingKnows(s) BY <1>1 DEF Typing, Knows
<1>3. /\ q.id \in Ids /\ q.to \in Statuses /\ q.seen \in Row /\ q.at \in Nat
      /\ q.seen.status \in Statuses
  BY <1>2, RowFields, RequestTime DEF DecidingKnows
<1>4. rows[q.id] \in Row
  BY <1>1, <1>3, StoredRow DEF StatusAsLoaded
<1>9. row \in Row
  BY <1>3, <1>4, TransitionedType
<1>10. e \in LogEntry
  BY <1>3 DEF LogEntry
<1> HIDE DEF row, e
<1>5. /\ writes' \in [Sessions -> [Ids -> Row \cup {NoRow}]]
      /\ entries' \in [Sessions -> SUBSET LogEntry]
  BY <1>1, <1>3, <1>9, <1>10, WriteTyping
<1>6. held' \in [Sessions -> SUBSET LockKeys] BY <1>1 DEF Typing, TypeOK
<1>7. CASE TakesOver(s)
  <2>1. PICK own \in Resources \cup {None} :
          /\ pc'   = [pc EXCEPT ![s] = "target"]
          /\ cand' = [cand EXCEPT ![s] = own]
          /\ UNCHANGED <<req, todo, retried>>
    BY <1>7 DEF Update
  <2>2. TypeOK'
    BY <1>1, <1>5, <1>6, <2>1 DEF Typing, TypeOK, Statements, db
  <2>3. ASSUME NEW t \in Sessions PROVE Knows(t)'
    BY <1>2, <2>1 DEF Typing, TypeOK, Knows, Placing, PlacingKnows, DecidingKnows
  <2> QED BY <2>2, <2>3 DEF Typing
<1>8. CASE ~TakesOver(s)
  <2>1. Goto(s, "commit") BY <1>8 DEF Update
  <2> QED BY <1>1, <1>5, <1>6, <2>1, GotoTyping DEF Statements
<1> QED BY <1>7, <1>8

(* reassignReservation. *)
LEMMA RequestReassignTyping ==
  ASSUME Typing, NEW s \in Sessions, RequestReassign(s) PROVE Typing'
<1> DEFINE q(i) == [NoReq EXCEPT !.kind = "REASSIGN", !.at = now, !.actor = Owner,
                                 !.to = rows[i].status, !.id = i, !.seen = rows[i]]
<1>1. PICK i \in Ids, r \in Resources :
        /\ rows[i].status \in Occupying
        /\ pc'   = [pc EXCEPT ![s] = "target"]
        /\ req'  = [req EXCEPT ![s] = q(i)]
        /\ cand' = [cand EXCEPT ![s] = r]
  BY DEF RequestReassign
<1>2. UNCHANGED <<now, db, todo, retried, tx, batch>> BY DEF RequestReassign
<1>3. rows[i] \in Row /\ rows[i].status \in Statuses /\ now \in Nat
  BY <1>1, StoredRow, RowFields, ClockAssumption DEF Typing, TypeOK, Occupying, Statuses
<1>4. /\ q(i) \in Request /\ q(i).kind = "REASSIGN" /\ q(i).id \in Ids /\ q(i).seen \in Row
      /\ q(i).to \in Statuses
  BY <1>3, NoReqType, PlacingActors DEF Request, NoReq
<1> HIDE DEF q
<1>5. TypeOK'
  BY <1>1, <1>2, <1>4 DEF Typing, TypeOK, Statements, db, tx
<1>6. ASSUME NEW t \in Sessions PROVE Knows(t)'
  BY <1>1, <1>2, <1>4 DEF Typing, TypeOK, Knows, Placing, PlacingKnows, DecidingKnows
<1> QED BY <1>5, <1>6 DEF Typing

(* The read of the target resource. *)
LEMMA ReadTargetTyping ==
  ASSUME Typing, NEW s \in Sessions, ReadTarget(s) PROVE Typing'
<1>1. /\ pc[s] = "target" /\ cand[s] \in Resources
      /\ pc'  = [pc EXCEPT ![s] = "move"]
      /\ req' = [req EXCEPT ![s].caps = capacity]
      /\ UNCHANGED <<now, db, cand, todo, retried, tx, batch>>
  BY DEF ReadTarget, TargetUsable, Typing, TypeOK
<1>2. TypeOK'
  <2>1. req[s] \in Request /\ capacity \in [Resources -> Nat \ {0}]
    BY DEF Typing, TypeOK
  <2>2. [req[s] EXCEPT !.caps = capacity] \in Request
    BY <2>1 DEF Request
  <2> QED BY <1>1, <2>2 DEF Typing, TypeOK, Statements, db, tx
<1>3. ASSUME NEW t \in Sessions PROVE Knows(t)'
  <2>1. CASE t = s
    <3>1. DecidingKnows(s) BY <1>1 DEF Typing, Knows
    <3>2. req[s] \in Request BY DEF Typing, TypeOK
    <3>3. req'[s] = [req[s] EXCEPT !.caps = capacity] BY <1>1 DEF Typing, TypeOK
    <3> QED BY <1>1, <2>1, <3>1, <3>2, <3>3
          DEF Typing, TypeOK, Knows, Placing, PlacingKnows, DecidingKnows, Request
  <2>2. CASE t # s
    BY <1>1, <2>2 DEF Typing, TypeOK, Knows, Placing, PlacingKnows, DecidingKnows
  <2> QED BY <2>1, <2>2
<1> QED BY <1>2, <1>3 DEF Typing

(* The lock of the target resource. *)
LEMMA LockTargetTyping ==
  ASSUME Typing, NEW s \in Sessions, LockTarget(s) PROVE Typing'
<1>1. /\ pc[s] = "move" /\ Hold(s, cand[s]) /\ Goto(s, "relocate")
      /\ UNCHANGED <<now, db, writes, entries, batch>>
  BY DEF LockTarget
<1>2. DecidingKnows(s) /\ cand[s] \in Resources BY <1>1 DEF Typing, Knows
<1>3. /\ held' \in [Sessions -> SUBSET LockKeys]
      /\ writes' \in [Sessions -> [Ids -> Row \cup {NoRow}]]
      /\ entries' \in [Sessions -> SUBSET LogEntry]
  BY <1>1, <1>2 DEF Typing, TypeOK, Hold, LockKeys
<1> QED BY <1>1, <1>2, <1>3, GotoTyping DEF Statements

(* What a session sees is a table. *)
LEMMA ViewType ==
  ASSUME Typing, NEW s \in Sessions PROVE View(s) \in [Ids -> Row \cup {NoRow}]
BY DEF Typing, TypeOK, View

(* The update of a move. *)
LEMMA RelocateTyping ==
  ASSUME Typing, NEW s \in Sessions, Relocate(s) PROVE Typing'
<1> DEFINE e == [id |-> req[s].id, from |-> req[s].to, to |-> req[s].to,
                 fromRsrc |-> req[s].seen.rsrc, toRsrc |-> cand[s]]
<1>1. /\ pc[s] = "relocate" /\ CanRelocate(s) /\ Write(s, req[s].id, Relocated(s), e)
      /\ Goto(s, "commit") /\ UNCHANGED <<now, db, held, batch>>
  BY DEF Relocate
<1>2. DecidingKnows(s) /\ cand[s] \in Resources BY <1>1 DEF Typing, Knows
<1>3. View(s)[req[s].id] \in Row
  BY <1>1, <1>2, NoRowIsNone, ViewType DEF CanRelocate, DecidingKnows, Statuses
<1>4. Relocated(s) \in Row
  BY <1>2, <1>3 DEF Relocated, Row
<1>5. e \in LogEntry
  BY <1>2 DEF DecidingKnows, LogEntry, Row
<1> HIDE DEF e
<1>6. /\ writes' \in [Sessions -> [Ids -> Row \cup {NoRow}]]
      /\ entries' \in [Sessions -> SUBSET LogEntry]
  BY <1>1, <1>2, <1>4, <1>5, WriteTyping DEF DecidingKnows
<1>7. held' \in [Sessions -> SUBSET LockKeys] BY <1>1 DEF Typing, TypeOK
<1> QED BY <1>1, <1>6, <1>7, GotoTyping DEF Statements

-----------------------------------------------------------------------------
(* Every step, and the theorem. *)

(* The commit. *)
LEMMA CommitTyping ==
  ASSUME Typing, NEW s \in Sessions, Commit(s) PROVE Typing'
BY RollbackTyping, ViewType DEF Commit, Typing, TypeOK

(* Every statement. *)
LEMMA StatementTyping ==
  ASSUME Typing, NEW s \in Sessions, Statement(s) PROVE Typing'
<1>1. CASE LockCustomer(s) BY <1>1, LockCustomerTyping
<1>2. CASE CancelOld(s) BY <1>2, CancelOldTyping
<1>3. CASE OldGone(s) BY <1>3, RollbackInPlace DEF OldGone
<1>4. CASE LimitsPass(s)
  <2>1. /\ pc[s] = "limits" /\ Goto(s, "slot") /\ UNCHANGED <<now, db, tx, batch>>
    BY <1>4 DEF LimitsPass
  <2>2. Placing(s) BY <2>1 DEF Typing, Knows
  <2>3. /\ held' \in [Sessions -> SUBSET LockKeys]
        /\ writes' \in [Sessions -> [Ids -> Row \cup {NoRow}]]
        /\ entries' \in [Sessions -> SUBSET LogEntry]
    BY <2>1 DEF Typing, TypeOK, tx
  <2> QED BY <2>1, <2>2, <2>3, GotoTyping DEF Statements
<1>5. CASE LimitsRefuse(s) BY <1>5, RollbackInPlace DEF LimitsRefuse
<1>6. CASE InsertRow(s) BY <1>6, InsertRowTyping
<1>7. CASE SlotTaken(s) BY <1>7, SlotTakenTyping
<1>8. CASE ProductDeleted(s) BY <1>8, RollbackInPlace DEF ProductDeleted
<1>9. CASE Validate(s) BY <1>9, ValidateTyping
<1>10. CASE ValidateRefuse(s) BY <1>10, RollbackInPlace DEF ValidateRefuse
<1>11. CASE Update(s) BY <1>11, UpdateTyping
<1>12. CASE UpdateMisses(s) BY <1>12, RollbackInPlace DEF UpdateMisses
<1>13. CASE ReadTarget(s) BY <1>13, ReadTargetTyping
<1>14. CASE TargetRefuse(s) BY <1>14, RollbackInPlace DEF TargetRefuse
<1>15. CASE LockTarget(s) BY <1>15, LockTargetTyping
<1>16. CASE TargetTaken(s) BY <1>16, RollbackInPlace DEF TargetTaken
<1>17. CASE Relocate(s) BY <1>17, RelocateTyping
<1>18. CASE RelocateMisses(s) BY <1>18, RollbackInPlace DEF RelocateMisses
<1>19. CASE Commit(s) BY <1>19, CommitTyping
<1>20. CASE DeadlockRetry(s) BY <1>20, DeadlockRetryTyping
<1>21. CASE DeadlockFail(s)
  <2>1. batch' \in [Crons -> [to : Statuses \cup {"NONE"}, at : Nat, ids : SUBSET Ids]]
    BY <1>21 DEF DeadlockFail, EndBatch, NoBatch, Typing, TypeOK
  <2> QED BY <1>21, <2>1, RollbackTyping DEF DeadlockFail, db, Typing, TypeOK
<1> QED BY <1>1, <1>2, <1>3, <1>4, <1>5, <1>6, <1>7, <1>8, <1>9, <1>10, <1>11, <1>12,
           <1>13, <1>14, <1>15, <1>16, <1>17, <1>18, <1>19, <1>20, <1>21 DEF Statement

(* A step that leaves the sessions alone. *)
LEMMA IdleTyping ==
  ASSUME Typing, TypeOK', UNCHANGED <<pc, req, cand>> PROVE Typing'
BY DEF Typing, Knows, Placing, PlacingKnows, DecidingKnows

(* The batch jobs. *)
LEMMA BatchTyping ==
  ASSUME Typing, NEW s \in Crons, ExpireRequests(s) \/ AutoNoShow(s) \/ Sweep(s)
  PROVE  Typing'
<1>1. CASE ExpireRequests(s) \/ AutoNoShow(s)
  <2>1. DueRequests \subseteq Ids /\ DueNoShows \subseteq Ids
    BY DEF DueRequests, DueNoShows
  <2>2. PICK to \in {"EXPIRED", "NO_SHOW"}, due \in SUBSET Ids : StartBatch(s, to, due)
    BY <1>1, <2>1 DEF ExpireRequests, AutoNoShow
  <2>3. now \in Nat BY ClockAssumption DEF Typing, TypeOK
  <2>4. TypeOK' BY <2>2, <2>3 DEF StartBatch, Typing, TypeOK, db, tx, Statuses
  <2> QED BY <2>2, <2>4, IdleTyping DEF StartBatch
<1>2. ASSUME NEW i \in Ids
      PROVE  [batch EXCEPT ![s] = Without(@, i)]
               \in [Crons -> [to : Statuses \cup {"NONE"}, at : Nat, ids : SUBSET Ids]]
  BY DEF Without, NoBatch, Typing, TypeOK
<1>3. batch[s].ids \subseteq Ids /\ batch[s].at \in Nat BY DEF Typing, TypeOK
<1>4. CASE BatchStep(s)
  <2>1. PICK i \in Ids : /\ StartTransition(s, i, batch[s].to, System, batch[s].at)
                         /\ batch' = [batch EXCEPT ![s] = Without(@, i)]
    BY <1>3, <1>4 DEF BatchStep
  <2>2. s \in Sessions BY DEF Sessions
  <2> QED BY <1>2, <1>3, <2>1, <2>2, CallerTypes, StartTransitionTyping
<1>5. CASE BatchSkip(s) \/ BatchThrows(s)
  <2>1. PICK i \in Ids : \/ batch' = [batch EXCEPT ![s] = Without(@, i)]
                         \/ batch' = [batch EXCEPT ![s] = NoBatch]
    BY <1>3, <1>5 DEF BatchSkip, BatchThrows
  <2>2. batch' \in [Crons -> [to : Statuses \cup {"NONE"}, at : Nat, ids : SUBSET Ids]]
    BY <1>2, <2>1, SMTT(30) DEF NoBatch, Typing, TypeOK
  <2>3. UNCHANGED <<now, db, pc, req, cand, todo, retried, tx>>
    BY <1>5 DEF BatchSkip, BatchThrows
  <2> QED BY <2>2, <2>3, IdleTyping DEF Typing, TypeOK, db, tx
<1> QED BY <1>1, <1>4, <1>5 DEF Sweep

(* A crash. *)
LEMMA CrashTyping ==
  ASSUME Typing, NEW s \in Sessions, Crash(s) PROVE Typing'
<1>1. batch' \in [Crons -> [to : Statuses \cup {"NONE"}, at : Nat, ids : SUBSET Ids]]
  BY DEF Crash, EndBatch, NoBatch, Typing, TypeOK
<1> QED BY <1>1, RollbackTyping DEF Crash, db, Typing, TypeOK

(* The edits of the owner. *)
LEMMA OwnerEditsTyping ==
  ASSUME Typing, OwnerEdits PROVE Typing'
<1>1. UNCHANGED <<now, rows, pc, req, cand, todo, retried, tx, batch>>
  BY DEF OwnerEdits, EditCapacity, SetResourceActive, SetProductStatus, RemoveProduct
<1>2. capacity' \in [Resources -> Nat \ {0}]
  BY ResourceAssumption DEF OwnerEdits, EditCapacity, SetResourceActive, SetProductStatus,
     RemoveProduct, Typing, TypeOK
<1>3. active' \subseteq Resources
  BY DEF OwnerEdits, EditCapacity, SetResourceActive, SetProductStatus,
     RemoveProduct, Typing, TypeOK
<1>4. shelf' \in [Products -> {"ACTIVE", "HIDDEN", "ARCHIVED", "DELETED"}]
  BY DEF OwnerEdits, EditCapacity, SetResourceActive, SetProductStatus,
     RemoveProduct, Typing, TypeOK
<1> QED BY <1>1, <1>2, <1>3, <1>4, IdleTyping DEF Typing, TypeOK, tx

(* Every step. *)
LEMMA NextTyping == Typing /\ [Next]_vars => Typing'
<1> SUFFICES ASSUME Typing, [Next]_vars PROVE Typing' OBVIOUS
<1>1. ASSUME NEW s \in Sessions, Statement(s) PROVE Typing' BY <1>1, StatementTyping
<1>2. ASSUME NEW s \in Sessions, Crash(s) PROVE Typing' BY <1>2, CrashTyping
<1>3. ASSUME NEW s \in Workers, Arrive(s) PROVE Typing'
  <2>1. s \in Sessions BY DEF Sessions
  <2> QED BY <1>3, <2>1, PlaceTyping, RequestTransitionTyping, RequestReassignTyping
        DEF Arrive
<1>4. ASSUME NEW s \in Crons, ExpireRequests(s) \/ AutoNoShow(s) \/ Sweep(s) PROVE Typing'
  BY <1>4, BatchTyping
<1>5. CASE OwnerEdits BY <1>5, OwnerEditsTyping
<1>6. CASE Tick
  <2>1. now' \in 0..MaxTime BY <1>6, ClockAssumption DEF Tick, Typing, TypeOK
  <2> QED BY <1>6, <2>1, IdleTyping DEF Tick, Typing, TypeOK, db, tx
<1>7. CASE UNCHANGED vars
  BY <1>7, IdleTyping DEF vars, Typing, TypeOK
<1> QED BY <1>1, <1>2, <1>3, <1>4, <1>5, <1>6, <1>7 DEF Next, Rest

(* Types, and what each handler has in hand at each of its statements. *)
THEOREM TypingInvariant == Spec => []Typing
BY InitTyping, NextTyping, PTL DEF Spec

(* TypeOK in every behaviour: no handler reaches a statement with a request   *)
(* that lacks what the statement uses.                                        *)
THEOREM TypeCorrect == Spec => []TypeOK
<1>1. Typing => TypeOK BY DEF Typing
<1> QED BY <1>1, TypingInvariant, PTL

-----------------------------------------------------------------------------
(* Kinds of step. *)

(* The statements of a handler that decides on, or moves, a reservation. *)
Deciding == {"validate", "update", "target", "move", "relocate"}

(* A step of s leaves the other sessions alone. *)
OthersStill(s) ==
  \A t \in Sessions \ {s} :
    /\ pc'[t] = pc[t] /\ req'[t] = req[t] /\ cand'[t] = cand[t]
    /\ held'[t] = held[t] /\ writes'[t] = writes[t] /\ entries'[t] = entries[t]

SameRequest(s) ==
  /\ req'[s].id = req[s].id /\ req'[s].seen = req[s].seen /\ req'[s].to = req[s].to

(* The kinds of step, told apart by what they do to the locks and the writes. *)
Elsewhere == UNCHANGED <<rows, pc, req, cand, held, writes, entries>>

Begins(s) ==
  /\ OthersStill(s) /\ UNCHANGED <<rows, held, writes, entries>>
  /\ pc[s] = "idle" /\ pc'[s] \in {"cust", "validate", "update", "target"}
  /\ pc'[s] \in Deciding => /\ req'[s].id \in Ids
                            /\ rows[req'[s].id].status # "NONE"
                            /\ req'[s].seen = rows[req'[s].id]

GoesOn(s) ==
  /\ OthersStill(s) /\ UNCHANGED <<rows, held, writes, entries>>
  /\ <<pc[s], pc'[s]>> \in {<<"limits", "slot">>, <<"validate", "update">>, <<"target", "move">>}
  /\ SameRequest(s)

EndsTx(s) ==
  /\ OthersStill(s)
  /\ held'[s] = {} /\ writes'[s] = NoWrites /\ entries'[s] = {}
  /\ pc'[s] \in {"idle", "cust"}
  /\ rows' = rows \/ (pc[s] = "commit" /\ rows' = View(s))

Writes(s, i, row, e) ==
  /\ OthersStill(s) /\ UNCHANGED rows /\ SameRequest(s)
  /\ i \in Ids /\ row \in Row
  /\ writes'[s] = [writes[s] EXCEPT ![i] = row]
  /\ entries'[s] = entries[s] \cup {e}

Kind(s) ==
  \/ Begins(s) \/ GoesOn(s) \/ EndsTx(s)
  \/ LockCustomer(s) \/ LockTarget(s)
  \/ CancelOld(s) \/ InsertRow(s) \/ Update(s) \/ Relocate(s)

(* Every way out of a transaction is an EndsTx. *)
LEMMA RollbackEnds ==
  ASSUME Typing, NEW s \in Sessions, Rollback(s),
         rows' = rows \/ (pc[s] = "commit" /\ rows' = View(s))
  PROVE  EndsTx(s)
BY DEF Typing, TypeOK, Rollback, Leave, DropTx, EndsTx, OthersStill

(* The entry points of create.ts only open a handler. *)
LEMMA PlaceBegins ==
  ASSUME Typing, NEW s \in Sessions, Place(s) PROVE Begins(s)
<1>1. pc[s] = "idle" BY DEF Place, RequestPlace, RequestWalkIn, RequestChange
<1>2. PICK q, offered : StartPlacing(s, q, offered)
  BY ZenonT(30) DEF Place, RequestPlace, RequestWalkIn, RequestChange
<1>3. /\ pc' = [pc EXCEPT ![s] = "cust"] /\ req' = [req EXCEPT ![s] = q]
      /\ UNCHANGED <<rows, held, writes, entries>>
      /\ \E r \in offered : cand' = [cand EXCEPT ![s] = r]
  BY <1>2 DEF StartPlacing, db, tx
<1> QED BY <1>1, <1>3, SMTT(30) DEF Begins, OthersStill, Deciding, Typing, TypeOK

(* So do the first statements of transitionReservation, on the committed row. *)
LEMMA TransitionBegins ==
  ASSUME Typing, NEW s \in Sessions, NEW i \in Ids, NEW to, NEW a, NEW at,
         pc[s] = "idle", StartTransition(s, i, to, a, at)
  PROVE  Begins(s)
<1> DEFINE next == IF RuleFor(rows[i].status, to).revalidate THEN "validate" ELSE "update"
           q == [NoReq EXCEPT !.kind = "TRANSITION", !.at = at, !.actor = a, !.to = to,
                              !.id = i, !.seen = rows[i], !.caps = capacity]
<1>1. /\ rows[i].status # "NONE" /\ next \in {"validate", "update"}
      /\ pc' = [pc EXCEPT ![s] = next] /\ req' = [req EXCEPT ![s] = q]
      /\ UNCHANGED <<now, db, cand, todo, retried, tx>>
  BY DEF StartTransition
<1>2. q.id = i /\ q.seen = rows[i] BY DEF NoReq
<1> HIDE DEF next, q
<1> QED BY <1>1, <1>2 DEF Begins, OthersStill, Typing, TypeOK, db, tx

(* So does reassignReservation. *)
LEMMA ReassignBegins ==
  ASSUME Typing, NEW s \in Sessions, RequestReassign(s) PROVE Begins(s)
<1> DEFINE q(i) == [NoReq EXCEPT !.kind = "REASSIGN", !.at = now, !.actor = Owner,
                                 !.to = rows[i].status, !.id = i, !.seen = rows[i]]
<1>1. PICK i \in Ids, r \in Resources :
        /\ rows[i].status \in Occupying
        /\ pc'   = [pc EXCEPT ![s] = "target"]
        /\ req'  = [req EXCEPT ![s] = q(i)]
        /\ cand' = [cand EXCEPT ![s] = r]
  BY DEF RequestReassign
<1>2. pc[s] = "idle" /\ UNCHANGED <<now, db, todo, retried, tx, batch>>
  BY DEF RequestReassign
<1>3. q(i).id = i /\ q(i).seen = rows[i] BY DEF NoReq
<1> HIDE DEF q
<1> QED BY <1>1, <1>2, <1>3 DEF Begins, OthersStill, Typing, TypeOK, db, tx, Occupying

(* Every statement of a transaction is of one of the kinds. *)
LEMMA StatementKind ==
  ASSUME Typing, NEW s \in Sessions, Statement(s) PROVE Kind(s)
<1>1. CASE LimitsPass(s) \/ Validate(s)
  BY <1>1 DEF LimitsPass, Validate, Goto, Kind, GoesOn, OthersStill, SameRequest,
              Typing, TypeOK, db, tx
<1>2. CASE ReadTarget(s)
  <2>1. /\ req[s] \in Request /\ req'[s] = [req[s] EXCEPT !.caps = capacity]
        /\ \A t \in Sessions \ {s} : req'[t] = req[t]
    BY <1>2 DEF ReadTarget, Typing, TypeOK
  <2>2. SameRequest(s) BY <2>1 DEF SameRequest, Request
  <2> QED BY <1>2, <2>1, <2>2 DEF ReadTarget, Kind, GoesOn, OthersStill, Typing, TypeOK, db, tx
<1>3. CASE Rollback(s) /\ UNCHANGED rows
  BY <1>3, RollbackEnds DEF Kind
<1>4. CASE Commit(s)
  BY <1>4, RollbackEnds DEF Commit, Kind
<1>5. CASE SlotTaken(s)
  <2>1. CASE Leave(s)
    BY <1>5, <2>1, RollbackEnds DEF SlotTaken, Rollback, Kind, db
  <2>2. CASE ~Leave(s)
    BY <1>5, <2>2 DEF SlotTaken, DropTx, Kind, EndsTx, OthersStill, Typing, TypeOK, db
  <2> QED BY <2>1, <2>2
<1>6. CASE DeadlockRetry(s)
  BY <1>6 DEF DeadlockRetry, DropTx, Kind, EndsTx, OthersStill, Typing, TypeOK, db
<1>7. CASE LockCustomer(s) \/ LockTarget(s) \/ CancelOld(s) \/ InsertRow(s) \/ Update(s)
             \/ Relocate(s)
  BY <1>7 DEF Kind
<1> QED BY <1>1, <1>2, <1>3, <1>4, <1>5, <1>6, <1>7
        DEF Statement, OldGone, LimitsRefuse, ProductDeleted, ValidateRefuse, UpdateMisses,
            TargetRefuse, TargetTaken, RelocateMisses, DeadlockFail, db

(* So is every step; the others leave sessions and table alone. *)
LEMMA StepKinds ==
  Typing /\ [Next]_vars => Elsewhere \/ \E s \in Sessions : Kind(s)
<1> SUFFICES ASSUME Typing, [Next]_vars
             PROVE  Elsewhere \/ \E s \in Sessions : Kind(s)
  OBVIOUS
<1>1. ASSUME NEW s \in Sessions, Statement(s) PROVE Kind(s) BY <1>1, StatementKind
<1>2. ASSUME NEW s \in Sessions, Crash(s) PROVE Kind(s)
  BY <1>2, RollbackEnds DEF Crash, Kind, db
<1>3. ASSUME NEW s \in Workers, Arrive(s) PROVE s \in Sessions /\ Kind(s)
  <2>1. s \in Sessions BY DEF Sessions
  <2>2. CASE Place(s) BY <2>1, <2>2, PlaceBegins DEF Kind
  <2>3. CASE RequestTransition(s)
    BY <2>1, <2>3, TransitionBegins DEF RequestTransition, Kind
  <2>4. CASE RequestReassign(s) BY <2>1, <2>4, ReassignBegins DEF Kind
  <2> QED BY <1>3, <2>1, <2>2, <2>3, <2>4 DEF Arrive
<1>4. ASSUME NEW s \in Crons, ExpireRequests(s) \/ AutoNoShow(s) \/ Sweep(s)
      PROVE  Elsewhere \/ \E t \in Sessions : Kind(t)
  <2>1. s \in Sessions /\ batch[s].ids \subseteq Ids BY DEF Sessions, Typing, TypeOK
  <2>2. CASE BatchStep(s)
    BY <2>1, <2>2, TransitionBegins DEF BatchStep, Kind
  <2>3. CASE ~BatchStep(s)
    BY <1>4, <2>3 DEF ExpireRequests, AutoNoShow, StartBatch, Sweep, BatchSkip, BatchThrows,
                      Elsewhere, db, tx
  <2> QED BY <2>2, <2>3
<1>5. CASE OwnerEdits
  BY <1>5 DEF OwnerEdits, EditCapacity, SetResourceActive, SetProductStatus, RemoveProduct,
              Elsewhere, tx
<1>6. CASE Tick \/ UNCHANGED vars
  BY <1>6 DEF Tick, vars, Elsewhere, db, tx
<1> QED BY <1>1, <1>2, <1>3, <1>4, <1>5, <1>6 DEF Next, Rest

-----------------------------------------------------------------------------
(* Locks. *)

Clean(s) == held[s] = {} /\ writes[s] = NoWrites

LocksByStep(s) ==
  /\ pc[s] \in {"idle", "cust", "validate", "update"} => Clean(s)
  /\ pc[s] = "old" => writes[s] = NoWrites
  /\ pc[s] \in {"limits", "slot", "old", "target", "move"} => held[s] \cap Resources = {}

OneHolder(s, t) ==
  /\ held[s] \cap held[t] = {}
  /\ \A i \in Ids : ~(Written(s, i) /\ Written(t, i))

Locking ==
  /\ \A s \in Sessions : LocksByStep(s)
  /\ \A s, t \in Sessions : s # t => OneHolder(s, t)

(* A clean transaction has no version of any row. *)
LEMMA NothingWritten ==
  ASSUME NEW s \in Sessions, NEW i \in Ids, writes[s] = NoWrites PROVE ~Written(s, i)
BY NoRowIsNone DEF Written, NoWrites

(* A row is never the absent row. *)
LEMMA RealRow == ASSUME NEW row \in Row PROVE row.status # "NONE" /\ row # NoRow
BY NoRowIsNone DEF Row, Statuses

(* CancelOld as a write, with what is known of the row. *)
LEMMA CancelOldWrites ==
  ASSUME Typing, NEW s \in Sessions, CancelOld(s)
  PROVE  /\ pc[s] = "old" /\ pc'[s] = "limits" /\ held' = held
         /\ req[s].id \in Ids /\ RowFree(s, req[s].id)
         /\ rows[req[s].id] \in Row /\ rows[req[s].id].status \in Occupying
         /\ Writes(s, req[s].id,
                   [rows[req[s].id] EXCEPT !.status = "CANCELED_BY_USER",
                                           !.canceledAt = req[s].at],
                   [id |-> req[s].id, from |-> rows[req[s].id].status,
                    to |-> "CANCELED_BY_USER", fromRsrc |-> None, toRsrc |-> None])
<1> DEFINE i == req[s].id
           row == [rows[i] EXCEPT !.status = "CANCELED_BY_USER", !.canceledAt = req[s].at]
           e == [id |-> i, from |-> rows[i].status, to |-> "CANCELED_BY_USER",
                 fromRsrc |-> None, toRsrc |-> None]
<1>1. /\ pc[s] = "old" /\ StillLive(rows[i]) /\ Write(s, i, row, e) /\ Goto(s, "limits")
      /\ UNCHANGED <<now, db, held, batch>> /\ RowFree(s, i)
  BY DEF CancelOld
<1>2. i \in Ids /\ req[s].at \in Nat
  BY <1>1, RequestTime DEF Typing, Knows, PlacingKnows
<1>3. rows[i] \in Row
  BY <1>1, <1>2, StoredRow DEF Occupying, StillLive, Statuses
<1>4. row \in Row BY <1>2, <1>3 DEF Row, Statuses
<1> HIDE DEF row, e
<1>5. Writes(s, i, row, e)
  BY <1>1, <1>2, <1>4 DEF Write, Goto, Writes, OthersStill, SameRequest, Typing, TypeOK, db
<1> QED BY <1>1, <1>2, <1>3, <1>5 DEF row, e, Goto, Typing, TypeOK, StillLive

(* InsertRow as a write, with the lock it takes. *)
LEMMA InsertRowWrites ==
  ASSUME Typing, NEW s \in Sessions, InsertRow(s)
  PROVE  /\ pc[s] = "slot" /\ pc'[s] = "commit"
         /\ cand[s] \in Resources /\ KeyFree(s, cand[s]) /\ Room(s) /\ Placing(s)
         /\ held' = [held EXCEPT ![s] = @ \cup {cand[s]}]
         /\ \E i \in FreeIds :
              Writes(s, i, NewRow(s), [id |-> i, from |-> "NONE", to |-> NewStatus(s),
                                       fromRsrc |-> None, toRsrc |-> cand[s]])
<1> DEFINE e(i) == [id |-> i, from |-> "NONE", to |-> NewStatus(s),
                    fromRsrc |-> None, toRsrc |-> cand[s]]
<1>1. /\ pc[s] = "slot" /\ Goto(s, "commit") /\ Hold(s, cand[s]) /\ KeyFree(s, cand[s])
      /\ Room(s) /\ UNCHANGED <<now, db, batch>>
  BY DEF InsertRow
<1>2. PICK i \in FreeIds : Write(s, i, NewRow(s), e(i)) BY DEF InsertRow
<1>3. Placing(s) /\ cand[s] \in Resources BY <1>1 DEF Typing, Knows, PlacingKnows
<1>4. i \in Ids /\ NewRow(s) \in Row BY <1>3, NewRowType DEF FreeIds
<1> HIDE DEF e
<1>5. Writes(s, i, NewRow(s), e(i))
  BY <1>1, <1>2, <1>4 DEF Write, Goto, Hold, Writes, OthersStill, SameRequest, Typing, TypeOK, db
<1>6. \E j \in FreeIds : Writes(s, j, NewRow(s), e(j)) BY <1>5
<1> QED BY <1>1, <1>3, <1>6 DEF e, Goto, Hold, Typing, TypeOK

(* Update as a write, with the transition it makes. *)
LEMMA UpdateWrites ==
  ASSUME Typing, NEW s \in Sessions, Update(s)
  PROVE  LET q == req[s]
         IN  /\ pc[s] = "update" /\ pc'[s] \in {"commit", "target"} /\ held' = held
             /\ q.id \in Ids /\ RowFree(s, q.id) /\ Allowed(q.seen.status, q.to)
             /\ rows[q.id] \in Row /\ rows[q.id].status = q.seen.status
             /\ Writes(s, q.id, Transitioned(rows[q.id], q.to, q.at, q.actor),
                       [id |-> q.id, from |-> q.seen.status, to |-> q.to,
                        fromRsrc |-> None, toRsrc |-> None])
<1> DEFINE q == req[s]
           row == Transitioned(rows[q.id], q.to, q.at, q.actor)
           e == [id |-> q.id, from |-> q.seen.status, to |-> q.to,
                 fromRsrc |-> None, toRsrc |-> None]
<1>1. /\ pc[s] = "update" /\ StatusAsLoaded(s) /\ Write(s, q.id, row, e) /\ RowFree(s, q.id)
      /\ UNCHANGED <<now, db, held, batch>>
  BY DEF Update
<1>2. DecidingKnows(s) /\ Allowed(q.seen.status, q.to) BY <1>1 DEF Typing, Knows
<1>3. /\ q.id \in Ids /\ q.to \in Statuses /\ q.seen \in Row /\ q.at \in Nat
      /\ q.seen.status \in Statuses
  BY <1>2, RowFields, RequestTime DEF DecidingKnows
<1>4. rows[q.id] \in Row BY <1>1, <1>3, StoredRow DEF StatusAsLoaded
<1>5. row \in Row BY <1>3, <1>4, TransitionedType
<1> HIDE DEF row, e
<1>6. /\ pc'[s] \in {"commit", "target"}
      /\ \A t \in Sessions \ {s} : pc'[t] = pc[t] /\ req'[t] = req[t] /\ cand'[t] = cand[t]
      /\ req'[s] = req[s]
  BY DEF Update, Goto, Typing, TypeOK
<1>7. Writes(s, q.id, row, e)
  BY <1>1, <1>3, <1>5, <1>6 DEF Write, Writes, OthersStill, SameRequest, Typing, TypeOK, db
<1> QED BY <1>1, <1>2, <1>3, <1>4, <1>6, <1>7 DEF row, e, StatusAsLoaded

(* Relocate as a write, of the row as the session sees it. *)
LEMMA RelocateWrites ==
  ASSUME Typing, NEW s \in Sessions, Relocate(s)
  PROVE  LET q == req[s]
         IN  /\ pc[s] = "relocate" /\ pc'[s] = "commit" /\ held' = held
             /\ q.id \in Ids /\ RowFree(s, q.id) /\ cand[s] \in Resources
             /\ View(s)[q.id] \in Row
             /\ View(s)[q.id].rsrc = q.seen.rsrc /\ View(s)[q.id].status = q.to
             /\ Writes(s, q.id, Relocated(s),
                       [id |-> q.id, from |-> q.to, to |-> q.to,
                        fromRsrc |-> q.seen.rsrc, toRsrc |-> cand[s]])
<1> DEFINE q == req[s]
           e == [id |-> q.id, from |-> q.to, to |-> q.to,
                 fromRsrc |-> q.seen.rsrc, toRsrc |-> cand[s]]
<1>1. /\ pc[s] = "relocate" /\ CanRelocate(s) /\ Write(s, q.id, Relocated(s), e)
      /\ Goto(s, "commit") /\ UNCHANGED <<now, db, held, batch>> /\ RowFree(s, q.id)
  BY DEF Relocate
<1>2. q.id \in Ids /\ q.to \in Statuses /\ cand[s] \in Resources
  BY <1>1 DEF Typing, Knows, DecidingKnows
<1>3. View(s)[q.id] \in Row
  BY <1>1, <1>2, NoRowIsNone, ViewType DEF CanRelocate, Statuses
<1>4. Relocated(s) \in Row BY <1>2, <1>3 DEF Relocated, Row
<1> HIDE DEF e
<1>5. Writes(s, q.id, Relocated(s), e)
  BY <1>1, <1>2, <1>4 DEF Write, Goto, Writes, OthersStill, SameRequest, Typing, TypeOK, db
<1> QED BY <1>1, <1>2, <1>3, <1>5 DEF e, CanRelocate, Goto, Typing, TypeOK

(* LockTarget as the taking of a free key. *)
LEMMA LockTargetTakes ==
  ASSUME Typing, NEW s \in Sessions, LockTarget(s)
  PROVE  /\ OthersStill(s) /\ UNCHANGED <<rows, req, cand, writes, entries>>
         /\ pc[s] = "move" /\ pc'[s] = "relocate" /\ KeyFree(s, cand[s]) /\ TargetFits(s)
         /\ cand[s] \in Resources /\ held' = [held EXCEPT ![s] = @ \cup {cand[s]}]
<1>1. cand[s] \in Resources BY DEF LockTarget, Typing, Knows
<1> QED BY <1>1 DEF LockTarget, Goto, Hold, OthersStill, Typing, TypeOK, db

(* LockCustomer as the taking of a free key. *)
LEMMA LockCustomerTakes ==
  ASSUME Typing, NEW s \in Sessions, LockCustomer(s)
  PROVE  /\ OthersStill(s) /\ UNCHANGED <<rows, req, cand, writes, entries>>
         /\ pc[s] = "cust" /\ pc'[s] \in {"old", "limits", "slot"} /\ KeyFree(s, Account(s))
         /\ Account(s) \notin Resources
         /\ held' = [held EXCEPT ![s] = @ \cup {Account(s)}]
<1>1. Placing(s) BY DEF LockCustomer, Typing, Knows
<1>2. Account(s) \notin Resources BY <1>1, AccountType, NamesAssumption
<1>3. pc'[s] \in {"old", "limits", "slot"}
  BY <1>1 DEF LockCustomer, Goto, Placing, Typing, TypeOK
<1> QED BY <1>2, <1>3 DEF LockCustomer, Goto, Hold, OthersStill, Typing, TypeOK, db

(* A write under a row lock keeps the locks exclusive. *)
LEMMA WritesLocking ==
  ASSUME Typing, Locking, NEW s \in Sessions, NEW i, NEW row, NEW e,
         Writes(s, i, row, e), RowFree(s, i),
         NEW k, held'[s] = held[s] \cup k,
         \A t \in Sessions \ {s} : k \cap held[t] = {},
         \/ pc'[s] = "commit"
         \/ pc'[s] \in {"limits", "target"} /\ k = {} /\ held[s] \cap Resources = {}
  PROVE  Locking'
<1>1. \A t \in Sessions : t # s => (Written(t, i)' <=> Written(t, i)) /\ ~Written(t, i)
  BY DEF Writes, OthersStill, Written, RowFree
<1>2. \A t \in Sessions, j \in Ids : j # i \/ t # s => (Written(t, j)' <=> Written(t, j))
  BY DEF Writes, OthersStill, Written, Typing, TypeOK
<1>3. ASSUME NEW t \in Sessions PROVE LocksByStep(t)'
  <2>1. CASE t = s BY <2>1 DEF LocksByStep
  <2>2. CASE t # s
    <3>1. pc'[t] = pc[t] /\ held'[t] = held[t] /\ writes'[t] = writes[t]
      BY <2>2 DEF Writes, OthersStill
    <3> QED BY <3>1 DEF Locking, LocksByStep, Clean
  <2> QED BY <2>1, <2>2
<1>4. ASSUME NEW t \in Sessions, NEW u \in Sessions, t # u PROVE OneHolder(t, u)'
  <2>1. held'[t] \cap held'[u] = {}
    BY <1>4 DEF Writes, OthersStill, Locking, OneHolder
  <2>2. \A j \in Ids : ~(Written(t, j)' /\ Written(u, j)')
    BY <1>1, <1>2, <1>4 DEF Locking, OneHolder, Writes
  <2> QED BY <2>1, <2>2 DEF OneHolder, Written
<1> QED BY <1>3, <1>4 DEF Locking

(* Every step keeps the locks exclusive. *)
LEMMA LockingStep == Typing /\ Locking /\ [Next]_vars => Locking'
<1> SUFFICES ASSUME Typing, Locking, [Next]_vars PROVE Locking' OBVIOUS
<1>1. CASE Elsewhere
  BY <1>1 DEF Elsewhere, Locking, LocksByStep, Clean, OneHolder, Written
<1>2. ASSUME NEW s \in Sessions, Begins(s) \/ GoesOn(s) PROVE Locking'
  <2>1. /\ \/ /\ pc[s] \in {"idle", "validate"}
              /\ pc'[s] \in {"cust", "validate", "update", "target"}
           \/ pc[s] \in {"limits", "target"} /\ pc'[s] \in {"slot", "move"}
        /\ OthersStill(s) /\ UNCHANGED <<rows, held, writes, entries>>
    BY <1>2 DEF Begins, GoesOn
  <2>2. ASSUME NEW t \in Sessions PROVE LocksByStep(t)'
    <3>1. CASE t = s BY <2>1, <3>1 DEF Locking, LocksByStep, Clean
    <3>2. CASE t # s
      <4>1. pc'[t] = pc[t] BY <2>1, <3>2 DEF OthersStill
      <4> QED BY <2>1, <4>1 DEF Locking, LocksByStep, Clean
    <3> QED BY <3>1, <3>2
  <2> QED BY <2>1, <2>2 DEF Locking, OneHolder, Written
<1>3. ASSUME NEW s \in Sessions, EndsTx(s) PROVE Locking'
  <2>1. \A j \in Ids : ~Written(s, j)'
    BY <1>3, NoRowIsNone DEF EndsTx, Written, NoWrites
  <2>2. ASSUME NEW t \in Sessions PROVE LocksByStep(t)'
    BY <1>3 DEF EndsTx, OthersStill, Locking, LocksByStep, Clean
  <2>3. ASSUME NEW t \in Sessions, NEW u \in Sessions, t # u PROVE OneHolder(t, u)'
    BY <1>3, <2>1, <2>3 DEF EndsTx, OthersStill, Locking, OneHolder, Written
  <2> QED BY <2>2, <2>3 DEF Locking
<1>4. ASSUME NEW s \in Sessions, LockCustomer(s) \/ LockTarget(s) PROVE Locking'
  <2>1. PICK k : /\ KeyFree(s, k) /\ held' = [held EXCEPT ![s] = @ \cup {k}]
                 /\ OthersStill(s) /\ UNCHANGED writes
                 /\ \/ pc[s] = "cust" /\ pc'[s] \in {"old", "limits", "slot"} /\ k \notin Resources
                    \/ pc'[s] = "relocate"
    BY <1>4, LockCustomerTakes, LockTargetTakes
  <2>2. held'[s] = held[s] \cup {k} BY <2>1 DEF Typing, TypeOK
  <2>3. ASSUME NEW t \in Sessions PROVE LocksByStep(t)'
    <3>1. CASE t = s BY <2>1, <2>2, <3>1 DEF Locking, LocksByStep, Clean
    <3>2. CASE t # s
      <4>1. pc'[t] = pc[t] /\ held'[t] = held[t] BY <2>1, <3>2 DEF OthersStill
      <4> QED BY <2>1, <4>1 DEF Locking, LocksByStep, Clean
    <3> QED BY <3>1, <3>2
  <2>4. ASSUME NEW t \in Sessions, NEW u \in Sessions, t # u PROVE OneHolder(t, u)'
    BY <2>1, <2>2, <2>4 DEF OthersStill, KeyFree, Locking, OneHolder, Written
  <2> QED BY <2>3, <2>4 DEF Locking
<1>5. ASSUME NEW s \in Sessions, CancelOld(s) PROVE Locking'
  <2>1. held[s] \cap Resources = {} /\ held'[s] = held[s] \cup {}
    BY <1>5, CancelOldWrites DEF Locking, LocksByStep
  <2> QED BY <1>5, <2>1, CancelOldWrites, WritesLocking
<1>6. ASSUME NEW s \in Sessions, InsertRow(s) PROVE Locking'
  <2>1. PICK i \in FreeIds :
          Writes(s, i, NewRow(s), [id |-> i, from |-> "NONE", to |-> NewStatus(s),
                                   fromRsrc |-> None, toRsrc |-> cand[s]])
    BY <1>6, InsertRowWrites
  <2>2. RowFree(s, i) BY DEF FreeIds, RowFree
  <2>3. held'[s] = held[s] \cup {cand[s]} BY <1>6, InsertRowWrites DEF Typing, TypeOK
  <2>4. \A t \in Sessions \ {s} : {cand[s]} \cap held[t] = {}
    BY <1>6, InsertRowWrites DEF KeyFree
  <2> QED BY <1>6, <2>1, <2>2, <2>3, <2>4, InsertRowWrites, WritesLocking
<1>7. ASSUME NEW s \in Sessions, Update(s) PROVE Locking'
  <2>1. held[s] \cap Resources = {} /\ held'[s] = held[s] \cup {}
    BY <1>7, UpdateWrites DEF Locking, LocksByStep, Clean
  <2>2. PICK i, row, e : Writes(s, i, row, e) /\ RowFree(s, i)
    BY <1>7, UpdateWrites
  <2>3. pc'[s] \in {"commit", "target"} BY <1>7, UpdateWrites
  <2> QED BY <2>1, <2>2, <2>3, WritesLocking
<1>8. ASSUME NEW s \in Sessions, Relocate(s) PROVE Locking'
  <2>1. held'[s] = held[s] \cup {} BY <1>8, RelocateWrites
  <2>2. PICK i, row, e : Writes(s, i, row, e) /\ RowFree(s, i)
    BY <1>8, RelocateWrites
  <2>3. pc'[s] = "commit" BY <1>8, RelocateWrites
  <2>4. \A t \in Sessions \ {s} : {} \cap held[t] = {} OBVIOUS
  <2> QED BY <2>1, <2>2, <2>3, <2>4, WritesLocking
<1> QED BY <1>1, <1>2, <1>3, <1>4, <1>5, <1>6, <1>7, <1>8, StepKinds DEF Kind

(* An advisory key and a row lock have one holder at a time, and before its  *)
(* statement asks for one a handler holds none it should not: the locking     *)
(* that create.ts and transitions.ts rely on.                                 *)
THEOREM LocksHeldOnce == Spec => []Locking
<1>1. Init => Locking
  BY NoRowIsNone DEF Init, Locking, LocksByStep, Clean, OneHolder, Written, NoWrites
<1> QED BY <1>1, LockingStep, TypingInvariant, PTL DEF Spec

(* AdvisoryLocksAcyclic for every number of sessions: among sessions that    *)
(* wait for advisory locks there is always one that waits for none of the    *)
(* others (the lock order of create.ts).                                     *)
THEOREM NoAdvisoryDeadlock == Spec => []AdvisoryLocksAcyclic
<1>1. Typing /\ Locking => AdvisoryLocksAcyclic
  <2> SUFFICES ASSUME Typing, Locking, NEW S \in SUBSET Sessions, S # {}
               PROVE  \E s \in S : \A t \in S \ {s} : ~WaitsForKey(s, t)
    BY DEF AdvisoryLocksAcyclic
  <2>1. CASE \E s \in S : pc[s] \notin {"cust", "slot", "move"}
    BY <2>1 DEF WaitsForKey
  <2>2. CASE \A s \in S : pc[s] \in {"cust", "slot", "move"}
    <3>1. \A s \in S : held[s] \cap Resources = {}
      BY <2>2 DEF Locking, LocksByStep, Clean
    <3>2. \A s \in S : pc[s] \in {"slot", "move"} => cand[s] \in Resources
      BY DEF Typing, Knows, PlacingKnows
    <3>3. CASE \E s \in S : pc[s] \in {"slot", "move"}
      BY <3>1, <3>2, <3>3 DEF WaitsForKey
    <3>4. CASE \A s \in S : pc[s] = "cust"
      BY <3>4 DEF Locking, LocksByStep, Clean, WaitsForKey
    <3> QED BY <2>2, <3>3, <3>4
  <2> QED BY <2>1, <2>2
<1> QED BY <1>1, TypingInvariant, LocksHeldOnce, PTL

-----------------------------------------------------------------------------
(* What a transaction may have written, against the row as committed. *)

Kept(old, new) ==
  /\ new.cust = old.cust /\ new.prod = old.prod
  /\ new.start = old.start /\ new.end = old.end /\ new.lo = old.lo /\ new.hi = old.hi
  /\ new.party = old.party /\ new.via = old.via /\ new.replaces = old.replaces
  /\ new.created = old.created

Follows(from, to) == from = to \/ Allowed(from, to)

Noted(old, new, log, i) ==
  /\ new.status # old.status =>
       \E e \in log : e.id = i /\ e.from = old.status /\ e.to = new.status
  /\ old.status # "NONE" /\ new.rsrc # old.rsrc =>
       \E e \in log : e.id = i /\ e.fromRsrc = old.rsrc /\ e.toRsrc = new.rsrc

Recorded(s) ==
  \A i \in Ids : Written(s, i) =>
    /\ rows[i].status # "NONE" => /\ Kept(rows[i], writes[s][i])
                                  /\ Follows(rows[i].status, writes[s][i].status)
    /\ Noted(rows[i], writes[s][i], entries[s], i)

About(s) ==
  LET i == req[s].id
  IN  /\ pc[s] \in Deciding => /\ i \in Ids /\ rows[i].status # "NONE"
                               /\ rows[i].lo = req[s].seen.lo /\ rows[i].hi = req[s].seen.hi
                               /\ rows[i].party = req[s].seen.party
      /\ pc[s] \in {"target", "move", "relocate"} /\ Written(s, i) =>
           writes[s][i].rsrc = rows[i].rsrc

Faithful == \A s \in Sessions : Recorded(s) /\ About(s)

(* The write of one more row, by a session that knows what it writes. *)
LEMMA WritesFaithful ==
  ASSUME Typing, Faithful, NEW s \in Sessions, NEW i, NEW row, NEW e,
         Writes(s, i, row, e),
         rows[i].status # "NONE" => /\ Kept(rows[i], row)
                                    /\ Follows(rows[i].status, row.status),
         Noted(rows[i], row, entries[s] \cup {e}, i),
         \/ pc'[s] \in {"commit", "limits"}
         \/ pc'[s] = "target" /\ pc[s] \in Deciding /\ i = req[s].id /\ row.rsrc = rows[i].rsrc
  PROVE  Faithful'
<1>1. rows' = rows /\ i \in Ids /\ row \in Row /\ OthersStill(s) /\ SameRequest(s)
      /\ writes'[s] = [writes[s] EXCEPT ![i] = row] /\ entries'[s] = entries[s] \cup {e}
  BY DEF Writes
<1>2. writes[s] \in [Ids -> Row \cup {NoRow}] BY DEF Typing, TypeOK
<1>3. ASSUME NEW t \in Sessions, t # s PROVE Recorded(t)' /\ About(t)'
  <2>1. /\ pc'[t] = pc[t] /\ req'[t] = req[t] /\ writes'[t] = writes[t]
        /\ entries'[t] = entries[t]
    BY <1>1, <1>3 DEF OthersStill
  <2>2. Recorded(t) /\ About(t) BY DEF Faithful
  <2> QED BY <1>1, <2>1, <2>2 DEF Recorded, About, Written
<1>4. ASSUME NEW j \in Ids, Written(s, j)'
      PROVE  /\ rows[j].status # "NONE" =>
                  /\ Kept(rows[j], writes'[s][j])
                  /\ Follows(rows[j].status, writes'[s][j].status)
             /\ Noted(rows[j], writes'[s][j], entries'[s], j)
  <2>1. CASE j = i
    <3>1. writes'[s][j] = row BY <1>1, <1>2, <2>1
    <3> QED BY <1>1, <2>1, <3>1
  <2>2. CASE j # i
    <3>1. writes'[s][j] = writes[s][j] /\ Written(s, j)
      BY <1>1, <1>2, <1>4, <2>2 DEF Written
    <3>2. Noted(rows[j], writes[s][j], entries'[s], j)
      BY <1>1, <3>1 DEF Faithful, Recorded, Noted
    <3> QED BY <3>1, <3>2 DEF Faithful, Recorded
  <2> QED BY <2>1, <2>2
<1>5. Recorded(s)' BY <1>1, <1>4 DEF Recorded
<1>6. About(s)'
  <2>1. CASE pc'[s] \in {"commit", "limits"} BY <2>1 DEF About, Deciding
  <2>2. CASE pc'[s] = "target"
    <3>1. pc[s] \in Deciding /\ i = req[s].id /\ row.rsrc = rows[i].rsrc /\ req'[s].id = i
          /\ req'[s].seen = req[s].seen
      BY <1>1, <2>2 DEF SameRequest
    <3>2. writes'[s][i] = row BY <1>1, <1>2
    <3> QED BY <1>1, <2>2, <3>1, <3>2 DEF Faithful, About
  <2> QED BY <2>1, <2>2
<1> QED BY <1>3, <1>5, <1>6 DEF Faithful

(* A transition touches the status and what goes with it. *)
LEMMA TransitionedKeeps ==
  ASSUME NEW row \in Row, NEW to, NEW at, NEW a
  PROVE  LET new == Transitioned(row, to, at, a)
         IN  /\ Kept(row, new) /\ new.status = to
             /\ new.rsrc = row.rsrc /\ new.excl = row.excl
BY DEF Transitioned, Kept, Row

(* A commit: rows another session only read, or has not written, move on. *)
LEMMA EndsFaithful ==
  ASSUME Typing, Locking, Faithful, NEW s \in Sessions, EndsTx(s) PROVE Faithful'
<1>1. ASSUME NEW t \in Sessions, NEW j \in Ids, t # s, Written(t, j) PROVE rows'[j] = rows[j]
  BY <1>1 DEF EndsTx, View, Locking, OneHolder
<1>2. ASSUME NEW j \in Ids, rows[j].status # "NONE"
      PROVE  /\ rows'[j].status # "NONE" /\ rows'[j].lo = rows[j].lo
             /\ rows'[j].hi = rows[j].hi /\ rows'[j].party = rows[j].party
  <2>1. CASE rows' = rows BY <1>2, <2>1
  <2>2. CASE rows' = View(s)
    <3>1. CASE Written(s, j)
      BY <1>2, <2>2, <3>1 DEF View, Faithful, Recorded, Kept, Written
    <3>2. CASE ~Written(s, j)
      BY <1>2, <2>2, <3>2 DEF View
    <3> QED BY <3>1, <3>2
  <2> QED BY <2>1, <2>2 DEF EndsTx
<1>3. ASSUME NEW t \in Sessions, t # s PROVE Recorded(t)' /\ About(t)'
  <2>1. /\ pc'[t] = pc[t] /\ req'[t] = req[t] /\ writes'[t] = writes[t]
        /\ entries'[t] = entries[t]
    BY <1>3 DEF EndsTx, OthersStill
  <2>2. Recorded(t) /\ About(t) BY DEF Faithful
  <2>3. Recorded(t)' BY <1>1, <1>3, <2>1, <2>2 DEF Recorded, Written
  <2>4. About(t)'
    <3>1. pc[t] \in {"target", "move", "relocate"} => pc[t] \in Deciding BY DEF Deciding
    <3> QED BY <1>1, <1>2, <1>3, <2>1, <2>2, <3>1 DEF About, Written
  <2> QED BY <2>3, <2>4
<1>4. Recorded(s)'
  BY NoRowIsNone DEF EndsTx, Recorded, Written, NoWrites
<1>5. About(s)' BY DEF EndsTx, About, Deciding
<1> QED BY <1>3, <1>4, <1>5 DEF Faithful

(* Every step keeps what is pending faithful to what is committed. *)
LEMMA FaithfulStep == Typing /\ Locking /\ Faithful /\ [Next]_vars => Faithful'
<1> SUFFICES ASSUME Typing, Locking, Faithful, [Next]_vars PROVE Faithful' OBVIOUS
<1>1. CASE Elsewhere
  BY <1>1 DEF Elsewhere, Faithful, Recorded, About, Written
<1>2. ASSUME NEW s \in Sessions, Begins(s) PROVE Faithful'
  <2>1. ASSUME NEW t \in Sessions PROVE Recorded(t)'
    BY <1>2 DEF Begins, Faithful, Recorded, Written
  <2>2. ASSUME NEW t \in Sessions, t # s PROVE About(t)'
    <3>1. pc'[t] = pc[t] /\ req'[t] = req[t] BY <1>2, <2>2 DEF Begins, OthersStill
    <3> QED BY <1>2, <3>1 DEF Begins, Faithful, About, Written
  <2>3. About(s)'
    <3>1. \A j \in Ids : ~Written(s, j)'
      BY <1>2, NothingWritten DEF Begins, Locking, LocksByStep, Clean, Written
    <3>2. pc'[s] \in {"target", "move", "relocate"} => pc'[s] \in Deciding BY DEF Deciding
    <3> QED BY <1>2, <3>1, <3>2 DEF Begins, About
  <2> QED BY <2>1, <2>2, <2>3 DEF Faithful
<1>3. ASSUME NEW s \in Sessions, GoesOn(s) PROVE Faithful'
  <2>1. ASSUME NEW t \in Sessions PROVE Recorded(t)'
    BY <1>3 DEF GoesOn, Faithful, Recorded, Written
  <2>2. ASSUME NEW t \in Sessions, t # s PROVE About(t)'
    <3>1. pc'[t] = pc[t] /\ req'[t] = req[t] BY <1>3, <2>2 DEF GoesOn, OthersStill
    <3> QED BY <1>3, <3>1 DEF GoesOn, Faithful, About, Written
  <2>3. About(s)'
    <3>1. \/ pc'[s] = "slot"
          \/ pc'[s] = "update" /\ pc[s] \in Deciding
          \/ pc'[s] = "move" /\ pc[s] = "target" /\ pc[s] \in Deciding
      BY <1>3 DEF GoesOn, Deciding
    <3>2. /\ rows' = rows /\ writes' = writes
          /\ req'[s].id = req[s].id /\ req'[s].seen = req[s].seen
      BY <1>3 DEF GoesOn, SameRequest
    <3> QED BY <3>1, <3>2 DEF Faithful, About, Written, Deciding
  <2> QED BY <2>1, <2>2, <2>3 DEF Faithful
<1>4. ASSUME NEW s \in Sessions, LockCustomer(s) \/ LockTarget(s) PROVE Faithful'
  <2>1. /\ OthersStill(s) /\ UNCHANGED <<rows, req, cand, writes, entries>>
        /\ pc'[s] \in {"old", "limits", "slot"} \/ (pc[s] = "move" /\ pc'[s] = "relocate")
    BY <1>4, LockCustomerTakes, LockTargetTakes
  <2>2. ASSUME NEW t \in Sessions PROVE About(t)'
    <3>1. t # s => pc'[t] = pc[t] BY <2>1 DEF OthersStill
    <3> QED BY <2>1, <3>1 DEF Faithful, About, Written, Deciding
  <2> QED BY <2>1, <2>2 DEF Faithful, Recorded, Written
<1>5. ASSUME NEW s \in Sessions, CancelOld(s) PROVE Faithful'
  <2> DEFINE old == rows[req[s].id]
             row == [old EXCEPT !.status = "CANCELED_BY_USER", !.canceledAt = req[s].at]
             e == [id |-> req[s].id, from |-> old.status, to |-> "CANCELED_BY_USER",
                   fromRsrc |-> None, toRsrc |-> None]
  <2>1. /\ Writes(s, req[s].id, row, e) /\ old \in Row /\ old.status \in Occupying
        /\ pc'[s] = "limits"
    BY <1>5, CancelOldWrites
  <2>2. Kept(old, row) /\ row.rsrc = old.rsrc /\ row.status = "CANCELED_BY_USER"
    BY <2>1 DEF Kept, Row
  <2>3. Follows(old.status, row.status)
    BY <2>1, <2>2 DEF Follows, Allowed, RULES, Rule, Occupying
  <2>4. e.id = req[s].id /\ e.from = old.status /\ e.to = "CANCELED_BY_USER" OBVIOUS
  <2> HIDE DEF old, row, e
  <2>5. Noted(old, row, entries[s] \cup {e}, req[s].id)
    BY <2>2, <2>4 DEF Noted
  <2> QED BY <2>1, <2>2, <2>3, <2>5, WritesFaithful DEF old
<1>6. ASSUME NEW s \in Sessions, InsertRow(s) PROVE Faithful'
  <2> DEFINE e(i) == [id |-> i, from |-> "NONE", to |-> NewStatus(s),
                      fromRsrc |-> None, toRsrc |-> cand[s]]
  <2>1. PICK i \in FreeIds : Writes(s, i, NewRow(s), e(i))
    BY <1>6, InsertRowWrites
  <2>2. rows[i].status = "NONE" /\ NewRow(s).status = NewStatus(s)
    BY DEF FreeIds, NewRow
  <2>3. pc'[s] = "commit" BY <1>6, InsertRowWrites
  <2>4. e(i).id = i /\ e(i).from = "NONE" /\ e(i).to = NewStatus(s) OBVIOUS
  <2> HIDE DEF e
  <2>5. Noted(rows[i], NewRow(s), entries[s] \cup {e(i)}, i)
    BY <2>2, <2>4 DEF Noted
  <2> QED BY <2>1, <2>2, <2>3, <2>5, WritesFaithful
<1>7. ASSUME NEW s \in Sessions, Update(s) PROVE Faithful'
  <2> DEFINE q == req[s]
             old == rows[q.id]
             row == Transitioned(old, q.to, q.at, q.actor)
             e == [id |-> q.id, from |-> q.seen.status, to |-> q.to,
                   fromRsrc |-> None, toRsrc |-> None]
  <2>1. /\ pc[s] = "update" /\ pc'[s] \in {"commit", "target"}
        /\ Allowed(q.seen.status, q.to) /\ old \in Row /\ old.status = q.seen.status
        /\ Writes(s, q.id, row, e)
    BY <1>7, UpdateWrites
  <2>2. Kept(old, row) /\ row.status = q.to /\ row.rsrc = old.rsrc
    BY <2>1, TransitionedKeeps
  <2>3. e.id = q.id /\ e.from = old.status /\ e.to = q.to BY <2>1
  <2> HIDE DEF row, e
  <2>4. Noted(old, row, entries[s] \cup {e}, q.id)
    BY <2>2, <2>3 DEF Noted
  <2>5. Follows(old.status, row.status) BY <2>1, <2>2 DEF Follows
  <2>6. pc[s] \in Deciding BY <2>1 DEF Deciding
  <2> QED BY <2>1, <2>2, <2>4, <2>5, <2>6, WritesFaithful
<1>8. ASSUME NEW s \in Sessions, Relocate(s) PROVE Faithful'
  <2> DEFINE q == req[s]
             i == q.id
             e == [id |-> i, from |-> q.to, to |-> q.to,
                   fromRsrc |-> q.seen.rsrc, toRsrc |-> cand[s]]
  <2>1. /\ pc[s] = "relocate" /\ pc'[s] = "commit" /\ i \in Ids
        /\ View(s)[i] \in Row /\ View(s)[i].rsrc = q.seen.rsrc /\ View(s)[i].status = q.to
        /\ Writes(s, i, Relocated(s), e)
    BY <1>8, RelocateWrites
  <2>2. /\ Kept(View(s)[i], Relocated(s)) /\ Relocated(s).status = View(s)[i].status
        /\ Relocated(s).rsrc = cand[s]
    BY <2>1 DEF Relocated, Kept, Row
  <2>3. e.id = i /\ e.fromRsrc = q.seen.rsrc /\ e.toRsrc = cand[s] OBVIOUS
  <2> HIDE DEF e
  <2>4. rows[i].status # "NONE"
    BY <2>1 DEF Faithful, About, Deciding
  <2>5. CASE ~Written(s, i)
    <3>1. View(s)[i] = rows[i] BY <2>1, <2>5 DEF View
    <3>2. Noted(rows[i], Relocated(s), entries[s] \cup {e}, i)
      BY <2>1, <2>2, <2>3, <3>1 DEF Noted
    <3> QED BY <2>1, <2>2, <3>1, <3>2, WritesFaithful DEF Follows
  <2>6. CASE Written(s, i)
    <3>1. View(s)[i] = writes[s][i] BY <2>1, <2>6 DEF View
    <3>2. /\ Kept(rows[i], writes[s][i]) /\ Follows(rows[i].status, writes[s][i].status)
          /\ Noted(rows[i], writes[s][i], entries[s], i)
      <4>1. i \in Ids /\ Recorded(s) BY <2>1 DEF Faithful
      <4> QED BY <2>4, <2>6, <4>1 DEF Recorded
    <3>3. rows[i].rsrc = q.seen.rsrc
      <4>1. About(s) BY DEF Faithful
      <4> QED BY <2>1, <2>6, <3>1, <4>1, SMTT(30) DEF About
    <3>4. Kept(rows[i], Relocated(s)) /\ Follows(rows[i].status, Relocated(s).status)
      BY <2>2, <3>1, <3>2, SMTT(30) DEF Kept
    <3>5. Noted(rows[i], Relocated(s), entries[s] \cup {e}, i)
      BY <2>1, <2>2, <2>3, <3>1, <3>2, <3>3 DEF Noted
    <3> QED BY <2>1, <3>4, <3>5, WritesFaithful
  <2> QED BY <2>5, <2>6
<1>9. ASSUME NEW s \in Sessions, EndsTx(s) PROVE Faithful' BY <1>9, EndsFaithful
<1> QED BY <1>1, <1>2, <1>3, <1>4, <1>5, <1>6, <1>7, <1>8, <1>9, StepKinds DEF Kind

(* What a transaction has written of a stored row is the committed row, moved *)
(* along the transition table and logged so; what a handler loaded early      *)
(* still has the fields that nothing changes.                                 *)
THEOREM TransactionsFaithful == Spec => []Faithful
<1>1. Init => Faithful
  BY NoRowIsNone DEF Init, Faithful, Recorded, About, Written, NoWrites, Deciding
<1> QED BY <1>1, FaithfulStep, TypingInvariant, LocksHeldOnce, PTL DEF Spec

(* Only a commit changes the table, and it installs what the session wrote. *)
LEMMA CommitsOnly ==
  ASSUME Typing, [Next]_vars
  PROVE  \/ rows' = rows
         \/ \E s \in Sessions : pc[s] = "commit" /\ rows' = View(s)
<1>1. CASE Elsewhere BY <1>1 DEF Elsewhere
<1>2. ASSUME NEW s \in Sessions, Kind(s)
      PROVE  rows' = rows \/ (pc[s] = "commit" /\ rows' = View(s))
  BY <1>2, LockCustomerTakes, LockTargetTakes
     DEF Kind, Begins, GoesOn, EndsTx, CancelOld, InsertRow, Update, Relocate, db
<1> QED BY <1>1, <1>2, StepKinds

(* Kept, as the record equality of OnlyTheTable. *)
LEMMA KeptRow ==
  ASSUME NEW old \in Row, NEW new \in Row, Kept(old, new)
  PROVE  new = [old EXCEPT !.status = new.status, !.rsrc = new.rsrc, !.excl = new.excl,
                           !.canceledAt = new.canceledAt, !.noShow = new.noShow]
BY ZenonT(60) DEF Kept, Row

(* A row left as it is keeps its fields. *)
LEMMA KeptSelf == \A row \in Row : Kept(row, row)
BY DEF Kept

(* OnlyTheTable: in every behaviour, with any capacities edited meanwhile,    *)
(* stored rows only follow RULES and keep their other fields.                 *)
THEOREM TableFollowed == Spec => OnlyTheTable
<1> DEFINE Good(i) ==
      rows[i].status # "NONE" =>
        /\ rows'[i].status = rows[i].status \/ Allowed(rows[i].status, rows'[i].status)
        /\ rows'[i] = [rows[i] EXCEPT
             !.status = rows'[i].status, !.rsrc = rows'[i].rsrc, !.excl = rows'[i].excl,
             !.canceledAt = rows'[i].canceledAt, !.noShow = rows'[i].noShow]
<1>1. ASSUME Typing, Faithful, [Next]_vars, NEW i \in Ids PROVE Good(i)
  <2> SUFFICES ASSUME rows[i].status # "NONE" PROVE Good(i) OBVIOUS
  <2>1. rows[i] \in Row BY <1>1, NoRowIsNone DEF Typing, TypeOK
  <2>2. /\ rows'[i] \in Row /\ Kept(rows[i], rows'[i])
        /\ rows'[i].status = rows[i].status \/ Allowed(rows[i].status, rows'[i].status)
    <3>1. CASE rows' = rows BY <2>1, <3>1, KeptSelf
    <3>2. ASSUME NEW s \in Sessions, rows' = View(s)
          PROVE  /\ rows'[i] \in Row /\ Kept(rows[i], rows'[i])
                 /\ rows'[i].status = rows[i].status \/ Allowed(rows[i].status, rows'[i].status)
      <4>1. CASE ~Written(s, i)
        <5>1. rows'[i] = rows[i] BY <3>2, <4>1 DEF View
        <5> QED BY <2>1, <5>1, KeptSelf
      <4>2. CASE Written(s, i)
        <5>1. rows'[i] = writes[s][i] BY <3>2, <4>2 DEF View
        <5>2. writes[s][i] \in Row
          BY <1>1, <4>2, NoRowIsNone DEF Written, Typing, TypeOK
        <5>3. Recorded(s) BY <1>1 DEF Faithful
        <5>4. Kept(rows[i], writes[s][i]) /\ Follows(rows[i].status, writes[s][i].status)
          BY <4>2, <5>3 DEF Recorded
        <5> QED BY <5>1, <5>2, <5>4 DEF Follows
      <4> QED BY <4>1, <4>2
    <3> QED BY <1>1, <3>1, <3>2, CommitsOnly
  <2> QED BY <2>1, <2>2, KeptRow
<1>2. Typing /\ Faithful /\ [Next]_vars => [\A i \in Ids : Good(i)]_vars BY <1>1
<1> QED BY <1>2, TypingInvariant, TransactionsFaithful, PTL DEF Spec, OnlyTheTable

(* EveryChangeLogged: no change of a row without its entry, which names the   *)
(* state and the resource the row really left.                                *)
THEOREM ChangesLogged == Spec => EveryChangeLogged
<1> DEFINE Good(i) == rows'[i] # rows[i] =>
                        \E s \in Sessions : pc[s] = "commit" /\ Logged(s, i)
<1>1. ASSUME Typing, Faithful, [Next]_vars, NEW i \in Ids PROVE Good(i)
  <2> SUFFICES ASSUME rows'[i] # rows[i]
               PROVE  \E s \in Sessions : pc[s] = "commit" /\ Logged(s, i)
    OBVIOUS
  <2>1. PICK s \in Sessions : pc[s] = "commit" /\ rows' = View(s)
    BY <1>1, CommitsOnly
  <2>2. Written(s, i) /\ rows'[i] = writes[s][i] BY <2>1 DEF View
  <2>3. Logged(s, i) BY <1>1, <2>2 DEF Faithful, Recorded, Noted, Logged
  <2> QED BY <2>1, <2>3
<1>2. Typing /\ Faithful /\ [Next]_vars => [\A i \in Ids : Good(i)]_vars BY <1>1
<1> QED BY <1>2, TypingInvariant, TransactionsFaithful, PTL DEF Spec, EveryChangeLogged

-----------------------------------------------------------------------------
(* no_overlap. *)

Seat(row) == row.excl /\ row.status \in Occupying

SameSeat(a, b) == /\ Seat(a) /\ Seat(b) /\ a.rsrc = b.rsrc
                  /\ a.lo = b.lo /\ a.hi = b.hi

(* A pending exclusive row was there already, or its place was checked under *)
(* the lock of its resource, which is still held.                            *)
Backed(s, i) ==
  LET w == writes[s][i]
  IN  Seat(w) => \/ SameSeat(rows[i], w)
                 \/ /\ w.rsrc \in held[s]
                    /\ \A j \in Ids \ {i} : ~Excluded(w, View(s)[j])

(* Before the update of a move its target is checked and locked. *)
MoveChecked(s) ==
  pc[s] = "relocate" =>
    /\ cand[s] \in held[s]
    /\ req[s].to \in Occupying /\ req[s].caps[cand[s]] = 1 =>
         \A j \in Ids \ {req[s].id} :
           Seat(View(s)[j]) /\ View(s)[j].rsrc = cand[s] => ~Overlaps(View(s)[j], req[s].seen)

Covered ==
  /\ \A i, j \in Ids : i # j => ~Excluded(rows[i], rows[j])
  /\ \A s \in Sessions : /\ MoveChecked(s)
                         /\ \A i \in Ids : Written(s, i) => Backed(s, i)

(* no_overlap does not care about the order of two rows. *)
LEMMA ExcludedSymmetric == \A a, b : Excluded(a, b) <=> Excluded(b, a)
BY DEF Excluded, Overlaps

(* Two versions on the same seat conflict with the same rows. *)
LEMMA SameSeatExcluded ==
  \A a, b, c : SameSeat(a, b) => /\ Excluded(a, c) <=> Excluded(b, c)
                                 /\ Excluded(c, a) <=> Excluded(c, b)
BY DEF SameSeat, Seat, Excluded, Overlaps

(* What a conflict says of the two rows. *)
LEMMA ExcludedSeats ==
  \A a, b : Excluded(a, b) => Seat(a) /\ Seat(b) /\ a.rsrc = b.rsrc /\ Overlaps(a, b)
BY DEF Excluded, Seat

(* No transaction sees a conflict, its own writes included. *)
LEMMA ViewsClear ==
  ASSUME Covered, NEW s \in Sessions, NEW i \in Ids, NEW j \in Ids, i # j
  PROVE  ~Excluded(View(s)[i], View(s)[j])
<1> SUFFICES ASSUME Excluded(View(s)[i], View(s)[j]) PROVE FALSE OBVIOUS
<1>1. ASSUME NEW k \in Ids
      PROVE  View(s)[k] = IF Written(s, k) THEN writes[s][k] ELSE rows[k]
  BY DEF View
<1>2. ASSUME NEW k \in Ids, Written(s, k), Seat(writes[s][k]) PROVE Backed(s, k)
  BY <1>2 DEF Covered
<1>3. ASSUME NEW k \in Ids, NEW l \in Ids, k # l, Excluded(View(s)[k], View(s)[l])
      PROVE  Written(s, k) => SameSeat(rows[k], View(s)[k])
  BY <1>1, <1>2, <1>3, ExcludedSeats DEF Backed
<1>4. Excluded(View(s)[j], View(s)[i]) BY ExcludedSymmetric
<1>5. /\ Written(s, i) => SameSeat(rows[i], View(s)[i])
      /\ Written(s, j) => SameSeat(rows[j], View(s)[j])
  BY <1>3, <1>4
<1>6. Excluded(rows[i], View(s)[j]) BY <1>1, <1>5, SameSeatExcluded
<1>7. Excluded(rows[i], rows[j]) BY <1>1, <1>5, <1>6, SameSeatExcluded
<1> QED BY <1>7 DEF Covered

(* The invariant is strong enough. *)
LEMMA CoveredImpliesNoOverlap ==
  Locking /\ Covered => NoOverlapHolds
<1> SUFFICES ASSUME Locking, Covered PROVE NoOverlapHolds OBVIOUS
<1>1. \A i, j \in Ids : i # j => ~Excluded(rows[i], rows[j]) BY DEF Covered
<1>2. \A s \in Sessions : \A i, j \in Ids : i # j => ~Excluded(View(s)[i], View(s)[j])
  BY ViewsClear
<1>3. ASSUME NEW s \in Sessions, NEW t \in Sessions, NEW i \in Ids, NEW j \in Ids,
             s # t, i # j, Excluded(writes[s][i], writes[t][j])
      PROVE  FALSE
  <2>1. Written(s, i) /\ Written(t, j)
    BY <1>3, ExcludedSeats DEF Written, Seat, Occupying
  <2>2. ~Written(t, i) /\ ~Written(s, j) BY <1>3, <2>1 DEF Locking, OneHolder
  <2>3. View(t)[i] = rows[i] /\ View(s)[j] = rows[j] BY <2>2 DEF View
  <2>4. /\ Seat(writes[s][i]) /\ Seat(writes[t][j])
        /\ writes[s][i].rsrc = writes[t][j].rsrc
        /\ Excluded(writes[t][j], writes[s][i])
    BY <1>3, ExcludedSeats, ExcludedSymmetric
  <2>5. Backed(s, i) /\ Backed(t, j) BY <2>1 DEF Covered
  <2>6. CASE SameSeat(rows[i], writes[s][i])
    <3>1. Excluded(rows[i], writes[t][j]) /\ Excluded(writes[t][j], rows[i])
      BY <1>3, <2>4, <2>6, SameSeatExcluded
    <3>2. SameSeat(rows[j], writes[t][j])
      BY <1>3, <2>3, <2>4, <2>5, <3>1 DEF Backed
    <3>3. Excluded(rows[i], rows[j]) BY <3>1, <3>2, SameSeatExcluded
    <3> QED BY <1>1, <1>3, <3>3
  <2>7. CASE SameSeat(rows[j], writes[t][j])
    <3>1. Excluded(writes[s][i], rows[j]) BY <1>3, <2>7, SameSeatExcluded
    <3>2. SameSeat(rows[i], writes[s][i])
      BY <1>3, <2>3, <2>4, <2>5, <3>1 DEF Backed
    <3> QED BY <2>6, <3>2
  <2>8. CASE writes[s][i].rsrc \in held[s] /\ writes[t][j].rsrc \in held[t]
    BY <1>3, <2>4, <2>8 DEF Locking, OneHolder
  <2> QED BY <2>4, <2>5, <2>6, <2>7, <2>8 DEF Backed
<1> QED BY <1>1, <1>2, <1>3 DEF NoOverlapHolds

(* The write of a row whose seat was there already or has been checked. *)
LEMMA WritesCovered ==
  ASSUME Typing, Covered, NEW s \in Sessions, NEW i, NEW row, NEW e,
         Writes(s, i, row, e), held[s] \subseteq held'[s], pc'[s] # "relocate",
         Seat(row) => \/ SameSeat(rows[i], row) /\ ~Written(s, i)
                      \/ /\ row.rsrc \in held'[s]
                         /\ \A j \in Ids \ {i} : ~Excluded(row, View(s)[j])
  PROVE  Covered'
<1>1. /\ rows' = rows /\ i \in Ids /\ row \in Row /\ OthersStill(s)
      /\ writes'[s] = [writes[s] EXCEPT ![i] = row]
  BY DEF Writes
<1>2. writes'[s][i] = row /\ \A j \in Ids \ {i} : writes'[s][j] = writes[s][j]
  BY <1>1 DEF Typing, TypeOK
<1>3. ASSUME NEW t \in Sessions, t # s
      PROVE  MoveChecked(t)' /\ \A j \in Ids : Written(t, j)' => Backed(t, j)'
  <2>1. /\ pc'[t] = pc[t] /\ req'[t] = req[t] /\ cand'[t] = cand[t] /\ held'[t] = held[t]
        /\ writes'[t] = writes[t]
    BY <1>1, <1>3 DEF OthersStill
  <2>2. View(t)' = View(t) BY <1>1, <2>1 DEF View, Written
  <2> QED BY <1>1, <2>1, <2>2 DEF Covered, MoveChecked, Backed, Written
<1>4. MoveChecked(s)' BY DEF MoveChecked
<1>5. /\ \A j \in Ids \ {i} : View(s)'[j] = View(s)[j] /\ (Written(s, j)' <=> Written(s, j))
      /\ View(s)'[i] = row
  BY <1>1, <1>2, RealRow DEF View, Written
<1>6. ASSUME NEW j \in Ids, Written(s, j)' PROVE Backed(s, j)'
  <2>1. CASE j = i
    BY <1>1, <1>2, <1>5, <2>1 DEF Backed
  <2>2. CASE j # i
    <3>1. Written(s, j) /\ Backed(s, j) /\ writes'[s][j] = writes[s][j]
      BY <1>2, <1>5, <1>6, <2>2 DEF Covered
    <3>2. View(s)[j] = writes[s][j] BY <3>1 DEF View
    <3>3. CASE ~Seat(writes[s][j]) \/ SameSeat(rows[j], writes[s][j])
      BY <1>1, <3>1, <3>3 DEF Backed
    <3>4. CASE /\ writes[s][j].rsrc \in held[s]
               /\ \A k \in Ids \ {j} : ~Excluded(writes[s][j], View(s)[k])
      <4>1. ~Excluded(writes[s][j], row)
        <5> SUFFICES ASSUME Excluded(writes[s][j], row) PROVE FALSE OBVIOUS
        <5>1. Seat(row) /\ Excluded(row, writes[s][j])
          BY ExcludedSeats, ExcludedSymmetric
        <5>2. SameSeat(rows[i], row) /\ ~Written(s, i) BY <2>2, <3>2, <5>1
        <5>3. View(s)[i] = rows[i] BY <1>1, <5>2 DEF View
        <5>4. ~Excluded(writes[s][j], rows[i]) BY <1>1, <2>2, <3>4, <5>3
        <5> QED BY <5>2, <5>4, SameSeatExcluded
      <4>2. \A k \in Ids \ {j} : ~Excluded(writes[s][j], View(s)'[k])
        BY <1>5, <3>4, <4>1
      <4> QED BY <3>1, <3>4, <4>2 DEF Backed
    <3> QED BY <3>1, <3>3, <3>4 DEF Backed
  <2> QED BY <2>1, <2>2
<1> QED BY <1>1, <1>3, <1>4, <1>6 DEF Covered

(* Under a lock nobody else can bring a seat to the resource. *)
LEMMA SeatsUnderLock ==
  ASSUME Locking, Covered, NEW s \in Sessions, EndsTx(s), NEW t \in Sessions, t # s,
         NEW j \in Ids, Seat(View(t)'[j]), View(t)'[j].rsrc \in held[t]
  PROVE  SameSeat(View(t)'[j], View(t)[j])
<1>1. writes'[t] = writes[t] BY DEF EndsTx, OthersStill
<1>2. CASE Written(t, j) \/ rows'[j] = rows[j]
  <2>1. View(t)'[j] = View(t)[j] BY <1>1, <1>2 DEF View, Written
  <2> QED BY <2>1 DEF SameSeat
<1>3. CASE ~Written(t, j) /\ rows'[j] # rows[j]
  <2>1. rows' = View(s) BY <1>3 DEF EndsTx
  <2>2. Written(s, j) /\ rows'[j] = writes[s][j] BY <1>3, <2>1 DEF View
  <2>3. View(t)'[j] = writes[s][j] /\ View(t)[j] = rows[j]
    BY <1>1, <1>3, <2>2 DEF View, Written
  <2>4. Backed(s, j) BY <2>2 DEF Covered
  <2>5. writes[s][j].rsrc \notin held[s] BY <2>3 DEF Locking, OneHolder
  <2>6. SameSeat(rows[j], writes[s][j]) BY <2>3, <2>4, <2>5 DEF Backed
  <2> QED BY <2>3, <2>6 DEF SameSeat
<1> QED BY <1>2, <1>3

(* The end of a transaction, a commit included, keeps every check valid. *)
LEMMA EndsCovered ==
  ASSUME Typing, Locking, Covered, NEW s \in Sessions, EndsTx(s) PROVE Covered'
<1>1. \A i, j \in Ids : i # j => ~Excluded(rows'[i], rows'[j])
  BY ViewsClear DEF EndsTx, Covered
<1>2. MoveChecked(s)' /\ \A i \in Ids : ~Written(s, i)'
  BY NoRowIsNone DEF EndsTx, MoveChecked, Written, NoWrites
<1>3. ASSUME NEW t \in Sessions, t # s
      PROVE  MoveChecked(t)' /\ \A i \in Ids : Written(t, i)' => Backed(t, i)'
  <2>1. /\ pc'[t] = pc[t] /\ req'[t] = req[t] /\ cand'[t] = cand[t] /\ held'[t] = held[t]
        /\ writes'[t] = writes[t]
    BY <1>3 DEF EndsTx, OthersStill
  <2>2. MoveChecked(t)'
    <3> SUFFICES ASSUME pc[t] = "relocate" PROVE MoveChecked(t)' BY <2>1 DEF MoveChecked
    <3>1. MoveChecked(t) BY DEF Covered
    <3>2. ASSUME req[t].to \in Occupying, req[t].caps[cand[t]] = 1,
                 NEW j \in Ids \ {req[t].id}, Seat(View(t)'[j]), View(t)'[j].rsrc = cand[t]
          PROVE  ~Overlaps(View(t)'[j], req[t].seen)
      <4>1. SameSeat(View(t)'[j], View(t)[j])
        BY <1>3, <3>1, <3>2, SeatsUnderLock DEF MoveChecked
      <4>2. ~Overlaps(View(t)[j], req[t].seen)
        BY <3>1, <3>2, <4>1 DEF MoveChecked, SameSeat
      <4> QED BY <4>1, <4>2 DEF SameSeat, Overlaps
    <3> QED BY <2>1, <3>1, <3>2 DEF MoveChecked
  <2>3. ASSUME NEW i \in Ids, Written(t, i)' PROVE Backed(t, i)'
    <3>1. Written(t, i) /\ Backed(t, i) BY <2>1, <2>3 DEF Covered, Written
    <3>2. rows'[i] = rows[i]
      BY <1>3, <3>1 DEF EndsTx, View, Locking, OneHolder
    <3>3. CASE ~Seat(writes[t][i]) \/ SameSeat(rows[i], writes[t][i])
      BY <2>1, <3>2, <3>3 DEF Backed
    <3>4. CASE /\ writes[t][i].rsrc \in held[t]
               /\ \A j \in Ids \ {i} : ~Excluded(writes[t][i], View(t)[j])
      <4>1. ASSUME NEW j \in Ids \ {i}, Excluded(writes[t][i], View(t)'[j]) PROVE FALSE
        <5>1. Seat(View(t)'[j]) /\ View(t)'[j].rsrc \in held[t]
          BY <3>4, <4>1, ExcludedSeats
        <5>2. SameSeat(View(t)'[j], View(t)[j]) BY <1>3, <5>1, SeatsUnderLock
        <5> QED BY <3>4, <4>1, <5>2, SameSeatExcluded
      <4> QED BY <2>1, <3>4, <4>1 DEF Backed
    <3> QED BY <3>1, <3>3, <3>4 DEF Backed
  <2> QED BY <2>2, <2>3
<1> QED BY <1>1, <1>2, <1>3 DEF Covered

(* The recount under the resource lock, for an exclusive row. *)
LEMMA RoomExclusive ==
  ASSUME Typing, NEW s \in Sessions, Placing(s), Room(s), Seat(NewRow(s)),
         NEW j \in Ids
  PROVE  ~Excluded(NewRow(s), View(s)[j])
<1> DEFINE range == OccupyRange(req[s].prod, req[s].start)
<1>1. req[s].prod \in Products BY DEF Typing, Knows, PlacingKnows
<1>2. Catalogue[req[s].prod].perSlot \in Nat \ {0}
  BY <1>1, CatalogueAssumption DEF CatalogueType
<1>3. req[s].caps[cand[s]] = 1 BY DEF Seat, NewRow
<1>4. Lesser(Catalogue[req[s].prod].perSlot, req[s].caps[cand[s]]) = 1
  BY <1>2, <1>3 DEF Lesser
<1>5. \A k \in OccupyingOn(View(s), cand[s]) : ~Overlaps(View(s)[k], range)
  BY <1>4 DEF Room, FitsNew
<1>6. /\ NewRow(s).rsrc = cand[s] /\ NewRow(s).lo = range.lo /\ NewRow(s).hi = range.hi
  BY DEF NewRow
<1>7. DOMAIN View(s) = Ids BY DEF View
<1> HIDE DEF range
<1>8. View(s)[j].status \in Occupying /\ View(s)[j].rsrc = cand[s]
        => ~Overlaps(View(s)[j], range)
  BY <1>5, <1>7 DEF OccupyingOn
<1> QED BY <1>6, <1>8 DEF Excluded, Overlaps

(* Every step keeps every pending seat backed. *)
LEMMA CoveredStep ==
  Typing /\ Locking /\ Faithful /\ Covered /\ [Next]_vars => Covered'
<1> SUFFICES ASSUME Typing, Locking, Faithful, Covered, [Next]_vars PROVE Covered' OBVIOUS
<1>1. CASE Elsewhere
  BY <1>1 DEF Elsewhere, Covered, MoveChecked, Backed, View, Written
<1>2. ASSUME NEW s \in Sessions, Begins(s) \/ GoesOn(s) PROVE Covered'
  <2>1. OthersStill(s) /\ UNCHANGED <<rows, held, writes, entries>> /\ pc'[s] # "relocate"
    BY <1>2 DEF Begins, GoesOn
  <2>2. ASSUME NEW t \in Sessions PROVE MoveChecked(t)'
    <3>1. CASE t = s BY <2>1, <3>1 DEF MoveChecked
    <3>2. CASE t # s
      <4>1. pc'[t] = pc[t] /\ req'[t] = req[t] /\ cand'[t] = cand[t]
        BY <2>1, <3>2 DEF OthersStill
      <4> QED BY <2>1, <4>1 DEF Covered, MoveChecked, View, Written
    <3> QED BY <3>1, <3>2
  <2> QED BY <2>1, <2>2 DEF Covered, Backed, View, Written
<1>3. ASSUME NEW s \in Sessions, EndsTx(s) PROVE Covered' BY <1>3, EndsCovered
<1>4. ASSUME NEW s \in Sessions, LockCustomer(s) \/ LockTarget(s) PROVE Covered'
  <2>1. PICK k : held' = [held EXCEPT ![s] = @ \cup {k}]
    BY <1>4, LockCustomerTakes, LockTargetTakes
  <2>2. /\ OthersStill(s) /\ UNCHANGED <<rows, req, cand, writes, entries>>
        /\ \A t \in Sessions : held[t] \subseteq held'[t]
    BY <1>4, <2>1, LockCustomerTakes, LockTargetTakes DEF Typing, TypeOK
  <2>3. \A t \in Sessions : View(t)' = View(t) BY <2>2 DEF View, Written
  <2>4. MoveChecked(s)'
    <3>1. CASE LockCustomer(s)
      BY <3>1, LockCustomerTakes DEF MoveChecked
    <3>2. CASE LockTarget(s)
      <4>1. TargetFits(s) /\ cand[s] \in held'[s]
        BY <3>2, LockTargetTakes DEF Typing, TypeOK
      <4>2. ASSUME req[s].to \in Occupying, req[s].caps[cand[s]] = 1,
                   NEW j \in Ids \ {req[s].id}, Seat(View(s)[j]), View(s)[j].rsrc = cand[s]
            PROVE  ~Overlaps(View(s)[j], req[s].seen)
        <5>1. j \in OccupyingOn(View(s), cand[s]) \ {req[s].id}
          BY <4>2 DEF OccupyingOn, View, Seat
        <5> QED BY <4>1, <4>2, <5>1 DEF TargetFits, FitsExisting
      <4> QED BY <2>2, <2>3, <4>1, <4>2 DEF MoveChecked
    <3> QED BY <1>4, <3>1, <3>2
  <2>5. ASSUME NEW t \in Sessions, t # s PROVE MoveChecked(t)'
    <3>1. pc'[t] = pc[t] BY <2>2, <2>5 DEF OthersStill
    <3> QED BY <2>2, <2>3, <3>1 DEF Covered, MoveChecked
  <2>6. ASSUME NEW t \in Sessions, NEW i \in Ids, Written(t, i)' PROVE Backed(t, i)'
    <3>1. Backed(t, i) BY <2>2, <2>6 DEF Covered, Written
    <3> QED BY <2>2, <2>3, <3>1 DEF Backed
  <2> QED BY <2>2, <2>4, <2>5, <2>6 DEF Covered
<1>5. ASSUME NEW s \in Sessions, CancelOld(s) PROVE Covered'
  <2> DEFINE old == rows[req[s].id]
             row == [old EXCEPT !.status = "CANCELED_BY_USER", !.canceledAt = req[s].at]
  <2>1. /\ old \in Row /\ held' = held /\ pc'[s] = "limits"
        /\ \E e : Writes(s, req[s].id, row, e)
    BY <1>5, CancelOldWrites
  <2>2. row.status = "CANCELED_BY_USER" BY <2>1 DEF Row
  <2>3. ~Seat(row) BY <2>2 DEF Seat, Occupying
  <2> HIDE DEF row
  <2> QED BY <2>1, <2>3, WritesCovered
<1>6. ASSUME NEW s \in Sessions, InsertRow(s) PROVE Covered'
  <2>1. PICK i \in FreeIds : \E e : Writes(s, i, NewRow(s), e)
    BY <1>6, InsertRowWrites
  <2>2. /\ pc'[s] = "commit" /\ held[s] \subseteq held'[s] /\ cand[s] \in held'[s]
        /\ Placing(s) /\ Room(s)
    BY <1>6, InsertRowWrites DEF Typing, TypeOK
  <2>3. NewRow(s).rsrc = cand[s] BY DEF NewRow
  <2> QED BY <2>1, <2>2, <2>3, RoomExclusive, WritesCovered
<1>7. ASSUME NEW s \in Sessions, Update(s) PROVE Covered'
  <2> DEFINE q == req[s]
             old == rows[q.id]
             row == Transitioned(old, q.to, q.at, q.actor)
  <2>1. /\ pc[s] = "update" /\ pc'[s] # "relocate" /\ held' = held /\ q.id \in Ids
        /\ Allowed(q.seen.status, q.to) /\ old \in Row /\ old.status = q.seen.status
        /\ \E e : Writes(s, q.id, row, e)
    BY <1>7, UpdateWrites
  <2>2. Kept(old, row) /\ row.status = q.to /\ row.rsrc = old.rsrc /\ row.excl = old.excl
    BY <2>1, TransitionedKeeps
  <2>3. q.to \in Occupying => old.status \in Occupying
    BY <2>1 DEF Allowed, RULES, Rule, Occupying
  <2>4. ~Written(s, q.id)
    BY <2>1, NothingWritten DEF Locking, LocksByStep, Clean
  <2> HIDE DEF row
  <2>5. Seat(row) => SameSeat(old, row)
    BY <2>2, <2>3 DEF Seat, SameSeat, Kept
  <2> QED BY <2>1, <2>4, <2>5, WritesCovered
<1>8. ASSUME NEW s \in Sessions, Relocate(s) PROVE Covered'
  <2> DEFINE q == req[s]
             i == q.id
             row == Relocated(s)
  <2>1. /\ pc[s] = "relocate" /\ pc'[s] = "commit" /\ held' = held /\ i \in Ids
        /\ View(s)[i] \in Row /\ View(s)[i].status = q.to
        /\ \E e : Writes(s, i, row, e)
    BY <1>8, RelocateWrites
  <2>2. /\ row.status = q.to /\ row.rsrc = cand[s] /\ row.excl = (q.caps[cand[s]] = 1)
        /\ row.lo = View(s)[i].lo /\ row.hi = View(s)[i].hi
    BY <2>1 DEF Relocated, Row
  <2>3. /\ rows[i].status # "NONE" /\ rows[i].lo = q.seen.lo /\ rows[i].hi = q.seen.hi
    BY <2>1 DEF Faithful, About, Deciding
  <2>4. View(s)[i].lo = q.seen.lo /\ View(s)[i].hi = q.seen.hi
    <3>1. CASE Written(s, i)
      BY <2>1, <2>3, <3>1 DEF View, Faithful, Recorded, Kept
    <3>2. CASE ~Written(s, i)
      BY <2>1, <2>3, <3>2 DEF View
    <3> QED BY <3>1, <3>2
  <2>5. MoveChecked(s) BY DEF Covered
  <2> HIDE DEF row
  <2>6. ASSUME Seat(row), NEW j \in Ids \ {i}, Excluded(row, View(s)[j]) PROVE FALSE
    <3>1. q.to \in Occupying /\ q.caps[cand[s]] = 1 BY <2>2, <2>6 DEF Seat
    <3>2. Seat(View(s)[j]) /\ View(s)[j].rsrc = cand[s] /\ Overlaps(row, View(s)[j])
      BY <2>2, <2>6, ExcludedSeats
    <3>3. ~Overlaps(View(s)[j], q.seen) BY <2>1, <2>5, <3>1, <3>2 DEF MoveChecked
    <3> QED BY <2>2, <2>4, <3>2, <3>3 DEF Overlaps
  <2>7. row.rsrc \in held'[s] BY <2>1, <2>2, <2>5 DEF MoveChecked
  <2> QED BY <2>1, <2>6, <2>7, WritesCovered
<1> QED BY <1>1, <1>2, <1>3, <1>4, <1>5, <1>6, <1>7, <1>8, StepKinds DEF Kind

(* Every exclusive row, committed or pending, has its seat to itself: it was  *)
(* there already, or was checked under the resource lock that is still held.  *)
THEOREM SeatsCovered == Spec => []Covered
<1>1. Init => Covered
  BY NoRowIsNone DEF Init, Covered, MoveChecked, Written, NoWrites, Excluded, NoRow
<1> QED BY <1>1, CoveredStep, TypingInvariant, LocksHeldOnce, TransactionsFaithful, PTL DEF Spec

(* NoOverlapHolds: the EXCLUDE constraint of 0001_constraints.sql is never    *)
(* violated and never waited for, for any number of handlers, resources and   *)
(* reservations, although capacities change and are read without a lock.      *)
THEOREM NoOverlap == Spec => []NoOverlapHolds
BY CoveredImpliesNoOverlap, LocksHeldOnce, SeatsCovered, PTL

-----------------------------------------------------------------------------
(* Tables. *)

Table == {t \in [Ids -> Row \cup {NoRow}] :
            \A i \in Ids : t[i].status # "NONE" => t[i].lo < t[i].hi}

(* Two versions that take the same room. *)
SameRoom(a, b) ==
  /\ a.status \in Occupying /\ b.status \in Occupying /\ a.rsrc = b.rsrc
  /\ a.lo = b.lo /\ a.hi = b.hi /\ a.party = b.party

(* The rows of a resource are finitely many, timed, and not empty. *)
LEMMA TableTyped ==
  ASSUME NEW t \in Table, NEW r
  PROVE  IsFiniteSet(OccupyingOn(t, r)) /\ Typed(t, OccupyingOn(t, r))
<1>1. OccupyingOn(t, r) \subseteq Ids BY DEF OccupyingOn, Table
<1>2. IsFiniteSet(OccupyingOn(t, r)) BY <1>1, IdsAssumption, FS_Subset
<1>3. ASSUME NEW i \in OccupyingOn(t, r)
      PROVE  t[i].lo \in Int /\ t[i].hi \in Int /\ t[i].lo < t[i].hi /\ t[i].party \in Nat \ {0}
  <2>1. t[i] \in Row /\ t[i].status # "NONE"
    BY <1>1, NoRowIsNone DEF OccupyingOn, Table, Occupying
  <2>2. t[i].lo < t[i].hi BY <1>1, <2>1 DEF Table
  <2> QED BY <2>1, <2>2 DEF Row
<1> QED BY <1>2, <1>3 DEF Typed

(* A table that takes no more room than another ... *)
LEMMA NoMoreTaken ==
  ASSUME NEW t \in Table, NEW u \in Table, NEW r, NEW seats \in Nat,
         NotOversold(t, r, seats),
         \A i \in Ids : u[i].status \in Occupying /\ u[i].rsrc = r => SameRoom(t[i], u[i])
  PROVE  NotOversold(u, r, seats)
<1>1. DOMAIN t = Ids /\ DOMAIN u = Ids BY DEF Table
<1>2. \A i \in OccupyingOn(u, r) \ {} :
        /\ i \in OccupyingOn(t, r)
        /\ u[i].lo = t[i].lo /\ u[i].hi = t[i].hi /\ u[i].party = t[i].party
  BY <1>1 DEF OccupyingOn, SameRoom
<1>3. /\ IsFiniteSet(OccupyingOn(t, r)) /\ Typed(t, OccupyingOn(t, r))
      /\ IsFiniteSet(OccupyingOn(u, r)) /\ Typed(u, OccupyingOn(u, r))
  BY TableTyped
<1>4. \A m \in OccupyingOn(u, r) \cap {} : FoundRoom(u, r, m, seats) OBVIOUS
<1> QED BY <1>2, <1>3, <1>4, RoomSuffices

(* ... and one that takes more in one row, which found room. *)
LEMMA OneMoreFits ==
  ASSUME NEW t \in Table, NEW u \in Table, NEW r, NEW seats \in Nat,
         NotOversold(t, r, seats), NEW m \in Ids, FoundRoom(u, r, m, seats),
         \A i \in Ids \ {m} :
           u[i].status \in Occupying /\ u[i].rsrc = r => SameRoom(t[i], u[i])
  PROVE  NotOversold(u, r, seats)
<1>1. DOMAIN t = Ids /\ DOMAIN u = Ids BY DEF Table
<1>2. \A i \in OccupyingOn(u, r) \ {m} :
        /\ i \in OccupyingOn(t, r)
        /\ u[i].lo = t[i].lo /\ u[i].hi = t[i].hi /\ u[i].party = t[i].party
  BY <1>1 DEF OccupyingOn, SameRoom
<1>3. /\ IsFiniteSet(OccupyingOn(t, r)) /\ Typed(t, OccupyingOn(t, r))
      /\ IsFiniteSet(OccupyingOn(u, r)) /\ Typed(u, OccupyingOn(u, r))
  BY TableTyped
<1>4. \A i \in OccupyingOn(u, r) \cap {m} : FoundRoom(u, r, i, seats) OBVIOUS
<1> QED BY <1>2, <1>3, <1>4, RoomSuffices

-----------------------------------------------------------------------------
(* Capacities. *)

(* No capacity, stored or read, exceeds what a resource is ever given. *)
Within(caps) == \A r \in Resources : caps[r] \in Nat /\ caps[r] <= MostSeats(r)

Bounded == Within(capacity) /\ \A s \in Sessions : Within(req[s].caps)

(* The capacities an owner may store are among them. *)
LEMMA Seats ==
  \A r \in Resources :
    /\ MostSeats(r) \in Nat /\ InitCapacity[r] \in Nat /\ InitCapacity[r] <= MostSeats(r)
    /\ \A n \in Capacities : n \in Nat /\ n <= MostSeats(r)
<1> SUFFICES ASSUME NEW r \in Resources
             PROVE  /\ MostSeats(r) \in Nat /\ InitCapacity[r] \in Nat
                    /\ InitCapacity[r] <= MostSeats(r)
                    /\ \A n \in Capacities : n \in Nat /\ n <= MostSeats(r)
  OBVIOUS
<1> DEFINE sizes == {InitCapacity[r]} \cup Capacities
<1>1. LargestCapacity \in Nat /\ \A n \in sizes : n \in Nat /\ n <= LargestCapacity
  BY ResourceAssumption DEF LargestCapacity
<1>2. Max(sizes) \in sizes /\ \A n \in sizes : n <= Max(sizes)
  <2>1. sizes \in SUBSET Nat /\ sizes # {} BY <1>1
  <2> HIDE DEF sizes
  <2> QED BY <1>1, <2>1, MaxOf
<1>3. MostSeats(r) = Max(sizes) BY DEF MostSeats
<1> HIDE DEF MostSeats
<1> QED BY <1>1, <1>2, <1>3

(* The table starts with one of them. *)
LEMMA InitWithin == Within(InitCapacity) BY Seats DEF Within

(* Where a capacity that somebody stores or reads comes from. *)
CapsCome ==
  /\ capacity' = capacity \/ \E r \in Resources, n \in Capacities : EditCapacity(r, n)
  /\ \A s \in Sessions : req'[s].caps \in {req[s].caps, capacity, InitCapacity}

LEMMA CapacitiesCome == Typing /\ [Next]_vars => CapsCome
<1> SUFFICES ASSUME Typing, [Next]_vars PROVE CapsCome OBVIOUS
<1>1. NoReq.caps = InitCapacity BY DEF NoReq
<1>2. ASSUME UNCHANGED <<capacity, req>> PROVE CapsCome BY <1>2 DEF CapsCome
<1>3. ASSUME NEW s \in Sessions, Rollback(s), UNCHANGED capacity PROVE CapsCome
  <2>1. req' = [req EXCEPT ![s] = NoReq] BY <1>3 DEF Rollback, Leave
  <2>2. \A t \in Sessions : req'[t].caps = req[t].caps \/ req'[t].caps = InitCapacity
    BY <1>1, <2>1 DEF Typing, TypeOK
  <2> QED BY <1>3, <2>2 DEF CapsCome
<1>4. ASSUME NEW s \in Sessions, NEW q, q.caps = capacity \/ q.caps = InitCapacity,
             req' = [req EXCEPT ![s] = q], UNCHANGED capacity
      PROVE  CapsCome
  <2>1. \A t \in Sessions : \/ req'[t].caps = req[t].caps
                            \/ req'[t].caps = capacity \/ req'[t].caps = InitCapacity
    BY <1>4 DEF Typing, TypeOK
  <2> QED BY <1>4, <2>1 DEF CapsCome
<1>5. ASSUME NEW s \in Sessions, Place(s) PROVE CapsCome
  <2>1. ASSUME NEW q, NEW offered, StartPlacing(s, q, offered), q.caps = capacity PROVE CapsCome
    BY <1>4, <2>1 DEF StartPlacing, db
  <2>2. \A kind, actor, p, st, n : Order(kind, actor, p, st, n).caps = capacity
    BY DEF Order, NoReq
  <2>3. CASE RequestPlace(s)
    <3>1. PICK c, p, st, n, offered :
            StartPlacing(s, Order("PLACE", Customer(c), p, st, n), offered)
      BY <2>3, ZenonT(30) DEF RequestPlace
    <3> QED BY <2>1, <2>2, <3>1
  <2>4. CASE RequestWalkIn(s)
    <3>1. PICK p, st, n, offered :
            StartPlacing(s, Order("WALKIN", Owner, p, st, n), offered)
      BY <2>4, ZenonT(30) DEF RequestWalkIn
    <3> QED BY <2>1, <2>2, <3>1
  <2>5. CASE RequestChange(s)
    <3> DEFINE q(old, i, st, n) ==
          [Order("CHANGE", Customer(old.cust), old.prod, st, n) EXCEPT
             !.id = i, !.seen = old,
             !.force = ~BeforeCancelDeadline(old, now, Policy.cancelDeadline)]
    <3>1. PICK i, st, n, offered : StartPlacing(s, q(rows[i], i, st, n), offered)
      BY <2>5, ZenonT(30) DEF RequestChange
    <3>2. q(rows[i], i, st, n).caps = capacity BY DEF Order, NoReq
    <3> HIDE DEF q
    <3> QED BY <2>1, <3>1, <3>2
  <2> QED BY <1>5, <2>3, <2>4, <2>5 DEF Place
<1>6. ASSUME NEW s \in Sessions, NEW i, NEW to, NEW a, NEW at, StartTransition(s, i, to, a, at)
      PROVE  CapsCome
  <2> DEFINE q == [NoReq EXCEPT !.kind = "TRANSITION", !.at = at, !.actor = a, !.to = to,
                                !.id = i, !.seen = rows[i], !.caps = capacity]
  <2>1. req' = [req EXCEPT ![s] = q] /\ UNCHANGED db BY <1>6 DEF StartTransition
  <2>2. q.caps = capacity BY DEF NoReq
  <2> HIDE DEF q
  <2> QED BY <1>4, <2>1, <2>2 DEF db
<1>7. ASSUME NEW s \in Sessions, RequestReassign(s) PROVE CapsCome
  <2> DEFINE q(i) == [NoReq EXCEPT !.kind = "REASSIGN", !.at = now, !.actor = Owner,
                                   !.to = rows[i].status, !.id = i, !.seen = rows[i]]
  <2>1. PICK i \in Ids : req' = [req EXCEPT ![s] = q(i)] /\ UNCHANGED db
    BY <1>7, ZenonT(30) DEF RequestReassign
  <2>2. q(i).caps = InitCapacity BY DEF NoReq
  <2> HIDE DEF q
  <2> QED BY <1>4, <2>1, <2>2 DEF db
<1>8. ASSUME NEW s \in Sessions, Statement(s) PROVE CapsCome
  <2>1. CASE ReadTarget(s)
    <3>1. req[s] \in Request BY DEF Typing, TypeOK
    <3>2. req' = [req EXCEPT ![s] = [req[s] EXCEPT !.caps = capacity]] /\ UNCHANGED db
      BY <2>1 DEF ReadTarget
    <3>3. [req[s] EXCEPT !.caps = capacity].caps = capacity BY <3>1 DEF Request
    <3> QED BY <1>4, <3>2, <3>3 DEF db
  <2>2. CASE SlotTaken(s)
    <3>1. Leave(s) \/ UNCHANGED req BY <2>2 DEF SlotTaken
    <3>2. UNCHANGED capacity /\ DropTx(s) BY <2>2 DEF SlotTaken, db
    <3> QED BY <1>2, <1>3, <3>1, <3>2 DEF Rollback
  <2>3. CASE \/ LockCustomer(s) \/ CancelOld(s) \/ LimitsPass(s) \/ InsertRow(s) \/ Validate(s)
             \/ Update(s) \/ LockTarget(s) \/ Relocate(s) \/ DeadlockRetry(s)
    <3>1. UNCHANGED <<capacity, req>>
      BY <2>3 DEF LockCustomer, CancelOld, LimitsPass, InsertRow, Validate, Update, LockTarget,
                  Relocate, DeadlockRetry, Goto, db
    <3> QED BY <1>2, <3>1
  <2>4. CASE \/ OldGone(s) \/ LimitsRefuse(s) \/ ProductDeleted(s) \/ ValidateRefuse(s)
             \/ UpdateMisses(s) \/ TargetRefuse(s) \/ TargetTaken(s) \/ RelocateMisses(s)
             \/ Commit(s) \/ DeadlockFail(s)
    BY <1>3, <2>4 DEF OldGone, LimitsRefuse, ProductDeleted, ValidateRefuse, UpdateMisses,
                      TargetRefuse, TargetTaken, RelocateMisses, Commit, DeadlockFail, db
  <2> QED BY <1>8, <2>1, <2>2, <2>3, <2>4 DEF Statement
<1>9. ASSUME NEW s \in Sessions, Crash(s) PROVE CapsCome BY <1>3, <1>9 DEF Crash, db
<1>10. ASSUME NEW s \in Workers, Arrive(s) PROVE CapsCome
  BY <1>5, <1>6, <1>7, <1>10 DEF Arrive, RequestTransition, Sessions
<1>11. ASSUME NEW s \in Crons, ExpireRequests(s) \/ AutoNoShow(s) \/ Sweep(s) PROVE CapsCome
  <2>1. CASE BatchStep(s) BY <1>6, <2>1 DEF BatchStep, Sessions
  <2>2. CASE ExpireRequests(s) \/ AutoNoShow(s) \/ BatchSkip(s) \/ BatchThrows(s)
    BY <1>2, <2>2 DEF ExpireRequests, AutoNoShow, StartBatch, BatchSkip, BatchThrows, db
  <2> QED BY <1>11, <2>1, <2>2 DEF Sweep
<1>12. CASE OwnerEdits
  <2>1. ASSUME NEW r \in Resources, NEW n \in Capacities, EditCapacity(r, n), UNCHANGED req
        PROVE  CapsCome
    BY <2>1 DEF CapsCome
  <2> QED BY <1>2, <1>12, <2>1 DEF OwnerEdits, SetResourceActive, SetProductStatus, RemoveProduct
<1>13. CASE Tick BY <1>2, <1>13 DEF Tick, db
<1>14. CASE UNCHANGED vars BY <1>2, <1>14 DEF vars
<1> QED BY <1>8, <1>9, <1>10, <1>11, <1>12, <1>13, <1>14 DEF Next, Rest

(* No step leaves these bounds. *)
LEMMA BoundedStep == Typing /\ Bounded /\ [Next]_vars => Bounded'
<1> SUFFICES ASSUME Typing, Bounded, [Next]_vars PROVE Bounded' OBVIOUS
<1>1. CapsCome BY CapacitiesCome
<1>2. Within(capacity)'
  <2>1. ASSUME NEW r \in Resources, NEW n \in Capacities, EditCapacity(r, n) PROVE Within(capacity)'
    <3>1. \A p \in Resources : capacity'[p] = capacity[p] \/ capacity'[p] = n
      BY <2>1 DEF EditCapacity, Typing, TypeOK
    <3> QED BY <3>1, Seats DEF Bounded, Within
  <2> QED BY <1>1, <2>1 DEF CapsCome, Bounded
<1>3. \A s \in Sessions : Within(req'[s].caps) BY <1>1, InitWithin DEF CapsCome, Bounded
<1> QED BY <1>2, <1>3 DEF Bounded, Within

-----------------------------------------------------------------------------
(* Times. *)

(* A reservation ends after it begins, committed or pending. *)
Timed == rows \in Table /\ \A s \in Sessions : writes[s] \in Table

(* What a session sees is a table too. *)
LEMMA ViewTimed == ASSUME Timed, NEW s \in Sessions PROVE View(s) \in Table
BY DEF Timed, Table, View, Written

(* A new row lasts a while. *)
LEMMA NewRowTimed ==
  ASSUME Typing, NEW s \in Sessions, Placing(s)
  PROVE  NewRow(s).lo < NewRow(s).hi
<1>1. req[s].prod \in Products BY DEF Typing, Knows, PlacingKnows
<1>2. req[s].start \in Nat BY DEF Typing, TypeOK, Request
<1>3. /\ Catalogue[req[s].prod].before \in Nat /\ Catalogue[req[s].prod].after \in Nat
      /\ Catalogue[req[s].prod].duration \in Nat \ {0}
  BY <1>1, CatalogueAssumption DEF CatalogueType
<1>4. /\ NewRow(s).lo = req[s].start - Catalogue[req[s].prod].before
      /\ NewRow(s).hi = req[s].start + Catalogue[req[s].prod].duration
                          + Catalogue[req[s].prod].after
  BY DEF NewRow, OccupyRange
<1>5. \A st, b, a \in Nat, d \in Nat \ {0} : st - b < st + d + a OBVIOUS
<1> QED BY <1>2, <1>3, <1>4, <1>5, Zenon

(* A pending row put on the table of its session. *)
LEMMA WritesTimed ==
  ASSUME Typing, Timed, NEW s \in Sessions, NEW i, NEW row, NEW e, Writes(s, i, row, e),
         row.lo < row.hi
  PROVE  Timed'
<1>1. /\ rows' = rows /\ i \in Ids /\ row \in Row
      /\ writes'[s] = [writes[s] EXCEPT ![i] = row]
      /\ \A t \in Sessions \ {s} : writes'[t] = writes[t]
  BY DEF Writes, OthersStill
<1>2. writes'[s] \in Table BY <1>1 DEF Timed, Table
<1> QED BY <1>1, <1>2 DEF Timed

(* Every step keeps the tables timed. *)
LEMMA TimedStep == Typing /\ Locking /\ Faithful /\ Timed /\ [Next]_vars => Timed'
<1> SUFFICES ASSUME Typing, Locking, Faithful, Timed, [Next]_vars PROVE Timed' OBVIOUS
<1>1. ASSUME UNCHANGED <<rows, writes>> PROVE Timed' BY <1>1 DEF Timed
<1>2. ASSUME NEW s \in Sessions, EndsTx(s) PROVE Timed'
  <2>1. NoWrites \in Table BY NoRowIsNone DEF NoWrites, Table
  <2>2. View(s) \in Table BY ViewTimed
  <2> QED BY <1>2, <2>1, <2>2 DEF EndsTx, OthersStill, Timed
<1>3. ASSUME NEW s \in Sessions, CancelOld(s) PROVE Timed'
  <2> DEFINE old == rows[req[s].id]
             row == [old EXCEPT !.status = "CANCELED_BY_USER", !.canceledAt = req[s].at]
  <2>1. old \in Row /\ req[s].id \in Ids /\ \E e : Writes(s, req[s].id, row, e)
    BY <1>3, CancelOldWrites
  <2>2. row.lo = old.lo /\ row.hi = old.hi BY <2>1 DEF Row
  <2>3. old.lo < old.hi BY <2>1, RealRow DEF Timed, Table
  <2> HIDE DEF row
  <2> QED BY <2>1, <2>2, <2>3, WritesTimed
<1>4. ASSUME NEW s \in Sessions, InsertRow(s) PROVE Timed'
  BY <1>4, InsertRowWrites, NewRowTimed, WritesTimed
<1>5. ASSUME NEW s \in Sessions, Update(s) PROVE Timed'
  <2> DEFINE q == req[s]
             old == rows[q.id]
             row == Transitioned(old, q.to, q.at, q.actor)
  <2>1. old \in Row /\ q.id \in Ids /\ \E e : Writes(s, q.id, row, e) BY <1>5, UpdateWrites
  <2>2. row.lo = old.lo /\ row.hi = old.hi BY <2>1, TransitionedKeeps DEF Kept
  <2>3. old.lo < old.hi BY <2>1, RealRow DEF Timed, Table
  <2> HIDE DEF row
  <2> QED BY <2>1, <2>2, <2>3, WritesTimed
<1>6. ASSUME NEW s \in Sessions, Relocate(s) PROVE Timed'
  <2> DEFINE i == req[s].id
             row == Relocated(s)
  <2>1. View(s)[i] \in Row /\ i \in Ids /\ \E e : Writes(s, i, row, e)
    BY <1>6, RelocateWrites
  <2>2. row.lo = View(s)[i].lo /\ row.hi = View(s)[i].hi BY <2>1 DEF Relocated, Row
  <2>3. View(s)[i].lo < View(s)[i].hi BY <2>1, RealRow, ViewTimed DEF Table
  <2> HIDE DEF row
  <2> QED BY <2>1, <2>2, <2>3, WritesTimed
<1>7. ASSUME NEW s \in Sessions, Begins(s) \/ GoesOn(s) \/ LockCustomer(s) \/ LockTarget(s)
      PROVE  Timed'
  BY <1>1, <1>7, LockCustomerTakes, LockTargetTakes DEF Begins, GoesOn
<1> QED BY <1>1, <1>2, <1>3, <1>4, <1>5, <1>6, <1>7, StepKinds DEF Kind, Elsewhere

-----------------------------------------------------------------------------
(* Sold. *)

(* The UPDATE of a move that has been checked is still to come. *)
Moving(s) == pc[s] = "relocate" /\ req[s].to \in Occupying

(* The table it makes. *)
Sought(s) ==
  [View(s) EXCEPT ![req[s].id] = [req[s].seen EXCEPT !.status = req[s].to, !.rsrc = cand[s]]]

(* A pending row has the room of its committed version, or is under a lock. *)
Supported(s, i) ==
  LET w == writes[s][i]
  IN  w.status \in Occupying => SameRoom(rows[i], w) \/ w.rsrc \in held[s]

Sound(t) == \A r \in Resources : NotOversold(t, r, MostSeats(r))

Sold ==
  /\ Sound(rows)
  /\ \A s \in Sessions :
       /\ Sound(View(s))
       /\ \A i \in Ids : Written(s, i) => Supported(s, i)
       /\ Moving(s) => /\ cand[s] \in held[s]
                       /\ NotOversold(Sought(s), cand[s], MostSeats(cand[s]))

(* The row a handler is about to move, as it will be. *)
LEMMA SoughtTimed ==
  ASSUME Typing, Faithful, Timed, NEW s \in Sessions, Moving(s)
  PROVE  /\ Sought(s) \in Table /\ req[s].id \in Ids /\ cand[s] \in Resources
         /\ Sought(s)[req[s].id].status = req[s].to /\ Sought(s)[req[s].id].rsrc = cand[s]
         /\ Sought(s)[req[s].id].lo = req[s].seen.lo
         /\ Sought(s)[req[s].id].hi = req[s].seen.hi
         /\ Sought(s)[req[s].id].party = req[s].seen.party
         /\ \A j \in Ids \ {req[s].id} : Sought(s)[j] = View(s)[j]
<1> DEFINE q == req[s]
           i == q.id
           row == [q.seen EXCEPT !.status = q.to, !.rsrc = cand[s]]
<1>1. i \in Ids /\ q.seen \in Row /\ q.to \in Statuses /\ cand[s] \in Resources
  BY DEF Moving, Typing, Knows, DecidingKnows
<1>2. rows[i].status # "NONE" /\ rows[i].lo = q.seen.lo /\ rows[i].hi = q.seen.hi
  BY DEF Moving, Faithful, About, Deciding
<1>3. q.seen.lo < q.seen.hi BY <1>1, <1>2 DEF Timed, Table
<1>4. /\ row \in Row /\ row.status = q.to /\ row.rsrc = cand[s] /\ row.lo = q.seen.lo
      /\ row.hi = q.seen.hi /\ row.party = q.seen.party
  BY <1>1 DEF Row
<1>5. View(s) \in Table BY ViewTimed
<1>6. Sought(s) = [View(s) EXCEPT ![i] = row] BY DEF Sought
<1> HIDE DEF row
<1>7. Sought(s) \in Table BY <1>1, <1>3, <1>4, <1>5, <1>6 DEF Table
<1>8. Sought(s)[i] = row /\ \A j \in Ids \ {i} : Sought(s)[j] = View(s)[j]
  BY <1>1, <1>5, <1>6 DEF Table
<1> QED BY <1>1, <1>4, <1>7, <1>8

(* At the UPDATE the row is what was loaded, for what it takes. *)
LEMMA MovedTakes ==
  ASSUME Typing, Faithful, NEW s \in Sessions, pc[s] = "relocate"
  PROVE  /\ View(s)[req[s].id].lo = req[s].seen.lo /\ View(s)[req[s].id].hi = req[s].seen.hi
         /\ View(s)[req[s].id].party = req[s].seen.party
<1> DEFINE q == req[s]
           i == q.id
<1>1. /\ i \in Ids /\ rows[i].status # "NONE" /\ rows[i].lo = q.seen.lo
      /\ rows[i].hi = q.seen.hi /\ rows[i].party = q.seen.party
  BY DEF Faithful, About, Deciding
<1>2. CASE Written(s, i) BY <1>1, <1>2 DEF View, Faithful, Recorded, Kept
<1>3. CASE ~Written(s, i) BY <1>1, <1>3 DEF View
<1> QED BY <1>2, <1>3

(* A write that leaves the session's own table sound, and is supported. *)
LEMMA WritesSold ==
  ASSUME Typing, Timed, Sold, NEW s \in Sessions, NEW i, NEW row, NEW e,
         Writes(s, i, row, e), held[s] \subseteq held'[s], pc'[s] # "relocate",
         row.status \in Occupying => SameRoom(rows[i], row) \/ row.rsrc \in held'[s],
         Sound([View(s) EXCEPT ![i] = row])
  PROVE  Sold'
<1>1. /\ rows' = rows /\ i \in Ids /\ row \in Row /\ OthersStill(s)
      /\ writes'[s] = [writes[s] EXCEPT ![i] = row] /\ writes[s] \in [Ids -> Row \cup {NoRow}]
  BY DEF Writes, Typing, TypeOK
<1>2. View(s)' = [View(s) EXCEPT ![i] = row]
  <2>1. /\ writes'[s][i] = row /\ row.status # "NONE"
        /\ \A j \in Ids \ {i} : writes'[s][j] = writes[s][j]
    BY <1>1, RealRow
  <2> QED BY <1>1, <2>1 DEF View, Written
<1>3. ASSUME NEW t \in Sessions, t # s
      PROVE  /\ Sound(View(t))'
             /\ \A j \in Ids : Written(t, j)' => Supported(t, j)'
             /\ Moving(t)' => /\ cand'[t] \in held'[t]
                              /\ NotOversold(Sought(t), cand[t], MostSeats(cand[t]))'
  <2>1. /\ pc'[t] = pc[t] /\ req'[t] = req[t] /\ cand'[t] = cand[t] /\ held'[t] = held[t]
        /\ writes'[t] = writes[t]
    BY <1>1, <1>3 DEF OthersStill
  <2>2. View(t)' = View(t) BY <1>1, <2>1 DEF View, Written
  <2>3. Sought(t)' = Sought(t) BY <2>1, <2>2 DEF Sought
  <2> QED BY <1>1, <2>1, <2>2, <2>3 DEF Sold, Sound, Moving, Supported, Written
<1>4. ASSUME NEW j \in Ids, Written(s, j)' PROVE Supported(s, j)'
  <2>1. CASE j = i BY <1>1, <2>1 DEF Supported
  <2>2. CASE j # i
    <3>1. writes'[s][j] = writes[s][j] BY <1>1, <2>2
    <3>2. Supported(s, j) BY <1>4, <3>1 DEF Sold, Written
    <3> QED BY <1>1, <3>1, <3>2 DEF Supported
  <2> QED BY <2>1, <2>2
<1>5. Sound(View(s))' BY <1>2 DEF Sound
<1>6. Sound(rows)' BY <1>1 DEF Sold, Sound
<1>7. ~Moving(s)' BY DEF Moving
<1> QED BY <1>3, <1>4, <1>5, <1>6, <1>7 DEF Sold

(* Another session's commit leaves no more taken on a locked resource. *)
LEMMA CommitUnderLock ==
  ASSUME Locking, Sold, NEW s \in Sessions, EndsTx(s), NEW t \in Sessions, t # s,
         NEW j \in Ids, View(t)'[j].status \in Occupying, View(t)'[j].rsrc \in held[t]
  PROVE  SameRoom(View(t)[j], View(t)'[j])
<1>1. writes'[t] = writes[t] BY DEF EndsTx, OthersStill
<1>2. CASE Written(t, j) \/ rows'[j] = rows[j]
  <2>1. View(t)'[j] = View(t)[j] BY <1>1, <1>2 DEF View, Written
  <2> QED BY <2>1 DEF SameRoom
<1>3. CASE ~Written(t, j) /\ rows'[j] # rows[j]
  <2>1. rows' = View(s) BY <1>3 DEF EndsTx
  <2>2. Written(s, j) /\ rows'[j] = writes[s][j] BY <1>3, <2>1 DEF View
  <2>3. View(t)'[j] = writes[s][j] /\ View(t)[j] = rows[j]
    BY <1>1, <1>3, <2>2 DEF View, Written
  <2>4. Supported(s, j) BY <2>2 DEF Sold
  <2>5. writes[s][j].rsrc \notin held[s] BY <2>3 DEF Locking, OneHolder
  <2> QED BY <2>3, <2>4, <2>5 DEF Supported
<1> QED BY <1>2, <1>3

(* A commit keeps the tables sold within capacity. *)
LEMMA EndsSold ==
  ASSUME Typing, Locking, Faithful, Timed, Timed', Sold, NEW s \in Sessions, EndsTx(s)
  PROVE  Sold'
<1>1. Sound(rows)' BY DEF EndsTx, Sold, Sound
<1>2. Sound(View(s))' /\ ~Moving(s)' /\ \A i \in Ids : ~Written(s, i)'
  <2>1. \A i \in Ids : ~Written(s, i)' BY NoRowIsNone DEF EndsTx, Written, NoWrites
  <2>2. View(s)' = rows' BY <2>1 DEF View, Timed, Table
  <2> QED BY <1>1, <2>1, <2>2 DEF EndsTx, Moving, Sound
<1>3. ASSUME NEW t \in Sessions, t # s
      PROVE  /\ Sound(View(t))'
             /\ \A j \in Ids : Written(t, j)' => Supported(t, j)'
             /\ Moving(t)' => /\ cand'[t] \in held'[t]
                              /\ NotOversold(Sought(t), cand[t], MostSeats(cand[t]))'
  <2>1. /\ pc'[t] = pc[t] /\ req'[t] = req[t] /\ cand'[t] = cand[t] /\ held'[t] = held[t]
        /\ writes'[t] = writes[t]
    BY <1>3 DEF EndsTx, OthersStill
  <2>2. ASSUME NEW j \in Ids, Written(t, j) PROVE rows'[j] = rows[j]
    BY <1>3, <2>2 DEF EndsTx, View, Locking, OneHolder
  <2>3. ASSUME NEW j \in Ids, Written(t, j)' PROVE Supported(t, j)'
    <3>1. Written(t, j) BY <2>1, <2>3 DEF Written
    <3> QED BY <2>1, <2>2, <3>1 DEF Sold, Supported
  <2>4. View(t) \in Table /\ View(t)' \in Table /\ rows' \in Table
    BY ViewTimed DEF Timed, Table, View, Written
  <2>5. ASSUME NEW r \in Resources PROVE NotOversold(View(t)', r, MostSeats(r))
    <3>1. CASE r \in held[t]
      <4>1. \A j \in Ids : View(t)'[j].status \in Occupying /\ View(t)'[j].rsrc = r
                             => SameRoom(View(t)[j], View(t)'[j])
        BY <1>3, <3>1, CommitUnderLock
      <4>2. NotOversold(View(t), r, MostSeats(r)) BY DEF Sold, Sound
      <4> QED BY <2>4, <4>1, <4>2, Seats, NoMoreTaken
    <3>2. CASE r \notin held[t]
      <4>1. ASSUME NEW j \in Ids, View(t)'[j].status \in Occupying, View(t)'[j].rsrc = r
            PROVE  SameRoom(rows'[j], View(t)'[j])
        <5>1. CASE Written(t, j)
          <6>1. View(t)'[j] = writes[t][j] BY <2>1, <5>1 DEF View, Written
          <6>2. Supported(t, j) BY <5>1 DEF Sold
          <6>3. SameRoom(rows[j], writes[t][j]) BY <3>2, <4>1, <6>1, <6>2 DEF Supported
          <6> QED BY <2>2, <5>1, <6>1, <6>3
        <5>2. CASE ~Written(t, j)
          <6>1. View(t)'[j] = rows'[j] BY <2>1, <5>2 DEF View, Written
          <6> QED BY <4>1, <6>1 DEF SameRoom
        <5> QED BY <5>1, <5>2
      <4>2. NotOversold(rows', r, MostSeats(r)) BY <1>1 DEF Sound
      <4> QED BY <2>4, <4>1, <4>2, Seats, NoMoreTaken
    <3> QED BY <3>1, <3>2
  <2>6. ASSUME Moving(t)'
        PROVE  cand[t] \in held[t] /\ NotOversold(Sought(t)', cand[t], MostSeats(cand[t]))
    <3> DEFINE i == req[t].id
               row == [req[t].seen EXCEPT !.status = req[t].to, !.rsrc = cand[t]]
    <3>1. Moving(t) BY <2>1, <2>6 DEF Moving
    <3>2. cand[t] \in held[t] /\ NotOversold(Sought(t), cand[t], MostSeats(cand[t]))
      BY <3>1 DEF Sold
    <3>3. /\ Sought(t) \in Table /\ i \in Ids /\ cand[t] \in Resources
          /\ \A j \in Ids \ {i} : Sought(t)[j] = View(t)[j]
      BY <3>1, SoughtTimed
    <3>4. Sought(t) = [View(t) EXCEPT ![i] = row] /\ Sought(t)' = [View(t)' EXCEPT ![i] = row]
      BY <2>1 DEF Sought
    <3> HIDE DEF row
    <3>5. /\ Sought(t)[i] = row /\ Sought(t)'[i] = row
          /\ \A j \in Ids \ {i} : Sought(t)'[j] = View(t)'[j]
      BY <2>4, <3>3, <3>4 DEF Table
    <3>6. Sought(t)' \in Table BY <2>4, <3>3, <3>4, <3>5 DEF Table
    <3>7. ASSUME NEW j \in Ids, Sought(t)'[j].status \in Occupying, Sought(t)'[j].rsrc = cand[t]
          PROVE  SameRoom(Sought(t)[j], Sought(t)'[j])
      <4>1. CASE j = i BY <3>5, <3>7, <4>1 DEF SameRoom
      <4>2. CASE j # i BY <1>3, <3>2, <3>3, <3>5, <3>7, <4>2, CommitUnderLock
      <4> QED BY <4>1, <4>2
    <3> QED BY <3>2, <3>3, <3>6, <3>7, Seats, NoMoreTaken
  <2> QED BY <2>1, <2>3, <2>5, <2>6 DEF Sound
<1> QED BY <1>1, <1>2, <1>3 DEF Sold

(* The check under the lock, for the table its UPDATE is going to make. *)
LEMMA LockTargetSold ==
  ASSUME Typing, Faithful, Faithful', Timed, Sold, Bounded,
         NEW s \in Sessions, LockTarget(s), req[s].to \in Occupying
  PROVE  NotOversold(Sought(s), cand[s], MostSeats(cand[s]))'
<1> DEFINE q == req[s]
           i == q.id
           r == cand[s]
           t == View(s)
           row == [q.seen EXCEPT !.status = q.to, !.rsrc = r]
           u == [t EXCEPT ![i] = row]
<1>1. /\ pc[s] = "move" /\ TargetFits(s) /\ UNCHANGED <<rows, req, cand, writes>>
  BY LockTargetTakes
<1>2. i \in Ids /\ q.seen \in Row /\ r \in Resources /\ q.to \in Statuses
  BY <1>1 DEF Typing, Knows, DecidingKnows
<1>3. /\ rows[i].status # "NONE" /\ rows[i].lo = q.seen.lo /\ rows[i].hi = q.seen.hi
  BY <1>1 DEF Faithful, About, Deciding
<1>4. q.seen.lo < q.seen.hi BY <1>2, <1>3 DEF Timed, Table
<1>5. /\ row \in Row /\ row.status = q.to /\ row.rsrc = r /\ row.lo = q.seen.lo
      /\ row.hi = q.seen.hi /\ row.party = q.seen.party
  BY <1>2 DEF Row
<1>6. t \in Table BY ViewTimed
<1>7. /\ Sought(s)' = u
  BY <1>1 DEF Sought, View, Written
<1> HIDE DEF row, t
<1>8. u[i] = row /\ \A j \in Ids \ {i} : u[j] = t[j] BY <1>2, <1>6 DEF Table
<1>9. u \in Table BY <1>2, <1>4, <1>5, <1>6, <1>8 DEF Table
<1>10. \E excl : FitsExisting(i, q.seen, q.seen.party, excl, t, r, q.caps[r])
  BY <1>1, <1>2 DEF TargetFits, Bounded, t
<1>11. /\ OccupyingOn(u, r) \ {i} = OccupyingOn(t, r) \ {i}
       /\ \A j \in OccupyingOn(t, r) \ {i} : u[j] = t[j]
  BY <1>6, <1>8, <1>9 DEF OccupyingOn, Table
<1>12. FoundRoom(u, r, i, MostSeats(r))
  <2>1. PICK excl : FitsExisting(i, q.seen, q.seen.party, excl, t, r, q.caps[r])
    BY <1>10
  <2>2. u[i].lo = q.seen.lo /\ u[i].hi = q.seen.hi /\ u[i].party = q.seen.party
    BY <1>5, <1>8
  <2>3. \A j \in OccupyingOn(t, r) \ {i} :
          u[j].lo = t[j].lo /\ u[j].hi = t[j].hi /\ u[j].party = t[j].party
    BY <1>11
  <2>4. OccupyingOn(u, r) \ {i} = OccupyingOn(t, r) \ {i} BY <1>11
  <2> DEFINE seen == q.seen
             cap == req[s].caps[r]
  <2>5. FitsExisting(i, seen, seen.party, excl, t, r, cap) BY <2>1
  <2>6. u[i].lo = seen.lo /\ u[i].hi = seen.hi /\ u[i].party = seen.party BY <2>2
  <2> HIDE DEF u, r, i, seen, cap
  <2>7. FoundRoom(u, r, i, cap) BY <2>3, <2>4, <2>5, <2>6, ExistingFoundRoom
  <2>8. cap \in Nat /\ cap <= MostSeats(r) /\ MostSeats(r) \in Nat
    BY <1>2, Seats DEF Bounded, Within, cap, r
  <2>9. IsFiniteSet(OccupyingOn(u, r)) /\ Typed(u, OccupyingOn(u, r)) BY <1>9, TableTyped
  <2>10. u[i].lo \in Int /\ u[i].party \in Nat BY <1>5, <1>8 DEF Row, i, u, r
  <2> QED BY <2>7, <2>8, <2>9, <2>10, RoomGrows
<1>13. \A j \in Ids \ {i} : u[j].status \in Occupying /\ u[j].rsrc = r => SameRoom(t[j], u[j])
  BY <1>8 DEF SameRoom
<1>14. NotOversold(t, r, MostSeats(r)) BY <1>2 DEF Sold, Sound, t
<1>15. NotOversold(u, r, MostSeats(r))
  <2> HIDE DEF u, r, i
  <2> QED BY <1>2, <1>6, <1>9, <1>12, <1>13, <1>14, Seats, OneMoreFits
<1> QED BY <1>1, <1>7, <1>15

(* The recount under the lock, for the row that is inserted. *)
LEMMA InsertSold ==
  ASSUME Typing, Timed, Timed', Sold, Bounded, NEW s \in Sessions, InsertRow(s) PROVE Sold'
<1> DEFINE r == cand[s]
           q == req[s]
           t == View(s)
           row == NewRow(s)
           range == OccupyRange(q.prod, q.start)
<1>1. PICK i \in FreeIds : \E e : Writes(s, i, row, e) BY InsertRowWrites
<1>2. /\ pc'[s] = "commit" /\ held[s] \subseteq held'[s] /\ r \in held'[s]
      /\ r \in Resources /\ Placing(s) /\ Room(s)
  BY InsertRowWrites DEF Typing, TypeOK
<1>3. /\ row.rsrc = r /\ row.lo = range.lo /\ row.hi = range.hi /\ row.party = q.party
      /\ row \in Row
  BY <1>1 DEF NewRow, Writes
<1>4. i \in Ids /\ rows[i].status = "NONE" /\ ~Written(s, i) BY DEF FreeIds
<1>5. t \in Table /\ t[i].status = "NONE" BY <1>4, ViewTimed DEF View
<1> DEFINE u == [t EXCEPT ![i] = row]
<1>6. row.lo < row.hi BY <1>2, NewRowTimed
<1>7. FitsNew(range, q.party, t, r, Catalogue[q.prod].perSlot, q.caps[r])
  BY <1>2 DEF Room
<1>8. Catalogue[q.prod].perSlot \in Nat
  BY <1>2, CatalogueAssumption DEF CatalogueType, Typing, Knows, PlacingKnows
<1>9. row.lo \in Int /\ row.party \in Nat BY <1>3 DEF Row
<1> HIDE DEF row, t, range
<1>10. u[i] = row /\ \A j \in Ids \ {i} : u[j] = t[j] BY <1>4, <1>5 DEF Table
<1>11. u \in Table BY <1>3, <1>4, <1>5, <1>6, <1>10 DEF Table
<1>12. OccupyingOn(u, r) \ {i} = OccupyingOn(t, r) /\ \A j \in OccupyingOn(t, r) : u[j] = t[j]
  <2>1. DOMAIN t = Ids /\ DOMAIN u = Ids BY <1>5 DEF Table
  <2>2. i \notin OccupyingOn(t, r) BY <1>5 DEF OccupyingOn, Occupying
  <2> QED BY <1>10, <2>1, <2>2 DEF OccupyingOn
<1>13. IsFiniteSet(OccupyingOn(t, r)) /\ Typed(t, OccupyingOn(t, r))
  BY <1>5, TableTyped
<1>14. FoundRoom(u, r, i, MostSeats(r))
  <2>1. /\ range.lo \in Int /\ q.party \in Nat BY <1>3, <1>9
  <2>2. FitsNew(row, row.party, t, r, Catalogue[q.prod].perSlot, q.caps[r])
    <3>1. PeakOccupancy(row, t, OccupyingOn(t, r)) = PeakOccupancy(range, t, OccupyingOn(t, r))
      BY <1>3, PeakSame
    <3> QED BY <1>3, <1>7, <3>1 DEF FitsNew, Overlaps
  <2> DEFINE cap == q.caps[r]
  <2>3. cap \in Nat /\ cap <= MostSeats(r) /\ MostSeats(r) \in Nat
    BY <1>2, Seats DEF Bounded, Within
  <2>4. FitsNew(row, row.party, t, r, Catalogue[q.prod].perSlot, cap) BY <2>2
  <2>5. IsFiniteSet(OccupyingOn(u, r)) /\ Typed(u, OccupyingOn(u, r)) BY <1>11, TableTyped
  <2>6. u[i].lo \in Int /\ u[i].party \in Nat BY <1>9, <1>10
  <2> HIDE DEF u, r, q, cap
  <2>7. FoundRoom(u, r, i, cap) BY <1>8, <1>9, <1>10, <1>12, <1>13, <2>3, <2>4, NewFoundRoom
  <2> QED BY <2>3, <2>5, <2>6, <2>7, RoomGrows
<1>15. ASSUME NEW p \in Resources PROVE NotOversold(u, p, MostSeats(p))
  <2>1. NotOversold(t, p, MostSeats(p)) BY DEF Sold, Sound, t
  <2>2. \A j \in Ids \ {i} : u[j].status \in Occupying /\ u[j].rsrc = p => SameRoom(t[j], u[j])
    BY <1>10 DEF SameRoom
  <2>3. CASE p = r
    <3> HIDE DEF u
    <3> QED BY <1>4, <1>5, <1>11, <1>14, <2>1, <2>2, <2>3, Seats, OneMoreFits
  <2>4. CASE p # r
    <3>1. \A j \in Ids : u[j].status \in Occupying /\ u[j].rsrc = p => SameRoom(t[j], u[j])
      BY <1>3, <1>10, <2>2, <2>4
    <3> HIDE DEF u
    <3> QED BY <1>5, <1>11, <2>1, <3>1, Seats, NoMoreTaken
  <2> QED BY <2>3, <2>4
<1>16. Sound([View(s) EXCEPT ![i] = row]) BY <1>15 DEF Sound, t
<1> QED BY <1>1, <1>2, <1>3, <1>16, WritesSold DEF row

(* Every step keeps the three kinds of table sound. *)
LEMMA SoldStep ==
  Typing /\ Locking /\ Faithful /\ Faithful' /\ Timed /\ Timed' /\ Bounded /\ Sold /\ [Next]_vars
    => Sold'
<1> SUFFICES ASSUME Typing, Locking, Faithful, Faithful', Timed, Timed', Bounded, Sold,
                    [Next]_vars
             PROVE  Sold'
  OBVIOUS
<1>1. CASE Elsewhere
  BY <1>1 DEF Elsewhere, Sold, Sound, Moving, Sought, Supported, View, Written
<1>2. ASSUME NEW s \in Sessions, EndsTx(s) PROVE Sold' BY <1>2, EndsSold
<1>3. ASSUME NEW s \in Sessions, UNCHANGED <<rows, writes>>, OthersStill(s),
             held[s] \subseteq held'[s],
             Moving(s)' => /\ cand'[s] \in held'[s]
                           /\ NotOversold(Sought(s), cand[s], MostSeats(cand[s]))'
      PROVE  Sold'
  <2>1. ASSUME NEW t \in Sessions, t # s
        PROVE  /\ held'[t] = held[t] /\ (Moving(t)' <=> Moving(t)) /\ cand'[t] = cand[t]
               /\ Sought(t)' = Sought(t)
    BY <1>3, <2>1 DEF OthersStill, Moving, Sought, View, Written
  <2>2. \A t \in Sessions : View(t)' = View(t) BY <1>3 DEF View, Written
  <2>3. ASSUME NEW t \in Sessions
        PROVE  /\ Sound(View(t))'
               /\ \A i \in Ids : Written(t, i)' => Supported(t, i)'
               /\ Moving(t)' => /\ cand'[t] \in held'[t]
                                /\ NotOversold(Sought(t), cand[t], MostSeats(cand[t]))'
    <3>1. held[t] \subseteq held'[t] BY <1>3, <2>1
    <3>2. Sound(View(t))' BY <2>2 DEF Sold, Sound
    <3>3. \A i \in Ids : Written(t, i)' => Supported(t, i)'
      BY <1>3, <3>1 DEF Sold, Supported, Written
    <3>4. Moving(t)' => /\ cand'[t] \in held'[t]
                        /\ NotOversold(Sought(t), cand[t], MostSeats(cand[t]))'
      <4>1. CASE t = s BY <1>3, <4>1
      <4>2. CASE t # s BY <2>1, <4>2 DEF Sold
      <4> QED BY <4>1, <4>2
    <3> QED BY <3>2, <3>3, <3>4
  <2>4. Sound(rows)' BY <1>3 DEF Sold, Sound
  <2> QED BY <2>3, <2>4 DEF Sold
<1>4. ASSUME NEW s \in Sessions, Begins(s) \/ GoesOn(s) PROVE Sold'
  <2>1. ~Moving(s)' BY <1>4 DEF Begins, GoesOn, Moving
  <2> QED BY <1>3, <1>4, <2>1 DEF Begins, GoesOn
<1>5. ASSUME NEW s \in Sessions, LockCustomer(s) PROVE Sold'
  <2>1. ~Moving(s)' BY <1>5, LockCustomerTakes DEF Moving
  <2> QED BY <1>3, <1>5, <2>1, LockCustomerTakes DEF Typing, TypeOK
<1>6. ASSUME NEW s \in Sessions, LockTarget(s) PROVE Sold'
  <2>1. /\ OthersStill(s) /\ UNCHANGED <<rows, req, cand, writes>>
        /\ held[s] \subseteq held'[s] /\ cand'[s] \in held'[s]
    BY <1>6, LockTargetTakes DEF Typing, TypeOK
  <2>2. Moving(s)' => req[s].to \in Occupying BY <2>1 DEF Moving
  <2>3. Moving(s)' => NotOversold(Sought(s), cand[s], MostSeats(cand[s]))'
    BY <1>6, <2>2, LockTargetSold
  <2> QED BY <1>3, <2>1, <2>3
<1>7. ASSUME NEW s \in Sessions, CancelOld(s) PROVE Sold'
  <2> DEFINE i == req[s].id
             old == rows[i]
             row == [old EXCEPT !.status = "CANCELED_BY_USER", !.canceledAt = req[s].at]
             u == [View(s) EXCEPT ![i] = row]
  <2>1. /\ i \in Ids /\ old \in Row /\ held' = held /\ pc'[s] = "limits"
        /\ \E e : Writes(s, i, row, e)
    BY <1>7, CancelOldWrites
  <2>2. row \in Row /\ row.status \notin Occupying /\ row.lo < row.hi
    <3>1. row \in Row BY <2>1 DEF Writes
    <3>2. row.status = "CANCELED_BY_USER" /\ row.lo = old.lo /\ row.hi = old.hi BY <2>1 DEF Row
    <3>3. old.lo < old.hi BY <2>1, RealRow DEF Timed, Table
    <3> HIDE DEF row
    <3> QED BY <3>1, <3>2, <3>3 DEF Occupying
  <2> HIDE DEF row, i
  <2>3. View(s) \in Table BY ViewTimed
  <2>4. u[i] = row /\ (\A j \in Ids \ {i} : u[j] = View(s)[j]) /\ u \in Table
    BY <2>1, <2>2, <2>3 DEF Table
  <2>5. ASSUME NEW p \in Resources PROVE NotOversold(u, p, MostSeats(p))
    <3>1. \A j \in Ids : u[j].status \in Occupying /\ u[j].rsrc = p => SameRoom(View(s)[j], u[j])
      BY <2>2, <2>4 DEF SameRoom
    <3>2. NotOversold(View(s), p, MostSeats(p)) BY DEF Sold, Sound
    <3> HIDE DEF u
    <3> QED BY <2>3, <2>4, <3>1, <3>2, Seats, NoMoreTaken
  <2>6. Sound([View(s) EXCEPT ![i] = row]) BY <2>5 DEF Sound
  <2> QED BY <2>1, <2>2, <2>6, WritesSold
<1>8. ASSUME NEW s \in Sessions, InsertRow(s) PROVE Sold' BY <1>8, InsertSold
<1>9. ASSUME NEW s \in Sessions, Update(s) PROVE Sold'
  <2> DEFINE q == req[s]
             i == q.id
             old == rows[i]
             row == Transitioned(old, q.to, q.at, q.actor)
             u == [View(s) EXCEPT ![i] = row]
  <2>1. /\ pc[s] = "update" /\ pc'[s] # "relocate" /\ held' = held /\ i \in Ids
        /\ Allowed(q.seen.status, q.to) /\ old \in Row /\ old.status = q.seen.status
        /\ \E e : Writes(s, i, row, e)
    BY <1>9, UpdateWrites
  <2>2. Kept(old, row) /\ row.status = q.to /\ row.rsrc = old.rsrc
    BY <2>1, TransitionedKeeps
  <2>3. q.to \in Occupying => old.status \in Occupying
    BY <2>1 DEF Allowed, RULES, Rule, Occupying
  <2>4. ~Written(s, i)
    BY <2>1, NothingWritten DEF Locking, LocksByStep, Clean
  <2>5. View(s)[i] = old /\ View(s) \in Table BY <2>1, <2>4, ViewTimed DEF View
  <2>6. row \in Row BY <2>1 DEF Writes
  <2>7. old.lo < old.hi BY <2>1, RealRow DEF Timed, Table
  <2> HIDE DEF row, old, i
  <2>8. row.status \in Occupying => SameRoom(old, row) BY <2>2, <2>3 DEF SameRoom, Kept
  <2>9. u[i] = row /\ (\A j \in Ids \ {i} : u[j] = View(s)[j]) /\ u \in Table
    BY <2>1, <2>2, <2>5, <2>6, <2>7 DEF Table, Kept
  <2>10. ASSUME NEW p \in Resources PROVE NotOversold(u, p, MostSeats(p))
    <3>1. \A j \in Ids : u[j].status \in Occupying /\ u[j].rsrc = p => SameRoom(View(s)[j], u[j])
      BY <2>5, <2>8, <2>9 DEF SameRoom
    <3>2. NotOversold(View(s), p, MostSeats(p)) BY DEF Sold, Sound
    <3> HIDE DEF u
    <3> QED BY <2>5, <2>9, <3>1, <3>2, Seats, NoMoreTaken
  <2>11. Sound([View(s) EXCEPT ![i] = row]) BY <2>10 DEF Sound
  <2>12. row.status \in Occupying => SameRoom(rows[i], row) BY <2>8 DEF old
  <2> QED BY <2>1, <2>11, <2>12, WritesSold
<1>10. ASSUME NEW s \in Sessions, Relocate(s) PROVE Sold'
  <2> DEFINE q == req[s]
             i == q.id
             row == Relocated(s)
             t == View(s)
             u == [View(s) EXCEPT ![i] = row]
  <2>1. /\ pc[s] = "relocate" /\ pc'[s] = "commit" /\ held' = held /\ i \in Ids
        /\ t[i] \in Row /\ t[i].status = q.to /\ cand[s] \in Resources
        /\ \E e : Writes(s, i, row, e)
    BY <1>10, RelocateWrites
  <2>2. /\ row.status = q.to /\ row.rsrc = cand[s]
        /\ row.lo = t[i].lo /\ row.hi = t[i].hi /\ row.party = t[i].party /\ row \in Row
    BY <2>1 DEF Relocated, Row, Writes
  <2>3. t[i].lo = q.seen.lo /\ t[i].hi = q.seen.hi /\ t[i].party = q.seen.party
    BY <2>1, MovedTakes
  <2>4. t \in Table /\ t[i].lo < t[i].hi BY <2>1, RealRow, ViewTimed DEF Table
  <2> HIDE DEF row, t, i
  <2>5. u[i] = row /\ (\A j \in Ids \ {i} : u[j] = t[j]) /\ u \in Table
    BY <2>1, <2>2, <2>4 DEF Table, t
  <2>6. row.status \in Occupying => Moving(s) /\ row.rsrc \in held'[s]
    BY <2>1, <2>2 DEF Moving, Sold
  <2>7. ASSUME NEW p \in Resources PROVE NotOversold(u, p, MostSeats(p))
    <3>1. CASE row.status \in Occupying /\ p = cand[s]
      <4>1. Moving(s) BY <2>6, <3>1
      <4>2. NotOversold(Sought(s), p, MostSeats(p)) BY <3>1, <4>1 DEF Sold
      <4>3. /\ Sought(s) \in Table /\ Sought(s)[i].status = q.to /\ Sought(s)[i].rsrc = cand[s]
            /\ Sought(s)[i].lo = q.seen.lo /\ Sought(s)[i].hi = q.seen.hi
            /\ Sought(s)[i].party = q.seen.party
            /\ \A j \in Ids \ {i} : Sought(s)[j] = t[j]
        BY <4>1, SoughtTimed DEF i, t
      <4>4. \A j \in Ids : u[j].status \in Occupying /\ u[j].rsrc = p => SameRoom(Sought(s)[j], u[j])
        BY <2>2, <2>3, <2>5, <4>3 DEF SameRoom
      <4> HIDE DEF u
      <4> QED BY <2>5, <4>2, <4>3, <4>4, Seats, NoMoreTaken
    <3>2. CASE ~(row.status \in Occupying /\ p = cand[s])
      <4>1. \A j \in Ids : u[j].status \in Occupying /\ u[j].rsrc = p => SameRoom(t[j], u[j])
        BY <2>2, <2>5, <3>2 DEF SameRoom
      <4>2. NotOversold(t, p, MostSeats(p)) BY DEF Sold, Sound, t
      <4> HIDE DEF u
      <4> QED BY <2>4, <2>5, <4>1, <4>2, Seats, NoMoreTaken
    <3> QED BY <3>1, <3>2
  <2>8. Sound([View(s) EXCEPT ![i] = row]) BY <2>7 DEF Sound
  <2> QED BY <2>1, <2>6, <2>8, WritesSold
<1> QED BY <1>1, <1>2, <1>4, <1>5, <1>6, <1>7, <1>8, <1>9, <1>10, StepKinds DEF Kind

(* An empty table is. *)
LEMMA InitSold == Init => Timed /\ Bounded /\ Sold
<1> SUFFICES ASSUME Init PROVE Timed /\ Bounded /\ Sold OBVIOUS
<1>1. /\ rows = NoWrites /\ \A s \in Sessions : writes[s] = NoWrites /\ pc[s] = "idle"
  BY DEF Init
<1>2. NoWrites \in Table BY NoRowIsNone DEF NoWrites, Table
<1>3. Timed BY <1>1, <1>2 DEF Timed
<1>4. Bounded BY InitWithin DEF Init, Bounded, NoReq
<1>5. \A s \in Sessions, i \in Ids : ~Written(s, i) BY <1>1, NothingWritten
<1>6. \A s \in Sessions : View(s) = NoWrites BY <1>1, <1>5 DEF View, NoWrites
<1>7. \A r : OccupyingOn(NoWrites, r) = {}
  BY DEF OccupyingOn, NoWrites, NoRow, Occupying
<1>8. Sound(NoWrites) BY <1>7 DEF Sound, NotOversold
<1> QED BY <1>1, <1>3, <1>4, <1>5, <1>6, <1>8 DEF Sold, Moving

(* NoOverbooking: whatever the number of handlers that place, change, decide  *)
(* and move at once, and whatever capacities the owner stores meanwhile, no   *)
(* instant of a resource is sold beyond the largest capacity it is ever given *)
(* (create.ts, the recount under the resource lock; transitions.ts, the check *)
(* before a move).                                                            *)
THEOREM NeverOverbooked == Spec => []NoOverbooking
<1>1. Sold => NoOverbooking BY DEF Sold, Sound, NoOverbooking
<1> QED BY <1>1, InitSold, BoundedStep, TimedStep, SoldStep, TypingInvariant, LocksHeldOnce,
           TransactionsFaithful, PTL DEF Spec

-----------------------------------------------------------------------------
(* Handlers that place. *)

(* The clock only goes forward. *)
LEMMA ClockForward == Typing /\ [Next]_vars => now \in Nat /\ now' \in Nat /\ now <= now'
<1> SUFFICES ASSUME Typing, [Next]_vars PROVE now \in Nat /\ now' \in Nat /\ now <= now'
  OBVIOUS
<1>1. now \in Nat BY ClockAssumption DEF Typing, TypeOK
<1>2. now' = now \/ now' = now + 1
  <2>1. ASSUME NEW s \in Sessions, Statement(s) \/ Crash(s) PROVE now' = now
    BY <2>1, Zenon
       DEF Statement, LockCustomer, CancelOld, OldGone, LimitsPass, LimitsRefuse, InsertRow,
           SlotTaken, ProductDeleted, Validate, ValidateRefuse, Update, UpdateMisses, ReadTarget,
           TargetRefuse, LockTarget, TargetTaken, Relocate, RelocateMisses, Commit, DeadlockRetry,
           DeadlockFail, Crash
  <2>2. ASSUME NEW s \in Sessions, NEW i, NEW to, NEW a, NEW at, StartTransition(s, i, to, a, at)
        PROVE  now' = now
    BY <2>2 DEF StartTransition
  <2>3. ASSUME NEW s \in Sessions, NEW q, NEW offered, StartPlacing(s, q, offered)
        PROVE  now' = now
    BY <2>3 DEF StartPlacing
  <2>4. ASSUME NEW s \in Workers, Arrive(s) PROVE now' = now
    <3>1. s \in Sessions BY DEF Sessions
    <3>2. CASE Place(s)
      BY <2>3, <3>1, <3>2, ZenonT(30) DEF Place, RequestPlace, RequestWalkIn, RequestChange
    <3>3. CASE RequestTransition(s) BY <2>2, <3>1, <3>3 DEF RequestTransition
    <3>4. CASE RequestReassign(s) BY <3>4 DEF RequestReassign
    <3> QED BY <2>4, <3>2, <3>3, <3>4 DEF Arrive
  <2>5. ASSUME NEW s \in Crons, ExpireRequests(s) \/ AutoNoShow(s) \/ Sweep(s) PROVE now' = now
    BY <2>2, <2>5 DEF ExpireRequests, AutoNoShow, StartBatch, Sweep, BatchStep, BatchSkip,
                      BatchThrows, Sessions
  <2>6. CASE OwnerEdits BY <2>6 DEF OwnerEdits
  <2>7. CASE Tick BY <2>7 DEF Tick
  <2>8. CASE UNCHANGED vars BY <2>8 DEF vars
  <2> QED BY <2>1, <2>4, <2>5, <2>6, <2>7, <2>8 DEF Next, Rest
<1> QED BY <1>1, <1>2

(* A request to place, as the entry points of create.ts open it. *)
Opened(s) ==
  LET q == req'[s]
  IN  /\ pc'[s] = "cust" /\ q.at = now
      /\ q.kind # "CHANGE" => q.id = None
      /\ q.kind = "CHANGE" => /\ q.id \in Ids /\ rows[q.id].status # "NONE"
                              /\ rows[q.id].cust = q.actor.who /\ rows[q.id].prod = q.prod

(* Each way of placing opens a request like that. *)
LEMMA PlaceOpens == ASSUME Typing, NEW s \in Sessions, Place(s) PROVE Opened(s)
<1>1. ASSUME NEW q, NEW offered, StartPlacing(s, q, offered)
      PROVE  pc'[s] = "cust" /\ req'[s] = q
  BY <1>1 DEF StartPlacing, Typing, TypeOK
<1>2. \A kind, a, p, st, n :
        LET q == Order(kind, a, p, st, n)
        IN  q.kind = kind /\ q.at = now /\ q.actor = a /\ q.prod = p /\ q.id = None
  BY DEF Order, NoReq
<1>3. CASE RequestPlace(s)
  <2>1. PICK c, p, st, n, offered :
          StartPlacing(s, Order("PLACE", Customer(c), p, st, n), offered)
    BY <1>3, ZenonT(30) DEF RequestPlace
  <2> QED BY <1>1, <1>2, <2>1 DEF Opened
<1>4. CASE RequestWalkIn(s)
  <2>1. PICK p, st, n, offered : StartPlacing(s, Order("WALKIN", Owner, p, st, n), offered)
    BY <1>4, ZenonT(30) DEF RequestWalkIn
  <2> QED BY <1>1, <1>2, <2>1 DEF Opened
<1>5. CASE RequestChange(s)
  <2> DEFINE q(i, st, n) ==
        [Order("CHANGE", Customer(rows[i].cust), rows[i].prod, st, n) EXCEPT
           !.id = i, !.seen = rows[i],
           !.force = ~BeforeCancelDeadline(rows[i], now, Policy.cancelDeadline)]
  <2>1. PICK i, st, n, offered :
          /\ i \in Ids /\ rows[i].status \in Occupying
          /\ StartPlacing(s, q(i, st, n), offered)
    BY <1>5, ZenonT(30) DEF RequestChange
  <2>2. /\ q(i, st, n).kind = "CHANGE" /\ q(i, st, n).at = now /\ q(i, st, n).id = i
        /\ q(i, st, n).actor.who = rows[i].cust /\ q(i, st, n).prod = rows[i].prod
    BY DEF Order, NoReq, Customer
  <2> HIDE DEF q
  <2> QED BY <1>1, <2>1, <2>2 DEF Opened, Occupying
<1> QED BY <1>3, <1>4, <1>5 DEF Place

(* From then on the request stays as it is. *)
LEMMA RequestsStay ==
  ASSUME Typing, [Next]_vars, NEW s \in Sessions, Placing(s)' PROVE Place(s) \/ req'[s] = req[s]
<1>1. req \in [Sessions -> Request] BY DEF Typing, TypeOK
<1>2. NoReq.kind \notin {"PLACE", "CHANGE", "WALKIN"} BY DEF NoReq
<1>3. ASSUME NEW t \in Sessions, req' = [req EXCEPT ![t] = NoReq] \/ req' = req
      PROVE  req'[s] = req[s]
  BY <1>1, <1>2, <1>3 DEF Placing
<1>4. ASSUME NEW t \in Sessions, Statement(t) PROVE req'[s] = req[s]
  <2>1. CASE ReadTarget(t)
    <3>1. req' = [req EXCEPT ![t] = [req[t] EXCEPT !.caps = capacity]] BY <2>1 DEF ReadTarget
    <3>2. req[t].kind \in {"TRANSITION", "REASSIGN"}
      BY <2>1 DEF ReadTarget, Typing, Knows, DecidingKnows
    <3>3. [req[t] EXCEPT !.caps = capacity].kind = req[t].kind BY <1>1 DEF Request
    <3> QED BY <1>1, <3>1, <3>2, <3>3 DEF Placing
  <2>2. CASE LockCustomer(t) \/ CancelOld(t) \/ LimitsPass(t) \/ InsertRow(t) \/ Validate(t)
             \/ LockTarget(t) \/ Relocate(t)
    BY <1>3, <2>2, Zenon DEF LockCustomer, CancelOld, LimitsPass, InsertRow, Validate, LockTarget,
                             Relocate, Goto
  <2>3. CASE Update(t)
    <3>1. req' = req BY <2>3 DEF Update, Goto
    <3> QED BY <3>1
  <2>4. CASE OldGone(t) \/ LimitsRefuse(t) \/ ProductDeleted(t) \/ ValidateRefuse(t)
             \/ UpdateMisses(t) \/ TargetRefuse(t) \/ TargetTaken(t) \/ RelocateMisses(t)
             \/ Commit(t) \/ DeadlockFail(t)
    <3>1. Leave(t)
      BY <2>4, Zenon DEF OldGone, LimitsRefuse, ProductDeleted, ValidateRefuse, UpdateMisses,
                         TargetRefuse, TargetTaken, RelocateMisses, Commit, DeadlockFail, Rollback
    <3> QED BY <1>3, <3>1 DEF Leave
  <2>5. CASE SlotTaken(t)
    <3>1. Leave(t) \/ req' = req BY <2>5 DEF SlotTaken
    <3> QED BY <1>3, <3>1 DEF Leave
  <2>6. CASE DeadlockRetry(t)
    <3>1. req' = req BY <2>6 DEF DeadlockRetry
    <3> QED BY <3>1
  <2> QED BY <1>4, <2>1, <2>2, <2>3, <2>4, <2>5, <2>6 DEF Statement
<1>5. ASSUME NEW t \in Sessions, Crash(t) PROVE req'[s] = req[s]
  <2>1. Leave(t) BY <1>5 DEF Crash, Rollback
  <2> QED BY <1>3, <2>1 DEF Leave
<1>6. ASSUME NEW t \in Sessions, NEW i, NEW to, NEW a, NEW at, StartTransition(t, i, to, a, at)
      PROVE  req'[s] = req[s]
  <2> DEFINE q == [NoReq EXCEPT !.kind = "TRANSITION", !.at = at, !.actor = a, !.to = to,
                                !.id = i, !.seen = rows[i], !.caps = capacity]
  <2>1. req' = [req EXCEPT ![t] = q] BY <1>6 DEF StartTransition
  <2>2. q.kind = "TRANSITION" BY DEF NoReq
  <2> HIDE DEF q
  <2> QED BY <1>1, <2>1, <2>2 DEF Placing
<1>7. ASSUME NEW t \in Workers, Arrive(t) PROVE Place(s) \/ req'[s] = req[s]
  <2>1. t \in Sessions BY DEF Sessions
  <2>2. CASE Place(t)
    <3>1. \A u \in Sessions \ {t} : req'[u] = req[u]
      BY <2>1, <2>2, PlaceBegins DEF Begins, OthersStill
    <3> QED BY <2>2, <3>1
  <2>3. CASE RequestTransition(t) BY <1>6, <2>1, <2>3 DEF RequestTransition
  <2>4. CASE RequestReassign(t)
    <3> DEFINE q(i) == [NoReq EXCEPT !.kind = "REASSIGN", !.at = now, !.actor = Owner,
                                     !.to = rows[i].status, !.id = i, !.seen = rows[i]]
    <3>1. PICK i \in Ids : req' = [req EXCEPT ![t] = q(i)]
      BY <2>4, ZenonT(30) DEF RequestReassign
    <3>2. q(i).kind = "REASSIGN" BY DEF NoReq
    <3> HIDE DEF q
    <3> QED BY <1>1, <2>1, <3>1, <3>2 DEF Placing
  <2> QED BY <1>7, <2>2, <2>3, <2>4 DEF Arrive
<1>8. ASSUME NEW t \in Crons, ExpireRequests(t) \/ AutoNoShow(t) \/ Sweep(t)
      PROVE  req'[s] = req[s]
  <2>1. CASE BatchStep(t) BY <1>6, <2>1 DEF BatchStep, Sessions
  <2>2. CASE ExpireRequests(t) \/ AutoNoShow(t) \/ BatchSkip(t) \/ BatchThrows(t)
    <3>1. req' = req
      BY <2>2 DEF ExpireRequests, AutoNoShow, StartBatch, BatchSkip, BatchThrows
    <3> QED BY <3>1
  <2> QED BY <1>8, <2>1, <2>2 DEF Sweep
<1>9. CASE OwnerEdits \/ Tick \/ UNCHANGED vars
  <2>1. req' = req BY <1>9 DEF OwnerEdits, Tick, vars
  <2> QED BY <2>1
<1> QED BY <1>4, <1>5, <1>7, <1>8, <1>9 DEF Next, Rest

(* The limits have been looked at when a handler leaves that statement. *)
LEMMA LimitsAsked ==
  ASSUME Typing, [Next]_vars, NEW s \in Sessions, pc[s] = "limits", pc'[s] = "slot"
  PROVE  WithinLimits(s)
<1>1. pc \in [Sessions -> Statements] BY DEF Typing, TypeOK
<1>2. ASSUME NEW t \in Sessions, NEW next, pc' = [pc EXCEPT ![t] = next] \/ pc' = pc,
             t # s \/ next # "slot"
      PROVE  FALSE
  BY <1>1, <1>2
<1>3. ASSUME NEW t \in Sessions, Statement(t) PROVE WithinLimits(s)
  <2>1. CASE LimitsPass(t)
    <3>1. WithinLimits(t) /\ pc' = [pc EXCEPT ![t] = "slot"] BY <2>1 DEF LimitsPass, Goto
    <3> QED BY <1>2, <3>1
  <2>2. CASE LockCustomer(t)
    <3>1. pc[t] = "cust" /\ \E next : pc' = [pc EXCEPT ![t] = next]
      BY <2>2, Zenon DEF LockCustomer, Goto
    <3> QED BY <1>2, <3>1
  <2>3. CASE CancelOld(t) \/ InsertRow(t) \/ Validate(t) \/ ReadTarget(t) \/ LockTarget(t)
             \/ Relocate(t) \/ DeadlockRetry(t)
    <3>1. PICK next \in {"limits", "commit", "update", "move", "relocate", "cust"} :
            pc' = [pc EXCEPT ![t] = next]
      BY <2>3, Zenon DEF CancelOld, InsertRow, Validate, ReadTarget, LockTarget, Relocate,
                         DeadlockRetry, Goto
    <3> QED BY <1>2, <3>1
  <2>4. CASE Update(t)
    <3>1. PICK next \in {"commit", "target"} : pc' = [pc EXCEPT ![t] = next]
      BY <2>4 DEF Update, Goto
    <3> QED BY <1>2, <3>1
  <2>5. CASE OldGone(t) \/ LimitsRefuse(t) \/ ProductDeleted(t) \/ ValidateRefuse(t)
             \/ UpdateMisses(t) \/ TargetRefuse(t) \/ TargetTaken(t) \/ RelocateMisses(t)
             \/ Commit(t) \/ DeadlockFail(t)
    <3>1. Leave(t)
      BY <2>5, Zenon DEF OldGone, LimitsRefuse, ProductDeleted, ValidateRefuse, UpdateMisses,
                         TargetRefuse, TargetTaken, RelocateMisses, Commit, DeadlockFail, Rollback
    <3> QED BY <1>2, <3>1 DEF Leave
  <2>6. CASE SlotTaken(t)
    <3>1. PICK next \in {"idle", "cust"} : pc' = [pc EXCEPT ![t] = next]
      BY <2>6 DEF SlotTaken, Leave
    <3> QED BY <1>2, <3>1
  <2> QED BY <1>3, <2>1, <2>2, <2>3, <2>4, <2>5, <2>6 DEF Statement
<1>4. ASSUME NEW t \in Sessions, Begins(t) \/ EndsTx(t) PROVE FALSE
  BY <1>4 DEF Begins, EndsTx, OthersStill
<1>5. ASSUME NEW t \in Sessions, Crash(t) PROVE FALSE
  <2>1. Leave(t) BY <1>5 DEF Crash, Rollback
  <2> QED BY <1>2, <2>1 DEF Leave
<1>6. ASSUME NEW t \in Workers, Arrive(t) PROVE FALSE
  <2>1. t \in Sessions BY DEF Sessions
  <2> QED BY <1>4, <1>6, <2>1, PlaceBegins, TransitionBegins, ReassignBegins
          DEF Arrive, RequestTransition
<1>7. ASSUME NEW t \in Crons, ExpireRequests(t) \/ AutoNoShow(t) \/ Sweep(t) PROVE FALSE
  <2>1. t \in Sessions /\ batch[t].ids \subseteq Ids BY DEF Sessions, Typing, TypeOK
  <2>2. CASE BatchStep(t) BY <1>4, <2>1, <2>2, TransitionBegins DEF BatchStep
  <2>3. CASE ExpireRequests(t) \/ AutoNoShow(t) \/ BatchSkip(t) \/ BatchThrows(t)
    <3>1. pc' = pc BY <2>3 DEF ExpireRequests, AutoNoShow, StartBatch, BatchSkip, BatchThrows
    <3> QED BY <3>1
  <2> QED BY <1>7, <2>2, <2>3 DEF Sweep
<1>8. CASE OwnerEdits \/ Tick \/ UNCHANGED vars
  <2>1. pc' = pc BY <1>8 DEF OwnerEdits, Tick, vars
  <2> QED BY <2>1
<1> QED BY <1>3, <1>5, <1>6, <1>7, <1>8 DEF Next, Rest

(* The customer lock is taken for a change before its old row is looked at, *)
(* for a request before the limits are, and for the counter before the slot. *)
LEMMA LockCustomerGoes ==
  ASSUME Typing, NEW s \in Sessions, LockCustomer(s)
  PROVE  /\ pc'[s] = "old" => req[s].kind = "CHANGE"
         /\ pc'[s] = "limits" => req[s].kind = "PLACE"
         /\ pc'[s] = "slot" => req[s].kind = "WALKIN"
         /\ Account(s) \in held'[s]
<1>1. Placing(s) BY DEF LockCustomer, Typing, Knows
<1> QED BY <1>1 DEF LockCustomer, Goto, Hold, Placing, Typing, TypeOK

-----------------------------------------------------------------------------
(* Orders. *)

(* A pending row that is not in the table yet. *)
New(s, i) == Written(s, i) /\ rows[i].status = "NONE"

(* A handler that replaces a reservation has it as it was and, from the      *)
(* limits on, canceled under its lock; the customer's lock covers all that.  *)
Ordering(s) ==
  LET o == req[s].id
  IN  Placing(s) =>
        /\ req[s].at <= now
        /\ req[s].kind # "CHANGE" => o = None
        /\ req[s].kind = "CHANGE" => /\ rows[o].status # "NONE"
                                     /\ rows[o].cust = Account(s) /\ rows[o].prod = req[s].prod
        /\ pc[s] \notin {"idle", "cust"} => Account(s) \in held[s]
        /\ pc[s] \in {"limits", "slot", "commit"} /\ req[s].kind = "CHANGE" =>
             /\ Written(s, o) /\ rows[o].status \in Occupying
             /\ writes[s][o].status = "CANCELED_BY_USER"

(* It has at most one new row, the last thing it writes. *)
Pending(s) ==
  \A i \in Ids : New(s, i) =>
    /\ pc[s] = "commit" /\ Placing(s)
    /\ writes[s][i].cust = Account(s) /\ writes[s][i].prod = req[s].prod
    /\ writes[s][i].replaces = req[s].id
    /\ \A j \in Ids : New(s, j) => j = i

Ordered == \A s \in Sessions : Ordering(s) /\ Pending(s)

(* What is stored stays stored, for the same customer and product. *)
LEMMA StoredStays ==
  ASSUME Typing, Faithful, NEW s \in Sessions, EndsTx(s), NEW i \in Ids, rows[i].status # "NONE"
  PROVE  /\ rows'[i].status # "NONE" /\ Kept(rows[i], rows'[i])
         /\ Follows(rows[i].status, rows'[i].status)
<1>1. rows[i] \in Row BY DEF Typing, TypeOK, NoRow
<1>2. CASE rows'[i] = rows[i] BY <1>1, <1>2, KeptSelf DEF Follows
<1>3. CASE rows'[i] # rows[i]
  <2>1. Written(s, i) /\ rows'[i] = writes[s][i] BY <1>3 DEF EndsTx, View
  <2> QED BY <2>1 DEF Faithful, Recorded, Written
<1> QED BY <1>2, <1>3

(* Each step keeps the order. *)
LEMMA OrderedStep ==
  Typing /\ Locking /\ Faithful /\ Ordered /\ [Next]_vars => Ordered'
<1> SUFFICES ASSUME Typing, Locking, Faithful, Ordered, [Next]_vars PROVE Ordered' OBVIOUS
<1>1. now \in Nat /\ now' \in Nat /\ now <= now' BY ClockForward
<1>2. ASSUME NEW t \in Sessions, Placing(t)', req'[t] = req[t]
      PROVE  /\ Placing(t) /\ Account(t)' = Account(t) /\ req[t].at \in Nat
             /\ req[t].at <= now' /\ (req[t].kind # "CHANGE" => req[t].id = None)
             /\ req[t].kind = "CHANGE" =>
                  /\ req[t].id \in Ids /\ rows[req[t].id].status # "NONE"
                  /\ rows[req[t].id].cust = Account(t)
                  /\ rows[req[t].id].prod = req[t].prod
  <2>1. Placing(t) /\ Account(t)' = Account(t) BY <1>2 DEF Placing, Account
  <2>2. req[t].at \in Nat BY RequestTime DEF Typing
  <2>3. Ordering(t) BY DEF Ordered
  <2>4. req[t].at <= now BY <2>1, <2>3 DEF Ordering
  <2>5. req[t].at <= now' BY <1>1, <2>2, <2>4
  <2>6. req[t].kind = "CHANGE" => req[t].id \in Ids BY <2>1 DEF Typing, Knows, PlacingKnows
  <2> QED BY <2>1, <2>2, <2>3, <2>5, <2>6 DEF Ordering
(* A session whose step it is not, while rows stay or others commit. *)
<1>3. ASSUME NEW t \in Sessions, req'[t] = req[t], pc'[t] = pc[t], held'[t] = held[t],
             writes'[t] = writes[t],
             \A i \in Ids : rows[i].status # "NONE" =>
               rows'[i].status # "NONE" /\ Kept(rows[i], rows'[i]),
             \A i \in Ids : Written(t, i) => rows'[i] = rows[i]
      PROVE  Ordering(t)' /\ Pending(t)'
  <2>1. Ordering(t)'
    <3> SUFFICES ASSUME Placing(t)' PROVE Ordering(t)' BY DEF Ordering
    <3>1. Ordering(t) BY DEF Ordered
    <3>2. req[t].kind = "CHANGE" =>
            /\ rows'[req[t].id].status # "NONE" /\ rows'[req[t].id].cust = Account(t)
            /\ rows'[req[t].id].prod = req[t].prod
      BY <1>2, <1>3 DEF Kept
    <3>3. pc[t] \in {"limits", "slot", "commit"} /\ req[t].kind = "CHANGE" =>
            /\ Written(t, req[t].id)' /\ rows'[req[t].id].status \in Occupying
            /\ writes'[t][req[t].id].status = "CANCELED_BY_USER"
      BY <1>2, <1>3, <3>1 DEF Ordering, Written
    <3> QED BY <1>2, <1>3, <3>1, <3>2, <3>3 DEF Ordering
  <2>2. Pending(t)'
    <3>1. \A i \in Ids : New(t, i)' => New(t, i) BY <1>3 DEF New, Written
    <3>2. Account(t)' = Account(t) /\ (Placing(t)' <=> Placing(t)) BY <1>3 DEF Account, Placing
    <3> QED BY <1>3, <3>1, <3>2 DEF Ordered, Pending
  <2> QED BY <2>1, <2>2
<1>4. CASE Elsewhere
  <2>1. \A i \in Ids : rows[i].status # "NONE" =>
          rows'[i].status # "NONE" /\ Kept(rows[i], rows'[i])
    BY <1>4 DEF Elsewhere, Kept
  <2> QED BY <1>3, <1>4, <2>1 DEF Elsewhere, Ordered
<1>5. ASSUME NEW s \in Sessions, OthersStill(s), rows' = rows, Ordering(s)' /\ Pending(s)'
      PROVE  Ordered'
  <2>1. \A i \in Ids : rows[i].status # "NONE" =>
          rows'[i].status # "NONE" /\ Kept(rows[i], rows'[i])
    BY <1>5 DEF Kept
  <2>2. ASSUME NEW t \in Sessions, t # s PROVE Ordering(t)' /\ Pending(t)'
    BY <1>3, <1>5, <2>1, <2>2 DEF OthersStill
  <2> QED BY <1>5, <2>2 DEF Ordered
<1>6. ASSUME NEW s \in Sessions, \A i \in Ids : ~New(s, i)' PROVE Pending(s)'
  BY <1>6 DEF Pending
<1>7. ASSUME NEW s \in Sessions, Begins(s) PROVE Ordered'
  <2>1. \A i \in Ids : ~New(s, i)'
    BY <1>7, NothingWritten DEF Begins, Locking, LocksByStep, Clean, New, Written
  <2>2. Ordering(s)'
    <3> SUFFICES ASSUME Placing(s)' PROVE Ordering(s)' BY DEF Ordering
    <3>1. CASE Place(s)
      <4>1. Opened(s) /\ rows' = rows /\ pc'[s] = "cust" BY <1>7, <3>1, PlaceOpens DEF Begins, Opened
      <4>2. req'[s].at <= now' BY <1>1, <4>1 DEF Opened
      <4>3. req'[s].kind = "CHANGE" => req'[s].actor.who = Account(s)' BY DEF Account
      <4> QED BY <4>1, <4>2, <4>3 DEF Opened, Ordering
    <3>2. CASE req'[s] = req[s]
      <4>1. pc'[s] = "cust"
        <5>1. Placing(s) BY <3>2 DEF Placing
        <5>2. Knows(s)'
          BY NextTyping DEF Typing
        <5>3. pc'[s] \notin Deciding
          BY <5>2 DEF Knows, DecidingKnows, Placing, Deciding
        <5> QED BY <1>7, <5>3 DEF Begins, Deciding
      <4> QED BY <1>2, <1>7, <3>2, <4>1 DEF Begins, Ordering
    <3> QED BY <3>1, <3>2, RequestsStay
  <2> QED BY <1>5, <1>6, <1>7, <2>1, <2>2 DEF Begins
(* A step of a handler that goes on to a statement it has a right to. *)
<1>8. ASSUME NEW s \in Sessions, OthersStill(s), rows' = rows,
             Placing(s)' => /\ req'[s] = req[s]
                            /\ pc'[s] \notin {"idle", "cust"} => Account(s) \in held'[s]
                            /\ pc'[s] \in {"limits", "slot", "commit"} /\ req[s].kind = "CHANGE" =>
                                 /\ Written(s, req[s].id)'
                                 /\ rows[req[s].id].status \in Occupying
                                 /\ writes'[s][req[s].id].status = "CANCELED_BY_USER"
      PROVE  Ordering(s)'
  <2> SUFFICES ASSUME Placing(s)' PROVE Ordering(s)' BY DEF Ordering
  <2> QED BY <1>2, <1>8 DEF Ordering
<1>9. ASSUME NEW s \in Sessions, GoesOn(s) PROVE Ordered'
  <2>1. ~Placing(s)' \/ req'[s] = req[s]
    <3>1. ~Place(s) BY <1>9, PlaceBegins DEF GoesOn, Begins
    <3> QED BY <3>1, RequestsStay
  <2>2. Pending(s)'
    <3>1. \A i \in Ids : ~New(s, i) BY <1>9 DEF GoesOn, Ordered, Pending
    <3> QED BY <1>6, <1>9, <3>1 DEF GoesOn, New, Written
  <2>3. ASSUME Placing(s)'
        PROVE  /\ req'[s] = req[s] /\ Account(s) \in held'[s]
               /\ pc'[s] = "slot" /\ req[s].kind = "CHANGE" =>
                    /\ Written(s, req[s].id)'
                    /\ rows[req[s].id].status \in Occupying
                    /\ writes'[s][req[s].id].status = "CANCELED_BY_USER"
    <3>1. Placing(s) /\ req'[s] = req[s] BY <1>2, <2>1, <2>3
    <3>2. Ordering(s) BY DEF Ordered
    <3> QED BY <1>9, <3>1, <3>2 DEF GoesOn, Ordering, Written
  <2>4. Ordering(s)' BY <1>8, <1>9, <2>3 DEF GoesOn
  <2> QED BY <1>5, <1>9, <2>2, <2>4 DEF GoesOn
<1>10. ASSUME NEW s \in Sessions, LockCustomer(s) PROVE Ordered'
  <2>1. /\ OthersStill(s) /\ UNCHANGED <<rows, req, writes>>
        /\ pc[s] = "cust" /\ pc'[s] \in {"old", "limits", "slot"}
    BY <1>10, LockCustomerTakes
  <2>2. \A i \in Ids : ~New(s, i)'
    BY <2>1, NothingWritten DEF Locking, LocksByStep, Clean, New, Written
  <2>3. Ordering(s)' BY <1>8, <1>10, <2>1, LockCustomerGoes
  <2> QED BY <1>5, <1>6, <2>1, <2>2, <2>3
<1>11. ASSUME NEW s \in Sessions, LockTarget(s) PROVE Ordered'
  <2>1. /\ OthersStill(s) /\ UNCHANGED <<rows, req, writes>> /\ pc[s] = "move"
    BY <1>11, LockTargetTakes
  <2>2. ~Placing(s)' BY <2>1 DEF Typing, Knows, DecidingKnows, Placing
  <2>3. \A i \in Ids : ~New(s, i)' BY <2>1 DEF Ordered, Pending, New, Written
  <2> QED BY <1>5, <1>6, <1>8, <2>1, <2>2, <2>3
<1>12. ASSUME NEW s \in Sessions, NEW i, NEW row, NEW e, Writes(s, i, row, e),
              pc[s] # "commit", rows[i].status # "NONE"
       PROVE  \A j \in Ids : ~New(s, j)'
  <2>1. \A j \in Ids : ~New(s, j) BY <1>12 DEF Ordered, Pending
  <2>2. writes[s] \in [Ids -> Row \cup {NoRow}] BY DEF Typing, TypeOK
  <2> QED BY <1>12, <2>1, <2>2 DEF Writes, New, Written
<1>13. ASSUME NEW s \in Sessions, CancelOld(s) PROVE Ordered'
  <2> DEFINE o == req[s].id
             row == [rows[o] EXCEPT !.status = "CANCELED_BY_USER", !.canceledAt = req[s].at]
  <2>1. /\ pc[s] = "old" /\ pc'[s] = "limits" /\ held' = held /\ o \in Ids
        /\ rows[o] \in Row /\ rows[o].status \in Occupying /\ \E e : Writes(s, o, row, e)
    BY <1>13, CancelOldWrites
  <2>2. row.status = "CANCELED_BY_USER" BY <2>1 DEF Row
  <2> HIDE DEF row
  <2>3. rows[o].status # "NONE" BY <2>1 DEF Occupying
  <2>4. OthersStill(s) /\ rows' = rows /\ writes'[s][o] = row
    BY <2>1 DEF Writes, Typing, TypeOK
  <2>5. req' = req BY <1>13 DEF CancelOld, Goto
  <2>6. Placing(s) BY <2>1 DEF Typing, Knows
  <2>7. Account(s) \in held'[s] BY <2>1, <2>6 DEF Ordered, Ordering
  <2>8. Written(s, o)' BY <2>2, <2>4, <2>5 DEF Written
  <2>9. Ordering(s)' BY <1>8, <2>1, <2>2, <2>4, <2>5, <2>7, <2>8
  <2>10. Pending(s)'
    <3>1. \A j \in Ids : ~New(s, j)' BY <1>12, <2>1, <2>3
    <3> QED BY <1>6, <3>1
  <2> QED BY <1>5, <2>4, <2>9, <2>10
<1>14. ASSUME NEW s \in Sessions, Update(s) \/ Relocate(s) PROVE Ordered'
  <2>1. /\ pc[s] \in {"update", "relocate"}
        /\ \E i, row, e : Writes(s, i, row, e) /\ i = req[s].id
    BY <1>14, UpdateWrites, RelocateWrites
  <2>2. rows[req[s].id].status # "NONE" BY <2>1 DEF Faithful, About, Deciding
  <2>3. \A j \in Ids : ~New(s, j)' BY <1>12, <2>1, <2>2
  <2>4. req' = req /\ ~Placing(s)
    BY <1>14, <2>1 DEF Update, Relocate, Goto, Typing, Knows, DecidingKnows, Placing
  <2>5. ~Placing(s)' BY <2>4 DEF Placing
  <2>6. OthersStill(s) /\ rows' = rows BY <2>1 DEF Writes
  <2> QED BY <1>5, <1>6, <1>8, <2>3, <2>5, <2>6
<1>15. ASSUME NEW s \in Sessions, InsertRow(s) PROVE Ordered'
  <2>1. /\ pc[s] = "slot" /\ pc'[s] = "commit" /\ Placing(s)
        /\ held' = [held EXCEPT ![s] = @ \cup {cand[s]}]
    BY <1>15, InsertRowWrites
  <2>2. PICK i \in FreeIds : \E e : Writes(s, i, NewRow(s), e) BY <1>15, InsertRowWrites
  <2>3. req' = req BY <1>15 DEF InsertRow, Goto
  <2>4. /\ i \in Ids /\ rows[i].status = "NONE" /\ ~Written(s, i) /\ OthersStill(s)
        /\ rows' = rows /\ writes'[s] = [writes[s] EXCEPT ![i] = NewRow(s)]
        /\ writes[s] \in [Ids -> Row \cup {NoRow}]
    BY <2>2 DEF FreeIds, Writes, Typing, TypeOK
  <2>5. Ordering(s)'
    <3>1. Ordering(s) /\ pc[s] # "cust" BY <2>1 DEF Ordered
    <3>2. Account(s) \in held'[s] BY <2>1, <3>1 DEF Ordering, Typing, TypeOK
    <3>3. req[s].kind = "CHANGE" =>
            /\ Written(s, req[s].id)' /\ rows[req[s].id].status \in Occupying
            /\ writes'[s][req[s].id].status = "CANCELED_BY_USER"
      <4> SUFFICES ASSUME req[s].kind = "CHANGE"
                   PROVE  /\ Written(s, req[s].id)' /\ rows[req[s].id].status \in Occupying
                          /\ writes'[s][req[s].id].status = "CANCELED_BY_USER"
        OBVIOUS
      <4>1. /\ Written(s, req[s].id) /\ rows[req[s].id].status \in Occupying
            /\ writes[s][req[s].id].status = "CANCELED_BY_USER" /\ req[s].id # i
            /\ req[s].id \in Ids
        BY <2>1, <2>4, <3>1 DEF Ordering, Typing, Knows, PlacingKnows
      <4> QED BY <2>3, <2>4, <4>1 DEF Written
    <3> QED BY <1>8, <2>1, <2>3, <2>4, <3>2, <3>3
  <2>6. Pending(s)'
    <3>1. \A j \in Ids : ~New(s, j) BY <2>1 DEF Ordered, Pending
    <3>2. \A j \in Ids : New(s, j)' => j = i BY <2>4, <3>1 DEF New, Written
    <3>3. writes'[s][i] = NewRow(s) BY <2>4
    <3>4. /\ NewRow(s).cust = Account(s) /\ NewRow(s).prod = req[s].prod
          /\ NewRow(s).replaces = req[s].id
      BY DEF NewRow
    <3>5. Placing(s)' /\ Account(s)' = Account(s) BY <2>1, <2>3 DEF Placing, Account
    <3> QED BY <2>1, <2>3, <3>2, <3>3, <3>4, <3>5 DEF Pending
  <2> QED BY <1>5, <2>4, <2>5, <2>6
<1>16. ASSUME NEW s \in Sessions, EndsTx(s) PROVE Ordered'
  <2>1. \A i \in Ids : rows[i].status # "NONE" =>
          rows'[i].status # "NONE" /\ Kept(rows[i], rows'[i])
    BY <1>16, StoredStays
  <2>2. ASSUME NEW t \in Sessions, t # s PROVE Ordering(t)' /\ Pending(t)'
    <3>1. \A i \in Ids : Written(t, i) => rows'[i] = rows[i]
      BY <1>16, <2>2 DEF EndsTx, View, Locking, OneHolder
    <3> QED BY <1>3, <1>16, <2>1, <2>2, <3>1 DEF EndsTx, OthersStill
  <2>3. Ordering(s)'
    <3> SUFFICES ASSUME Placing(s)' PROVE Ordering(s)' BY DEF Ordering
    <3>1. CASE Place(s)
      <4>1. Ordered' BY <1>7, <3>1, PlaceBegins
      <4> QED BY <4>1 DEF Ordered
    <3>2. CASE ~Place(s)
      <4>1. req'[s] = req[s] BY <3>2, RequestsStay
      <4>2. req[s].kind = "CHANGE" =>
              /\ rows'[req[s].id].status # "NONE" /\ rows'[req[s].id].cust = Account(s)
              /\ rows'[req[s].id].prod = req[s].prod
        BY <1>2, <2>1, <4>1 DEF Kept
      <4> QED BY <1>2, <1>16, <4>1, <4>2 DEF EndsTx, Ordering
    <3> QED BY <3>1, <3>2
  <2>4. Pending(s)' BY <1>6, <1>16, NoRowIsNone DEF EndsTx, New, Written, NoWrites
  <2> QED BY <2>2, <2>3, <2>4 DEF Ordered
<1> QED BY <1>4, <1>7, <1>9, <1>10, <1>11, <1>13, <1>14, <1>15, <1>16, StepKinds DEF Kind

(* A handler that places writes its one new row last, under the customer's   *)
(* lock, and a change has by then canceled, in the same transaction, the     *)
(* reservation it replaces, live and of the same customer and product until  *)
(* the commit (createReservation, createWalkIn, changeReservation).          *)
THEOREM OrdersFollowed == Spec => []Ordered
<1>1. Init => Ordered
  <2> SUFFICES ASSUME Init PROVE Ordered OBVIOUS
  <2>1. \A s \in Sessions : ~Placing(s) BY DEF Init, Placing, NoReq
  <2>2. \A s \in Sessions, i \in Ids : ~Written(s, i) BY NothingWritten DEF Init
  <2> QED BY <2>1, <2>2 DEF Ordered, Ordering, Pending, New
<1> QED BY <1>1, OrderedStep, TypingInvariant, LocksHeldOnce, TransactionsFaithful, PTL DEF Spec

-----------------------------------------------------------------------------
(* Changes. *)

(* A canceled reservation stays canceled. *)
LEMMA FinalCancel == \A to : Follows("CANCELED_BY_USER", to) => to = "CANCELED_BY_USER"
BY DEF Follows, Allowed, RULES, Rule

(* Each step keeps it: the commit of a change under the customer's lock. *)
LEMMA ReplacedStep ==
  Typing /\ Faithful /\ Ordered /\ ReplacedOnce /\ [Next]_vars => ReplacedOnce'
<1> SUFFICES ASSUME Typing, Faithful, Ordered, ReplacedOnce, [Next]_vars PROVE ReplacedOnce'
  OBVIOUS
<1>1. CASE rows' = rows BY <1>1 DEF ReplacedOnce
<1>2. ASSUME NEW s \in Sessions, pc[s] = "commit", rows' = View(s) PROVE ReplacedOnce'
  <2>1. ASSUME NEW i \in Ids, rows[i].status # "NONE"
        PROVE  /\ rows'[i].status # "NONE" /\ Kept(rows[i], rows'[i])
               /\ Follows(rows[i].status, rows'[i].status)
    <3>1. rows[i] \in Row BY <2>1 DEF Typing, TypeOK, NoRow
    <3>2. CASE Written(s, i)
      BY <1>2, <2>1, <3>2 DEF View, Written, Faithful, Recorded
    <3>3. CASE ~Written(s, i)
      BY <1>2, <2>1, <3>1, <3>3, KeptSelf DEF View, Follows
    <3> QED BY <3>2, <3>3
  <2>2. ASSUME NEW i \in Ids, rows[i].status = "NONE", rows'[i].replaces # None
        PROVE  /\ New(s, i) /\ rows'[i] = writes[s][i]
    <3>1. rows[i].replaces = None BY <2>2, RealRow DEF Typing, TypeOK, NoRow
    <3> QED BY <1>2, <2>2, <3>1 DEF View, New
  <2>3. ASSUME NEW i \in Ids, New(s, i), rows'[i].replaces # None, rows'[i] = writes[s][i]
        PROVE  LET o == rows'[i].replaces
               IN  /\ o = req[s].id /\ o \in Ids /\ rows[o].status \in Occupying
                   /\ rows'[o].status = "CANCELED_BY_USER"
                   /\ rows'[o].cust = rows'[i].cust /\ rows'[o].prod = rows'[i].prod
    <3> DEFINE o == req[s].id
    <3>1. /\ Placing(s) /\ rows'[i].cust = Account(s) /\ rows'[i].prod = req[s].prod
          /\ rows'[i].replaces = o
      BY <2>3 DEF Ordered, Pending
    <3>2. Ordering(s) BY DEF Ordered
    <3>3. req[s].kind = "CHANGE" BY <2>3, <3>1, <3>2 DEF Ordering
    <3>4. o \in Ids BY <3>1, <3>3 DEF Typing, Knows, PlacingKnows
    <3>5. /\ rows[o].cust = Account(s) /\ rows[o].prod = req[s].prod /\ Written(s, o)
          /\ rows[o].status \in Occupying /\ writes[s][o].status = "CANCELED_BY_USER"
          /\ rows[o].status # "NONE"
      BY <1>2, <3>1, <3>2, <3>3 DEF Ordering
    <3>6. rows'[o] = writes[s][o] BY <1>2, <3>4, <3>5 DEF View
    <3>7. Kept(rows[o], rows'[o]) BY <2>1, <3>4, <3>5
    <3> QED BY <3>1, <3>4, <3>5, <3>6, <3>7 DEF Kept
  <2>4. ASSUME NEW i \in Ids, rows[i].status # "NONE", rows'[i].replaces # None
        PROVE  LET o == rows'[i].replaces
               IN  /\ o \in Ids /\ rows[i].replaces = o /\ rows[o].status = "CANCELED_BY_USER"
                   /\ rows'[o].status = "CANCELED_BY_USER"
                   /\ rows'[o].cust = rows'[i].cust /\ rows'[o].prod = rows'[i].prod
    <3> DEFINE o == rows[i].replaces
    <3>1. rows'[i].replaces = o /\ Kept(rows[i], rows'[i]) BY <2>1, <2>4 DEF Kept
    <3>2. rows[i] \in Row BY <2>4 DEF Typing, TypeOK, NoRow
    <3>3. o \in Ids BY <2>4, <3>1, <3>2 DEF Row
    <3>4. /\ rows[o].status = "CANCELED_BY_USER"
          /\ rows[o].cust = rows[i].cust /\ rows[o].prod = rows[i].prod
      BY <2>4, <3>1 DEF ReplacedOnce
    <3>5. /\ Kept(rows[o], rows'[o]) /\ Follows(rows[o].status, rows'[o].status)
      BY <2>1, <3>3, <3>4
    <3>6. rows'[o].status = "CANCELED_BY_USER" BY <3>4, <3>5, FinalCancel
    <3> QED BY <3>1, <3>3, <3>4, <3>5, <3>6 DEF Kept
  <2>5. ASSUME NEW i \in Ids, rows'[i].replaces # None
        PROVE  LET o == rows'[i].replaces
               IN  /\ rows'[o].status = "CANCELED_BY_USER"
                   /\ rows'[o].cust = rows'[i].cust /\ rows'[o].prod = rows'[i].prod
                   /\ \A j \in Ids \ {i} : rows'[j].replaces # o
    <3> DEFINE o == rows'[i].replaces
    <3> SUFFICES ASSUME NEW j \in Ids \ {i}, rows'[j].replaces = o PROVE FALSE
      BY <2>2, <2>3, <2>4, <2>5
    <3>1. CASE rows[i].status # "NONE" /\ rows[j].status # "NONE"
      <4>1. rows[i].replaces = o /\ rows[j].replaces = o BY <2>4, <2>5, <3>1
      <4> QED BY <2>5, <4>1 DEF ReplacedOnce
    <3>2. CASE rows[i].status = "NONE" /\ rows[j].status = "NONE"
      <4>1. New(s, i) /\ New(s, j) BY <2>2, <2>5, <3>2
      <4> QED BY <4>1 DEF Ordered, Pending
    <3>3. CASE rows[i].status = "NONE" /\ rows[j].status # "NONE"
      <4>1. rows[o].status \in Occupying BY <2>2, <2>3, <2>5, <3>3
      <4>2. rows[o].status = "CANCELED_BY_USER" BY <2>4, <2>5, <3>3
      <4> QED BY <4>1, <4>2 DEF Occupying
    <3>4. CASE rows[i].status # "NONE" /\ rows[j].status = "NONE"
      <4>1. rows[o].status \in Occupying BY <2>2, <2>3, <2>5, <3>4
      <4>2. rows[o].status = "CANCELED_BY_USER" BY <2>4, <2>5, <3>4
      <4> QED BY <4>1, <4>2 DEF Occupying
    <3> QED BY <3>1, <3>2, <3>3, <3>4
  <2> QED BY <2>5 DEF ReplacedOnce
<1> QED BY <1>1, <1>2, CommitsOnly

(* ReplacedOnce: a change cancels its reservation and stores the one that    *)
(* replaces it in one step, and no reservation is replaced twice, however    *)
(* many changes of it are sent at once (changeReservation: the customer's    *)
(* lock, and the conditional update of the old row).                         *)
THEOREM ChangedOnce == Spec => []ReplacedOnce
<1>1. Init => ReplacedOnce BY DEF Init, ReplacedOnce, NoWrites, NoRow
<1> QED BY <1>1, ReplacedStep, OrdersFollowed, TypingInvariant, TransactionsFaithful, PTL DEF Spec

-----------------------------------------------------------------------------
(* Limits. *)

(* A handler counted before it inserts; nobody else adds a reservation of    *)
(* its customer meanwhile.                                                   *)
Counted(s) ==
  LET n == Cardinality(ActiveOf(View(s), Account(s), req[s].prod, req[s].at))
  IN  Placing(s) /\ req[s].kind # "WALKIN" =>
        /\ pc[s] = "slot" => n < Policy.maxActive
        /\ pc[s] = "commit" => n <= Policy.maxActive

Limited == ActiveLimit /\ \A s \in Sessions : Counted(s)

(* A count of fewer reservations is no larger. *)
LEMMA FewerActive ==
  ASSUME NEW t, NEW u, NEW c, NEW p, NEW at, NEW later,
         ActiveOf(u, c, p, later) \subseteq ActiveOf(t, c, p, at)
  PROVE  /\ Cardinality(ActiveOf(u, c, p, later)) <= Cardinality(ActiveOf(t, c, p, at))
         /\ Cardinality(ActiveOf(u, c, p, later)) \in Nat
         /\ Cardinality(ActiveOf(t, c, p, at)) \in Nat
<1>1. ActiveOf(t, c, p, at) \subseteq Ids BY DEF ActiveOf
<1>2. IsFiniteSet(ActiveOf(t, c, p, at)) BY <1>1, IdsAssumption, FS_Subset
<1>3. IsFiniteSet(ActiveOf(u, c, p, later)) BY <1>2, FS_Subset
<1> QED BY <1>2, <1>3, FS_Subset, FS_CardinalityType

(* What stays active was active. *)
LEMMA LiveFollows ==
  ASSUME NEW from, NEW to, Follows(from, to), to \in Occupying PROVE from \in Occupying
BY DEF Follows, Allowed, RULES, Rule, Occupying

(* The rows a transaction sees are rows. *)
LEMMA ViewRow ==
  ASSUME Typing, NEW s \in Sessions, NEW i \in Ids
  PROVE  /\ View(s)[i] \in Row \cup {NoRow} /\ rows[i] \in Row \cup {NoRow}
         /\ View(s)[i].start \in Nat /\ rows[i].start \in Nat
<1>1. View(s)[i] \in Row \cup {NoRow} /\ rows[i] \in Row \cup {NoRow}
  BY DEF View, Typing, TypeOK
<1>2. \A row \in Row \cup {NoRow} : row.start \in Nat BY DEF Row, NoRow
<1> QED BY <1>1, <1>2

(* What others commit takes nothing away from what a handler has counted. *)
LEMMA CommitUnderCustomer ==
  ASSUME Typing, Locking, Faithful, Ordered, NEW s \in Sessions, EndsTx(s),
         NEW t \in Sessions, t # s, Placing(t), pc[t] \in {"slot", "commit"}, NEW at, NEW p
  PROVE  ActiveOf(View(t)', Account(t), p, at) \subseteq ActiveOf(View(t), Account(t), p, at)
<1> SUFFICES ASSUME NEW j \in Ids, View(t)'[j].cust = Account(t), View(t)'[j].prod = p,
                    View(t)'[j].status \in Occupying, View(t)'[j].start >= at
             PROVE  /\ View(t)[j].cust = Account(t) /\ View(t)[j].prod = p
                    /\ View(t)[j].status \in Occupying /\ View(t)[j].start >= at
  BY DEF ActiveOf
<1>1. writes'[t] = writes[t] BY DEF EndsTx, OthersStill
<1>2. CASE Written(t, j) \/ rows'[j] = rows[j]
  <2>1. View(t)'[j] = View(t)[j] BY <1>1, <1>2 DEF View, Written
  <2> QED BY <2>1
<1>3. CASE ~Written(t, j) /\ rows'[j] # rows[j]
  <2>1. View(t)'[j] = rows'[j] /\ View(t)[j] = rows[j] BY <1>1, <1>3 DEF View, Written
  <2>2. pc[s] = "commit" /\ Written(s, j) /\ rows'[j] = writes[s][j] BY <1>3 DEF EndsTx, View
  <2>3. CASE rows[j].status # "NONE"
    <3>1. Kept(rows[j], rows'[j]) /\ Follows(rows[j].status, rows'[j].status)
      BY <2>3, StoredStays
    <3>2. rows[j].status \in Occupying BY <2>1, <3>1, LiveFollows
    <3> QED BY <2>1, <3>1, <3>2 DEF Kept
  <2>4. CASE rows[j].status = "NONE"
    <3>1. New(s, j) BY <2>2, <2>4 DEF New
    <3>2. Placing(s) /\ Account(s) = Account(t) BY <2>1, <2>2, <3>1 DEF Ordered, Pending
    <3>3. Account(s) \in held[s] /\ Account(t) \in held[t]
      BY <2>2, <3>2 DEF Ordered, Ordering
    <3> QED BY <3>2, <3>3 DEF Locking, OneHolder
  <2> QED BY <2>3, <2>4
<1> QED BY <1>2, <1>3

(* A commit leaves each customer within the limit. *)
LEMMA CommitWithin ==
  ASSUME Typing, Faithful, Ordered, Limited, now \in Nat, now' \in Nat, now <= now',
         NEW s \in Sessions, pc[s] = "commit", NEW c \in Customers, NEW p \in Products
  PROVE  Cardinality(ActiveOf(View(s), c, p, now')) <= Policy.maxActive
<1>1. Policy.maxActive \in Nat BY PolicyAssumption DEF PolicyType
<1>2. CASE Placing(s) /\ req[s].kind # "WALKIN" /\ Account(s) = c /\ req[s].prod = p
  <2> DEFINE at == req[s].at
  <2>1. at \in Nat /\ at <= now BY <1>2, RequestTime DEF Ordered, Ordering, Typing
  <2>2. ActiveOf(View(s), c, p, now') \subseteq ActiveOf(View(s), c, p, at)
    <3>1. \A i \in Ids : View(s)[i].start \in Nat BY ViewRow
    <3>2. \A n \in Nat : n >= now' => n >= at BY <2>1
    <3> HIDE DEF at
    <3> QED BY <3>1, <3>2 DEF ActiveOf
  <2>3. Cardinality(ActiveOf(View(s), c, p, at)) <= Policy.maxActive
    BY <1>2 DEF Limited, Counted
  <2> HIDE DEF at
  <2>4. /\ Cardinality(ActiveOf(View(s), c, p, now')) <= Cardinality(ActiveOf(View(s), c, p, at))
        /\ Cardinality(ActiveOf(View(s), c, p, now')) \in Nat
        /\ Cardinality(ActiveOf(View(s), c, p, at)) \in Nat
    BY <2>2, FewerActive
  <2> QED BY <1>1, <2>3, <2>4
<1>3. CASE ~(Placing(s) /\ req[s].kind # "WALKIN" /\ Account(s) = c /\ req[s].prod = p)
  <2>1. ASSUME NEW i \in Ids, View(s)[i].cust = c, View(s)[i].prod = p,
               View(s)[i].status \in Occupying
        PROVE  /\ rows[i].cust = c /\ rows[i].prod = p /\ rows[i].status \in Occupying
               /\ rows[i].start = View(s)[i].start
    <3>1. CASE ~Written(s, i) BY <2>1, <3>1 DEF View
    <3>2. CASE Written(s, i) /\ rows[i].status # "NONE"
      <4>1. View(s)[i] = writes[s][i] BY <3>2 DEF View
      <4>2. Kept(rows[i], writes[s][i]) /\ Follows(rows[i].status, writes[s][i].status)
        BY <3>2 DEF Faithful, Recorded
      <4>3. rows[i].status \in Occupying BY <2>1, <4>1, <4>2, LiveFollows
      <4> QED BY <2>1, <4>1, <4>2, <4>3 DEF Kept
    <3>3. CASE Written(s, i) /\ rows[i].status = "NONE"
      <4>1. View(s)[i] = writes[s][i] BY <3>3 DEF View
      <4>2. Placing(s) /\ c = Account(s) /\ p = req[s].prod
        BY <2>1, <3>3, <4>1 DEF New, Ordered, Pending
      <4>3. req[s].kind # "WALKIN" BY <4>2, NamesAssumption DEF Account
      <4> QED BY <1>3, <4>2, <4>3
    <3> QED BY <3>1, <3>2, <3>3
  <2>2. ActiveOf(View(s), c, p, now') \subseteq ActiveOf(rows, c, p, now)
    <3>1. \A i \in Ids : rows[i].start \in Nat BY ViewRow
    <3>2. \A n \in Nat : n >= now' => n >= now OBVIOUS
    <3> QED BY <2>1, <3>1, <3>2 DEF ActiveOf
  <2>3. Cardinality(ActiveOf(rows, c, p, now)) <= Policy.maxActive BY DEF Limited, ActiveLimit
  <2>4. /\ Cardinality(ActiveOf(View(s), c, p, now')) <= Cardinality(ActiveOf(rows, c, p, now))
        /\ Cardinality(ActiveOf(View(s), c, p, now')) \in Nat
        /\ Cardinality(ActiveOf(rows, c, p, now)) \in Nat
    BY <2>2, FewerActive
  <2> QED BY <1>1, <2>3, <2>4
<1> QED BY <1>2, <1>3

(* Each step keeps the limit, of the table and of what was counted. *)
LEMMA LimitedStep ==
  Typing /\ Locking /\ Faithful /\ Ordered /\ Limited /\ [Next]_vars => Limited'
<1> SUFFICES ASSUME Typing, Locking, Faithful, Ordered, Limited, [Next]_vars PROVE Limited'
  OBVIOUS
<1>1. now \in Nat /\ now' \in Nat /\ now <= now' BY ClockForward
<1>2. Policy.maxActive \in Nat BY PolicyAssumption DEF PolicyType
<1>3. ActiveLimit'
  <2>1. CASE rows' = rows
    <3> SUFFICES ASSUME NEW c \in Customers, NEW p \in Products
                 PROVE  Cardinality(ActiveOf(rows, c, p, now')) <= Policy.maxActive
      BY <2>1 DEF ActiveLimit, ActiveOf
    <3>1. ActiveOf(rows, c, p, now') \subseteq ActiveOf(rows, c, p, now)
      <4>1. \A i \in Ids : rows[i].start \in Nat BY DEF Typing, TypeOK, Row, NoRow
      <4> QED BY <1>1, <4>1 DEF ActiveOf
    <3>2. Cardinality(ActiveOf(rows, c, p, now)) <= Policy.maxActive BY DEF Limited, ActiveLimit
    <3>3. /\ Cardinality(ActiveOf(rows, c, p, now')) <= Cardinality(ActiveOf(rows, c, p, now))
          /\ Cardinality(ActiveOf(rows, c, p, now')) \in Nat
          /\ Cardinality(ActiveOf(rows, c, p, now)) \in Nat
      BY <3>1, FewerActive
    <3> QED BY <1>2, <3>2, <3>3
  <2>2. ASSUME NEW s \in Sessions, pc[s] = "commit", rows' = View(s) PROVE ActiveLimit'
    BY <1>1, <2>2, CommitWithin DEF ActiveLimit, ActiveOf
  <2> QED BY <2>1, <2>2, CommitsOnly
<1>4. ASSUME NEW t \in Sessions, Placing(t)' => pc'[t] \notin {"slot", "commit"}
      PROVE  Counted(t)'
  BY <1>4 DEF Counted
<1>5. ASSUME NEW t \in Sessions, req'[t] = req[t], pc'[t] = pc[t], writes'[t] = writes[t],
             rows' = rows
      PROVE  Counted(t)'
  <2>1. View(t)' = View(t) /\ Account(t)' = Account(t) /\ (Placing(t)' <=> Placing(t))
    BY <1>5 DEF View, Written, Account, Placing
  <2> QED BY <1>5, <2>1 DEF Limited, Counted, ActiveOf
<1>6. CASE Elsewhere BY <1>3, <1>5, <1>6 DEF Elsewhere, Limited
<1>7. ASSUME NEW s \in Sessions, OthersStill(s), rows' = rows, Counted(s)' PROVE Limited'
  <2>1. \A t \in Sessions \ {s} : Counted(t)' BY <1>5, <1>7 DEF OthersStill
  <2> QED BY <1>3, <1>7, <2>1 DEF Limited
<1>8. ASSUME NEW s \in Sessions, Begins(s) PROVE Limited'
  BY <1>4, <1>7, <1>8 DEF Begins
<1>9. ASSUME NEW s \in Sessions, GoesOn(s) PROVE Limited'
  <2>1. Counted(s)'
    <3>1. CASE Placing(s)' /\ pc[s] = "limits" /\ pc'[s] = "slot"
      <4>1. ~Place(s) BY <1>9, PlaceBegins DEF GoesOn, Begins
      <4>2. req'[s] = req[s] BY <3>1, <4>1, RequestsStay
      <4>3. WithinLimits(s) BY <3>1, LimitsAsked
      <4>4. View(s)' = View(s) /\ Account(s)' = Account(s)
        BY <1>9, <4>2 DEF GoesOn, View, Written, Account
      <4> QED BY <3>1, <4>2, <4>3, <4>4 DEF Counted, WithinLimits, ActiveOf
    <3>2. CASE ~(Placing(s)' /\ pc[s] = "limits" /\ pc'[s] = "slot")
      BY <1>4, <1>9, <3>2 DEF GoesOn
    <3> QED BY <3>1, <3>2
  <2> QED BY <1>7, <1>9, <2>1 DEF GoesOn
<1>10. ASSUME NEW s \in Sessions, LockCustomer(s) PROVE Limited'
  <2>1. /\ OthersStill(s) /\ UNCHANGED <<rows, req>> /\ pc'[s] \in {"old", "limits", "slot"}
        /\ pc'[s] = "slot" => req[s].kind = "WALKIN"
    BY <1>10, LockCustomerTakes, LockCustomerGoes
  <2>2. Counted(s)' BY <2>1 DEF Counted
  <2> QED BY <1>7, <2>1, <2>2
<1>11. ASSUME NEW s \in Sessions, LockTarget(s) PROVE Limited'
  BY <1>4, <1>7, <1>11, LockTargetTakes
<1>12. ASSUME NEW s \in Sessions, CancelOld(s) PROVE Limited'
  BY <1>4, <1>7, <1>12, CancelOldWrites DEF Writes
<1>13. ASSUME NEW s \in Sessions, Update(s) \/ Relocate(s) PROVE Limited'
  <2>1. OthersStill(s) /\ rows' = rows /\ pc[s] \in {"update", "relocate"}
    BY <1>13, UpdateWrites, RelocateWrites DEF Writes
  <2>2. req' = req BY <1>13 DEF Update, Relocate, Goto
  <2>3. ~Placing(s)' BY <2>1, <2>2 DEF Typing, Knows, DecidingKnows, Placing
  <2> QED BY <1>4, <1>7, <2>1, <2>3
<1>14. ASSUME NEW s \in Sessions, InsertRow(s) PROVE Limited'
  <2>1. pc[s] = "slot" /\ pc'[s] = "commit" /\ Placing(s) BY <1>14, InsertRowWrites
  <2>2. PICK i \in FreeIds : \E e : Writes(s, i, NewRow(s), e) BY <1>14, InsertRowWrites
  <2>3. req' = req BY <1>14 DEF InsertRow, Goto
  <2>4. /\ i \in Ids /\ OthersStill(s) /\ rows' = rows
        /\ \A j \in Ids \ {i} : writes'[s][j] = writes[s][j]
    BY <2>2 DEF FreeIds, Writes, Typing, TypeOK
  <2>5. \A j \in Ids \ {i} : View(s)'[j] = View(s)[j] BY <2>4 DEF View, Written
  <2> DEFINE a == Account(s)
             p == req[s].prod
             at == req[s].at
             before == ActiveOf(View(s), a, p, at)
             after == ActiveOf(View(s)', a, p, at)
  <2>6. after \subseteq before \cup {i} BY <2>5 DEF ActiveOf
  <2>7. IsFiniteSet(before)
    <3>1. before \subseteq Ids BY DEF ActiveOf
    <3> QED BY <3>1, IdsAssumption, FS_Subset
  <2>8. req[s].kind # "WALKIN" => Cardinality(before) < Policy.maxActive
    BY <2>1 DEF Limited, Counted
  <2>9. req[s].kind # "WALKIN" => Cardinality(after) <= Policy.maxActive
    <3> HIDE DEF before, after
    <3>1. /\ IsFiniteSet(before \cup {i}) /\ Cardinality(before) \in Nat
          /\ Cardinality(before \cup {i}) <= Cardinality(before) + 1
          /\ Cardinality(before \cup {i}) \in Nat
      <4>1. IsFiniteSet(before \cup {i}) /\ Cardinality(before) \in Nat
        BY <2>7, FS_AddElement, FS_CardinalityType
      <4>2. Cardinality(before \cup {i}) \in Nat BY <4>1, FS_CardinalityType
      <4>3. CASE i \in before
        <5>1. before \cup {i} = before BY <4>3
        <5>2. Cardinality(before) <= Cardinality(before) + 1
          <6>1. \A n \in Nat : n <= n + 1 OBVIOUS
          <6> QED BY <4>1, <6>1, Zenon
        <5> QED BY <4>1, <5>1, <5>2, Zenon
      <4>4. CASE i \notin before
        <5>1. Cardinality(before \cup {i}) = Cardinality(before) + 1
          BY <2>7, <4>4, FS_AddElement
        <5> QED BY <4>1, <4>2, <5>1
      <4> QED BY <4>1, <4>2, <4>3, <4>4
    <3>2. Cardinality(after) <= Cardinality(before \cup {i}) /\ Cardinality(after) \in Nat
      BY <2>6, <3>1, FS_Subset, FS_CardinalityType
    <3>3. \A x, y, z, m \in Nat : x <= y /\ y <= z + 1 /\ z < m => x <= m OBVIOUS
    <3> QED BY <1>2, <2>8, <3>1, <3>2, <3>3, Zenon
  <2>10. Account(s)' = a /\ req'[s].prod = p /\ req'[s].at = at /\ req'[s].kind = req[s].kind
    BY <2>3 DEF Account
  <2>11. Counted(s)'
    <3>1. Counted(s)' <=>
            (Placing(s)' /\ req'[s].kind # "WALKIN" =>
               /\ pc'[s] = "slot"
                    => Cardinality(ActiveOf(View(s)', Account(s)', req'[s].prod, req'[s].at))
                         < Policy.maxActive
               /\ pc'[s] = "commit"
                    => Cardinality(ActiveOf(View(s)', Account(s)', req'[s].prod, req'[s].at))
                         <= Policy.maxActive)
      BY DEF Counted, ActiveOf
    <3> QED BY <2>1, <2>9, <2>10, <3>1
  <2> QED BY <1>7, <2>4, <2>11
<1>15. ASSUME NEW s \in Sessions, EndsTx(s) PROVE Limited'
  <2>1. Counted(s)' BY <1>4, <1>15 DEF EndsTx
  <2>2. ASSUME NEW t \in Sessions, t # s PROVE Counted(t)'
    <3>1. /\ req'[t] = req[t] /\ pc'[t] = pc[t] /\ Account(t)' = Account(t)
          /\ (Placing(t)' <=> Placing(t))
      BY <1>15, <2>2 DEF EndsTx, OthersStill, Account, Placing
    <3>2. CASE Placing(t) /\ pc[t] \in {"slot", "commit"} /\ req[t].kind # "WALKIN"
      <4> DEFINE before == Cardinality(ActiveOf(View(t), Account(t), req[t].prod, req[t].at))
                 after == Cardinality(ActiveOf(View(t)', Account(t), req[t].prod, req[t].at))
      <4>1. ActiveOf(View(t)', Account(t), req[t].prod, req[t].at)
              \subseteq ActiveOf(View(t), Account(t), req[t].prod, req[t].at)
        BY <1>15, <2>2, <3>2, CommitUnderCustomer
      <4>2. after <= before /\ after \in Nat /\ before \in Nat BY <4>1, FewerActive
      <4>3. /\ pc[t] = "slot" => before < Policy.maxActive
            /\ pc[t] = "commit" => before <= Policy.maxActive
        BY <3>2 DEF Limited, Counted
      <4> HIDE DEF before, after
      <4>4. /\ pc[t] = "slot" => after < Policy.maxActive
            /\ pc[t] = "commit" => after <= Policy.maxActive
        BY <1>2, <4>2, <4>3
      <4> QED BY <3>1, <4>4 DEF after, Counted, ActiveOf
    <3>3. CASE ~(Placing(t) /\ pc[t] \in {"slot", "commit"} /\ req[t].kind # "WALKIN")
      BY <3>1, <3>3 DEF Counted
    <3> QED BY <3>2, <3>3
  <2> QED BY <1>3, <2>1, <2>2 DEF Limited
<1> QED BY <1>6, <1>8, <1>9, <1>10, <1>11, <1>12, <1>13, <1>14, <1>15, StepKinds DEF Kind

(* At the start nobody has an active reservation and nobody places one.      *)
LEMMA InitLimited == Init => Limited
<1> SUFFICES ASSUME Init PROVE Limited OBVIOUS
<1>1. \A c, p : ActiveOf(rows, c, p, now) = {}
  BY DEF Init, ActiveOf, NoWrites, NoRow, Occupying
<1>2. Cardinality({}) = 0 /\ Policy.maxActive \in Nat
  BY FS_EmptySet, PolicyAssumption DEF PolicyType
<1>3. ActiveLimit BY <1>1, <1>2 DEF ActiveLimit
<1>4. \A s \in Sessions : ~Placing(s) BY DEF Init, Placing, NoReq
<1> QED BY <1>3, <1>4 DEF Limited, Counted

(* ActiveLimit: no customer ever holds more upcoming reservations of a        *)
(* product than the policy allows, however many requests are sent at once     *)
(* (insertOne: the count under the customer's lock).                          *)
THEOREM LimitHolds == Spec => []ActiveLimit
<1>1. Limited => ActiveLimit BY DEF Limited
<1> QED BY <1>1, InitLimited, LimitedStep, OrdersFollowed, TypingInvariant, LocksHeldOnce,
           TransactionsFaithful, PTL DEF Spec

-----------------------------------------------------------------------------
(* Whose step it is. *)

Acts(s) ==
  \/ Statement(s) \/ Crash(s) \/ Place(s) \/ RequestReassign(s)
  \/ pc[s] = "idle" /\ \E i \in Ids : \E to, a, at : StartTransition(s, i, to, a, at)

Still == UNCHANGED <<rows, pc, req, cand, todo, held, writes, entries>>

(* Every step is a session's, or touches no session and no reservation. *)
LEMMA Actors == Typing /\ [Next]_vars => Still \/ \E s \in Sessions : Acts(s)
<1> SUFFICES ASSUME Typing, [Next]_vars PROVE Still \/ \E s \in Sessions : Acts(s) OBVIOUS
<1>1. ASSUME NEW s \in Sessions, Statement(s) \/ Crash(s) PROVE Acts(s) BY <1>1 DEF Acts
<1>2. ASSUME NEW s \in Workers, Arrive(s) PROVE s \in Sessions /\ Acts(s)
  <2>1. s \in Sessions BY DEF Sessions
  <2>2. CASE Place(s) \/ RequestReassign(s) BY <2>1, <2>2 DEF Acts
  <2>3. CASE RequestTransition(s)
    <3>1. pc[s] = "idle" /\ \E i \in Ids : \E to, a, at : StartTransition(s, i, to, a, at)
      BY <2>3 DEF RequestTransition
    <3> QED BY <2>1, <3>1 DEF Acts
  <2> QED BY <1>2, <2>2, <2>3 DEF Arrive
<1>3. ASSUME NEW s \in Crons, ExpireRequests(s) \/ AutoNoShow(s) \/ Sweep(s)
      PROVE  Still \/ \E t \in Sessions : Acts(t)
  <2>1. CASE BatchStep(s)
    <3>1. s \in Sessions /\ batch[s].ids \subseteq Ids BY DEF Sessions, Typing, TypeOK
    <3>2. pc[s] = "idle" /\ \E i \in Ids : \E to, a, at : StartTransition(s, i, to, a, at)
      BY <2>1, <3>1 DEF BatchStep
    <3> QED BY <3>1, <3>2 DEF Acts
  <2>2. CASE ExpireRequests(s) \/ AutoNoShow(s) \/ BatchSkip(s) \/ BatchThrows(s)
    BY <2>2 DEF ExpireRequests, AutoNoShow, StartBatch, BatchSkip, BatchThrows, Still, db, tx
  <2> QED BY <1>3, <2>1, <2>2 DEF Sweep
<1>4. CASE OwnerEdits
  BY <1>4 DEF OwnerEdits, EditCapacity, SetResourceActive, SetProductStatus, RemoveProduct,
              Still, tx
<1>5. CASE Tick \/ UNCHANGED vars BY <1>5 DEF Tick, vars, Still, db, tx
<1> QED BY <1>1, <1>2, <1>3, <1>4, <1>5 DEF Next, Rest

(* Its candidates are left alone by the others. *)
LEMMA OthersWait ==
  ASSUME Typing, NEW s \in Sessions, Acts(s)
  PROVE  /\ Kind(s) /\ OthersStill(s) /\ \A t \in Sessions \ {s} : todo'[t] = todo[t]
         /\ rows' = rows \/ EndsTx(s)
<1>1. Kind(s)
  <2>1. CASE Statement(s) BY <2>1, StatementKind
  <2>2. CASE Crash(s)
    <3>1. Rollback(s) /\ rows' = rows BY <2>2 DEF Crash, db
    <3> QED BY <3>1, RollbackEnds DEF Kind
  <2>3. CASE Place(s) BY <2>3, PlaceBegins DEF Kind
  <2>4. CASE RequestReassign(s) BY <2>4, ReassignBegins DEF Kind
  <2>5. ASSUME pc[s] = "idle", NEW i \in Ids, NEW to, NEW a, NEW at, StartTransition(s, i, to, a, at)
        PROVE  Kind(s)
    BY <2>5, TransitionBegins DEF Kind
  <2> QED BY <2>1, <2>2, <2>3, <2>4, <2>5 DEF Acts
<1>2. OthersStill(s) /\ (rows' = rows \/ EndsTx(s))
  BY <1>1, LockCustomerTakes, LockTargetTakes, CancelOldWrites, InsertRowWrites, UpdateWrites,
     RelocateWrites DEF Kind, Begins, GoesOn, EndsTx, Writes
<1>3. todo \in [Sessions -> SUBSET Resources] BY DEF Typing, TypeOK
<1>4. ASSUME todo' = todo \/ \E v : todo' = [todo EXCEPT ![s] = v]
      PROVE  \A t \in Sessions \ {s} : todo'[t] = todo[t]
  BY <1>3, <1>4
<1>5. ASSUME Rollback(s) PROVE \A t \in Sessions \ {s} : todo'[t] = todo[t]
  <2>1. todo' = [todo EXCEPT ![s] = {}] BY <1>5 DEF Rollback, Leave
  <2> QED BY <1>4, <2>1
<1>6. \A t \in Sessions \ {s} : todo'[t] = todo[t]
  <2>1. CASE Statement(s)
    <3>1. CASE SlotTaken(s)
      <4>1. \E v : todo' = [todo EXCEPT ![s] = v] BY <3>1 DEF SlotTaken, Leave
      <4> QED BY <1>4, <4>1
    <3>2. CASE \/ LockCustomer(s) \/ CancelOld(s) \/ LimitsPass(s) \/ InsertRow(s) \/ Validate(s)
               \/ Update(s) \/ ReadTarget(s) \/ LockTarget(s) \/ Relocate(s) \/ DeadlockRetry(s)
      <4>1. todo' = todo
        BY <3>2 DEF LockCustomer, CancelOld, LimitsPass, InsertRow, Validate, Update, ReadTarget,
                    LockTarget, Relocate, DeadlockRetry, Goto
      <4> QED BY <1>4, <4>1
    <3>3. CASE \/ OldGone(s) \/ LimitsRefuse(s) \/ ProductDeleted(s) \/ ValidateRefuse(s)
               \/ UpdateMisses(s) \/ TargetRefuse(s) \/ TargetTaken(s) \/ RelocateMisses(s)
               \/ Commit(s) \/ DeadlockFail(s)
      BY <1>5, <3>3 DEF OldGone, LimitsRefuse, ProductDeleted, ValidateRefuse, UpdateMisses,
                        TargetRefuse, TargetTaken, RelocateMisses, Commit, DeadlockFail
    <3> QED BY <2>1, <3>1, <3>2, <3>3 DEF Statement
  <2>2. CASE Crash(s) BY <1>5, <2>2 DEF Crash
  <2>3. ASSUME NEW q, NEW offered, StartPlacing(s, q, offered)
        PROVE  \E v : todo' = [todo EXCEPT ![s] = v]
    BY <2>3 DEF StartPlacing
  <2>4. CASE Place(s)
    <3>1. \E q, offered : StartPlacing(s, q, offered)
      BY <2>4, ZenonT(30) DEF Place, RequestPlace, RequestWalkIn, RequestChange
    <3> QED BY <1>4, <2>3, <3>1
  <2>5. CASE RequestReassign(s) BY <2>5 DEF RequestReassign
  <2>6. ASSUME NEW i, NEW to, NEW a, NEW at, StartTransition(s, i, to, a, at)
        PROVE  todo' = todo
    BY <2>6 DEF StartTransition
  <2> QED BY <1>4, <2>1, <2>2, <2>4, <2>5, <2>6 DEF Acts
<1> QED BY <1>1, <1>2, <1>6

-----------------------------------------------------------------------------
(* Capacities stay as they are. *)

Constant == capacity = InitCapacity /\ \A s \in Sessions : req[s].caps = InitCapacity

(* No capacity is offered to the owner, so none is ever changed or read      *)
(* changed.                                                                  *)
LEMMA ConstantStep == Capacities = {} /\ Typing /\ Constant /\ [Next]_vars => Constant'
BY CapacitiesCome DEF CapsCome, Constant

(* The capacities are those of the start.                                    *)
LEMMA ConstantInit == Init => Constant BY DEF Init, Constant, NoReq

-----------------------------------------------------------------------------
(* The ledger's copy of the rules. *)

(* It has the same states and the same table of transitions ... *)
LEMMA LedgerTable ==
  /\ Ledger!Statuses = Statuses /\ Ledger!Occupying = Occupying /\ Ledger!RULES = RULES
  /\ \A from, to : Ledger!Allowed(from, to) <=> Allowed(from, to)
<1>1. Ledger!Statuses = Statuses BY DEF Ledger!Statuses, Statuses
<1>2. Ledger!Occupying = Occupying BY DEF Ledger!Occupying, Occupying
<1>3. Ledger!RULES = RULES BY DEF Ledger!RULES, RULES, Ledger!Rule, Rule
<1> QED BY <1>1, <1>2, <1>3 DEF Ledger!Allowed, Allowed

(* ... and the same occupancy tests. *)
LEMMA LedgerRooms ==
  /\ \A range, party, t, r, perSlot, seats :
       Ledger!FitsNew(range, party, t, r, perSlot, seats) <=>
         FitsNew(range, party, t, r, perSlot, seats)
  /\ \A id, range, party, excl, t, r, seats :
       Ledger!FitsExisting(id, range, party, excl, t, r, seats) <=>
         FitsExisting(id, range, party, excl, t, r, seats)
<1>1. \A t, r : Ledger!OccupyingOn(t, r) = OccupyingOn(t, r)
  BY LedgerTable DEF Ledger!OccupyingOn, OccupyingOn
<1>2. \A a, b : Ledger!Overlaps(a, b) <=> Overlaps(a, b) BY DEF Ledger!Overlaps, Overlaps
<1>3. \A a, b : Ledger!Lesser(a, b) = Lesser(a, b) BY DEF Ledger!Lesser, Lesser
<1>4. \A range, t, ids : Ledger!PeakOccupancy(range, t, ids) = PeakOccupancy(range, t, ids)
  <2> SUFFICES ASSUME NEW range, NEW t, NEW ids
               PROVE  Ledger!PeakOccupancy(range, t, ids) = PeakOccupancy(range, t, ids)
    OBVIOUS
  <2> DEFINE hit == {i \in ids : Overlaps(t[i], range)}
             points == {range.lo} \cup {t[i].lo : i \in {j \in hit : t[j].lo >= range.lo}}
             sums == {PartyAt(t, hit, p) : p \in points}
             sums2 == {Ledger!PartyAt(t, hit, p) : p \in points}
  <2>1. {i \in ids : Ledger!Overlaps(t[i], range)} = hit BY <1>2
  <2>2. \A p : Ledger!PartyAt(t, hit, p) = PartyAt(t, hit, p)
    <3>1. \A p : Ledger!PresentAt(t, hit, p) = PresentAt(t, hit, p)
      BY DEF Ledger!PresentAt, PresentAt
    <3>2. \A among : Ledger!Heads(t, among) = Heads(t, among) BY DEF Ledger!Heads, Heads
    <3>3. \A S : Ledger!Cardinality(S) = Cardinality(S) BY DEF Ledger!Cardinality, Cardinality
    <3> QED BY <3>1, <3>2, <3>3, Zenon DEF Ledger!PartyAt, PartyAt
  <2>3. sums = sums2
    <3> HIDE DEF hit, points
    <3> QED BY <2>2
  <2>4. Ledger!Max(sums) = Max(sums) BY DEF Ledger!Max, Max
  <2>5. Ledger!PeakOccupancy(range, t, ids) = IF hit = {} THEN 0 ELSE Ledger!Max(sums2)
    BY <2>1, Zenon DEF Ledger!PeakOccupancy
  <2>6. PeakOccupancy(range, t, ids) = IF hit = {} THEN 0 ELSE Max(sums)
    BY DEF PeakOccupancy
  <2> HIDE DEF hit, sums, sums2
  <2> QED BY <2>3, <2>4, <2>5, <2>6
<1>5. ASSUME NEW range, NEW party, NEW t, NEW r, NEW perSlot, NEW seats
      PROVE  Ledger!FitsNew(range, party, t, r, perSlot, seats) <=>
               FitsNew(range, party, t, r, perSlot, seats)
  BY <1>1, <1>2, <1>3, <1>4 DEF Ledger!FitsNew, FitsNew
<1>6. ASSUME NEW id, NEW range, NEW party, NEW excl, NEW t, NEW r, NEW seats
      PROVE  Ledger!FitsExisting(id, range, party, excl, t, r, seats) <=>
               FitsExisting(id, range, party, excl, t, r, seats)
  BY <1>1, <1>2, <1>4 DEF Ledger!FitsExisting, FitsExisting
<1> QED BY <1>5, <1>6

-----------------------------------------------------------------------------
(* What a handler has in hand. *)

LinksOf(p) == Catalogue[p].links

(* It places on a linked resource, at a time still to come when it began. *)
Linked(s) ==
  Placing(s) => /\ req[s].at <= req[s].start
                /\ cand[s] \in LinksOf(req[s].prod) /\ todo[s] \subseteq LinksOf(req[s].prod)

(* The row it inserts had room in the rest of the table it sees. *)
Accepted(s, i) ==
  FitsNew(NewRow(s), req[s].party, [View(s) EXCEPT ![i] = NoRow], cand[s],
          Catalogue[req[s].prod].perSlot, InitCapacity[cand[s]])

Canceled(row, at) == [row EXCEPT !.status = "CANCELED_BY_USER", !.canceledAt = at]

(* It writes the row it inserts, and before that what a change cancels. *)
Placed(s) ==
  Placing(s) =>
    /\ \A j \in Ids : New(s, j) => writes[s][j] = NewRow(s)
    /\ \A j \in Ids : Written(s, j) /\ ~New(s, j) =>
         /\ req[s].kind = "CHANGE" /\ j = req[s].id
         /\ writes[s][j] = Canceled(rows[j], req[s].at)
    /\ pc[s] = "commit" => /\ cand[s] \in held[s]
                           /\ \E i \in Ids : New(s, i) /\ Accepted(s, i)

(* A version of a row that a decision makes. *)
Decision(old, new, to) ==
  new = [old EXCEPT !.status = to, !.canceledAt = new.canceledAt, !.noShow = new.noShow]

(* A decision that takes a colleague's request over. *)
TakesOverTo(from, to) == \E rule \in RULES : rule.from = from /\ rule.to = to /\ rule.takeOver

(* There is room for the row on the resource it is to move to. *)
RoomThere(s) ==
  LET i == req[s].id
      seats == InitCapacity[cand[s]]
  IN  FitsExisting(i, rows[i], rows[i].party, seats = 1, rows, cand[s], seats)

(* On its way to a move it has the decision that asks for it, or none. *)
Aimed(s) ==
  LET i == req[s].id
  IN  /\ pc[s] \in Deciding => rows[i].prod = req[s].seen.prod
      /\ pc[s] \in {"target", "move", "relocate"} =>
           /\ cand[s] # req[s].seen.rsrc
           /\ \A j \in Ids : Written(s, j) => j = i
           /\ Written(s, i) => /\ Decision(rows[i], writes[s][i], req[s].to)
                               /\ TakesOverTo(rows[i].status, req[s].to)
           /\ ~Written(s, i) => req[s].to \in Occupying
      /\ pc[s] \in {"move", "relocate"} => cand[s] \in LinksOf(req[s].seen.prod)
      /\ pc[s] = "relocate" => /\ cand[s] \in held[s]
                               /\ req[s].to \in Occupying => RoomThere(s)

(* The row as it was decided on is moved. *)
Moved(s, base) ==
  LET w == writes[s][req[s].id]
  IN  /\ w = [base EXCEPT !.rsrc = cand[s], !.excl = InitCapacity[cand[s]] = 1]
      /\ cand[s] # base.rsrc /\ cand[s] \in LinksOf(rows[req[s].id].prod)
      /\ cand[s] \in held[s]
      /\ base.status \in Occupying => RoomThere(s)

(* In the end it has decided, or moved, or both. *)
Settled(s) ==
  LET i == req[s].id
      w == writes[s][i]
  IN  pc[s] = "commit" /\ ~Placing(s) =>
        /\ i \in Ids /\ rows[i].status # "NONE" /\ Written(s, i)
        /\ \A j \in Ids : Written(s, j) => j = i
        /\ \/ Allowed(rows[i].status, w.status) /\ Decision(rows[i], w, w.status)
           \/ \E base \in Row : /\ Moved(s, base)
                                /\ \/ base = rows[i] /\ base.status \in Occupying
                                   \/ /\ Decision(rows[i], base, base.status)
                                      /\ TakesOverTo(rows[i].status, base.status)

Plan(s) == Linked(s) /\ Placed(s) /\ Aimed(s) /\ Settled(s)

Planned == \A s \in Sessions : Plan(s)

-----------------------------------------------------------------------------
(* What others commit takes nothing away. *)

(* Room on a resource it has locked, for a new row ... *)
LEMMA AcceptedStays ==
  ASSUME Typing, Locking, Timed, Timed', Sold, NEW s \in Sessions, EndsTx(s),
         NEW t \in Sessions, t # s, Placing(t), cand[t] \in held[t], NEW i \in Ids,
         Accepted(t, i)
  PROVE  Accepted(t, i)'
<1> DEFINE before == [View(t) EXCEPT ![i] = NoRow]
           after == [View(t)' EXCEPT ![i] = NoRow]
           r == cand[t]
<1>1. /\ req'[t] = req[t] /\ cand'[t] = r BY DEF EndsTx, OthersStill
<1>2. NewRow(t)' = NewRow(t) BY <1>1 DEF NewRow, NewStatus, Account
<1>3. View(t) \in Table /\ View(t)' \in Table
  BY ViewTimed DEF Timed, Table, View, Written
<1> HIDE DEF r
<1>4. /\ before \in Table /\ DOMAIN before = Ids /\ DOMAIN after = Ids
      /\ \A j \in Ids \ {i} : before[j] = View(t)[j] /\ after[j] = View(t)'[j]
      /\ after[i].status \notin Occupying
  BY <1>3 DEF Table, NoRow, Occupying
<1>5. ASSUME NEW j \in OccupyingOn(after, r) PROVE SameRoom(before[j], after[j])
  <2>1. j \in Ids \ {i} /\ after[j].status \in Occupying /\ after[j].rsrc = r
    BY <1>4 DEF OccupyingOn
  <2> QED BY <1>4, <2>1, CommitUnderLock DEF r
<1>6. OccupyingOn(after, r) \subseteq OccupyingOn(before, r)
  BY <1>4, <1>5 DEF OccupyingOn, SameRoom
<1>7. \A j \in OccupyingOn(after, r) :
        after[j].lo = before[j].lo /\ after[j].hi = before[j].hi /\ after[j].party = before[j].party
  BY <1>5 DEF SameRoom
<1>8. req[t].prod \in Products /\ r \in Resources /\ req[t].party \in Nat
  BY DEF r, Typing, TypeOK, Knows, PlacingKnows, Request
<1> DEFINE perSlot == Catalogue[req[t].prod].perSlot
           seats == InitCapacity[r]
           party == req[t].party
<1>9. perSlot \in Nat /\ seats \in Nat
  BY <1>8, CatalogueAssumption, ResourceAssumption DEF CatalogueType
<1>10. NewRow(t).lo \in Int
  BY <1>8, CatalogueAssumption DEF NewRow, OccupyRange, CatalogueType, Typing, TypeOK, Request
<1>11. IsFiniteSet(OccupyingOn(before, r)) /\ Typed(before, OccupyingOn(before, r))
  BY <1>4, TableTyped
<1>12. FitsNew(NewRow(t), party, before, r, perSlot, seats) BY DEF Accepted, r
<1>13. Accepted(t, i)' <=> FitsNew(NewRow(t), party, after, r, perSlot, seats)
  BY <1>1, <1>2 DEF Accepted
<1>14. party \in Nat BY <1>8
<1> HIDE DEF before, after, perSlot, seats, party
<1> QED BY <1>6, <1>7, <1>9, <1>10, <1>11, <1>12, <1>13, <1>14, NewStillFits

(* ... and for a row that is to move there. *)
LEMMA RoomStays ==
  ASSUME Typing, Locking, Faithful, Timed, Timed', Sold, NEW s \in Sessions, EndsTx(s),
         NEW t \in Sessions, t # s, cand[t] \in Resources, cand[t] \in held[t],
         req[t].id \in Ids, rows[req[t].id].status # "NONE",
         \A j \in Ids : Written(t, j) => j = req[t].id, RoomThere(t)
  PROVE  RoomThere(t)'
<1> DEFINE i == req[t].id
           r == cand[t]
           seats == InitCapacity[r]
           excl == seats = 1
           party == rows[i].party
<1>1. req'[t] = req[t] /\ cand'[t] = r BY DEF EndsTx, OthersStill
<1>2. rows \in Table /\ rows' \in Table BY DEF Timed, Table
<1>3. seats \in Nat BY ResourceAssumption
<1>4. Kept(rows[i], rows'[i]) BY StoredStays
<1>5. rows[i] \in Row BY DEF Typing, TypeOK, NoRow
<1>6. party \in Nat /\ rows[i].lo \in Int BY <1>5 DEF Row
<1>7. rows'[i].lo = rows[i].lo /\ rows'[i].hi = rows[i].hi /\ rows'[i].party = party
  BY <1>4 DEF Kept
<1>8. i \in Ids /\ \A j \in Ids : Written(t, j) => j = i OBVIOUS
<1> HIDE DEF i, r
<1>9. ASSUME NEW j \in OccupyingOn(rows', r) \ {i} PROVE SameRoom(rows[j], rows'[j])
  <2>1. j \in Ids /\ j # i /\ rows'[j].status \in Occupying /\ rows'[j].rsrc = r
    BY <1>2 DEF OccupyingOn, Table
  <2>2. ~Written(t, j) /\ writes'[t] = writes[t] BY <1>8, <2>1 DEF EndsTx, OthersStill
  <2>3. View(t)[j] = rows[j] /\ View(t)'[j] = rows'[j] BY <2>1, <2>2 DEF View, Written
  <2> QED BY <2>1, <2>3, CommitUnderLock DEF r
<1>10. OccupyingOn(rows', r) \ {i} \subseteq OccupyingOn(rows, r) \ {i}
  BY <1>2, <1>9 DEF OccupyingOn, SameRoom, Table
<1>11. \A j \in OccupyingOn(rows', r) \ {i} :
         rows'[j].lo = rows[j].lo /\ rows'[j].hi = rows[j].hi /\ rows'[j].party = rows[j].party
  BY <1>9 DEF SameRoom
<1>12. IsFiniteSet(OccupyingOn(rows, r)) /\ Typed(rows, OccupyingOn(rows, r))
  BY <1>2, TableTyped
<1>13. FitsExisting(i, rows[i], party, excl, rows, r, seats) BY DEF RoomThere, i, r
<1>14. RoomThere(t)' <=> FitsExisting(i, rows'[i], party, excl, rows', r, seats)
  BY <1>1, <1>7 DEF RoomThere, i
<1> HIDE DEF seats, excl, party
<1> QED BY <1>3, <1>6, <1>7, <1>10, <1>11, <1>12, <1>13, <1>14, ExistingStillFits

(* So what a handler has in hand stays in its hand while others work. *)
LEMMA OthersPlanned ==
  ASSUME Typing, Locking, Faithful, Timed, Timed', Sold, NEW s \in Sessions, Acts(s),
         NEW t \in Sessions, t # s, Plan(t)
  PROVE  Plan(t)'
<1> DEFINE i == req[t].id
<1>1. /\ pc'[t] = pc[t] /\ req'[t] = req[t] /\ cand'[t] = cand[t] /\ held'[t] = held[t]
      /\ writes'[t] = writes[t] /\ todo'[t] = todo[t]
  BY OthersWait DEF OthersStill
<1>2. /\ (Placing(t)' <=> Placing(t)) /\ NewRow(t)' = NewRow(t)
      /\ \A j \in Ids : Written(t, j)' <=> Written(t, j)
  BY <1>1 DEF Placing, NewRow, NewStatus, Account, Written
<1>3. rows' = rows \/ EndsTx(s) BY OthersWait
<1>4. \A j \in Ids : Written(t, j) => rows'[j] = rows[j]
  <2>1. ASSUME NEW j \in Ids, Written(t, j) PROVE ~Written(s, j) BY <2>1 DEF Locking, OneHolder
  <2> QED BY <1>3, <2>1 DEF EndsTx, View
<1>5. \A j \in Ids : rows[j].status # "NONE" => rows'[j].status # "NONE" /\ rows'[j].prod = rows[j].prod
  BY <1>3, StoredStays DEF Kept
<1>6. \A j \in Ids : New(t, j)' <=> New(t, j) BY <1>2, <1>4 DEF New
<1>7. Linked(t)' BY <1>1, <1>2 DEF Plan, Linked
<1>8. ASSUME Placing(t), cand[t] \in held[t], NEW j \in Ids, Accepted(t, j) PROVE Accepted(t, j)'
  <2>1. CASE rows' = rows
    <3>1. View(t)' = View(t) BY <1>1, <2>1 DEF View, Written
    <3> QED BY <1>1, <1>2, <1>8, <3>1 DEF Accepted
  <2> QED BY <1>3, <1>8, <2>1, AcceptedStays
<1>9. Placed(t)'
  <2> SUFFICES ASSUME Placing(t) PROVE Placed(t)' BY <1>2 DEF Placed
  <2>1. \A j \in Ids : New(t, j)' => writes'[t][j] = NewRow(t)'
    BY <1>1, <1>2, <1>6 DEF Plan, Placed
  <2>2. ASSUME NEW j \in Ids, Written(t, j), ~New(t, j)
        PROVE  /\ req[t].kind = "CHANGE" /\ j = req[t].id
               /\ writes[t][j] = Canceled(rows'[j], req[t].at)
    BY <1>4, <2>2 DEF Plan, Placed
  <2>3. pc[t] = "commit" => /\ cand[t] \in held[t]
                            /\ \E j \in Ids : New(t, j)' /\ Accepted(t, j)'
    BY <1>6, <1>8 DEF Plan, Placed
  <2> QED BY <1>1, <1>2, <1>6, <2>1, <2>2, <2>3 DEF Placed
<1>10. ASSUME cand[t] \in Resources, cand[t] \in held[t], i \in Ids, rows[i].status # "NONE",
              \A j \in Ids : Written(t, j) => j = i, RoomThere(t)
       PROVE  RoomThere(t)'
  <2>1. CASE rows' = rows BY <1>1, <1>10, <2>1 DEF RoomThere
  <2> QED BY <1>3, <1>10, <2>1, RoomStays
<1>11. pc[t] \in Deciding =>
         i \in Ids /\ rows[i].status # "NONE" /\ rows'[i].prod = rows[i].prod
  BY <1>5 DEF Faithful, About
<1>12. pc[t] \in {"move", "relocate"} => cand[t] \in Resources BY DEF Typing, Knows
<1>13. pc[t] \in {"target", "move", "relocate"} => pc[t] \in Deciding BY DEF Deciding
<1>14. Aimed(t)'
  <2>1. Aimed(t) BY DEF Plan
  <2>2. CASE pc[t] \notin Deciding BY <1>1, <1>13, <2>2 DEF Aimed
  <2>3. CASE pc[t] \in Deciding
    <3>1. rows'[i].prod = req[t].seen.prod BY <1>11, <2>1, <2>3 DEF Aimed
    <3>2. pc[t] \in {"target", "move", "relocate"} =>
            /\ cand[t] # req[t].seen.rsrc
            /\ \A j \in Ids : Written(t, j) => j = i
            /\ Written(t, i) => /\ Decision(rows'[i], writes[t][i], req[t].to)
                                /\ TakesOverTo(rows'[i].status, req[t].to)
            /\ ~Written(t, i) => req[t].to \in Occupying
      BY <1>4, <1>11, <2>1, <2>3 DEF Aimed
    <3>3. pc[t] = "relocate" => /\ cand[t] \in held[t]
                                /\ req[t].to \in Occupying => RoomThere(t)'
      BY <1>10, <1>11, <1>12, <2>1, <2>3 DEF Aimed
    <3> QED BY <1>1, <1>2, <1>11, <2>1, <2>3, <3>1, <3>2, <3>3 DEF Aimed
  <2> QED BY <2>2, <2>3
<1>15. Settled(t)'
  <2>1. CASE ~(pc[t] = "commit" /\ ~Placing(t)) BY <1>1, <1>2, <2>1 DEF Settled
  <2>2. CASE pc[t] = "commit" /\ ~Placing(t)
    <3>1. /\ i \in Ids /\ rows[i].status # "NONE" /\ Written(t, i)
          /\ \A j \in Ids : Written(t, j) => j = i
      BY <2>2 DEF Plan, Settled
    <3>2. rows'[i] = rows[i] BY <1>4, <3>1
    <3>3. rows[i] \in Row BY <3>1 DEF Typing, TypeOK, NoRow
    <3>4. LinksOf(rows[i].prod) \subseteq Resources
      BY <3>3, CatalogueAssumption DEF LinksOf, CatalogueType, Row
    <3>5. ASSUME NEW base, Moved(t, base) PROVE Moved(t, base)'
      BY <1>1, <1>10, <3>1, <3>2, <3>4, <3>5 DEF Moved
    <3>6. Settled(t) BY DEF Plan
    <3> QED BY <1>1, <1>2, <2>2, <3>1, <3>2, <3>5, <3>6 DEF Settled
  <2> QED BY <2>1, <2>2
<1> QED BY <1>7, <1>9, <1>14, <1>15 DEF Plan

-----------------------------------------------------------------------------
(* What a handler's own steps put in its hand. *)

(* A transaction that ends leaves nothing to carry out. *)
LEMMA EndsPlanned ==
  ASSUME Typing, NEW s \in Sessions, EndsTx(s), Linked(s)' PROVE Plan(s)'
<1>1. writes'[s] = NoWrites /\ pc'[s] \in {"idle", "cust"} BY DEF EndsTx
<1>2. \A j \in Ids : ~Written(s, j)' BY <1>1, NoRowIsNone DEF NoWrites, Written
<1>3. Placed(s)' BY <1>1, <1>2 DEF Placed, New
<1>4. Aimed(s)' BY <1>1 DEF Aimed, Deciding
<1>5. Settled(s)' BY <1>1 DEF Settled
<1> QED BY <1>3, <1>4, <1>5 DEF Plan

(* Nor does one that only begins to place. *)
LEMMA PlacePlanned ==
  ASSUME Typing, Locking, NEW s \in Sessions, Place(s) PROVE Plan(s)'
<1>1. /\ Begins(s) /\ pc'[s] = "cust" BY PlaceBegins, PlaceOpens DEF Opened
<1>2. \A j \in Ids : ~Written(s, j)'
  BY <1>1, NothingWritten DEF Begins, Locking, LocksByStep, Clean, Written
<1>3. Placed(s)' BY <1>1, <1>2 DEF Placed, New
<1>4. Aimed(s)' BY <1>1 DEF Aimed, Deciding
<1>5. Settled(s)' BY <1>1 DEF Settled
<1>6. ASSUME NEW q, NEW offered, StartPlacing(s, q, offered), q.at <= q.start,
             offered \subseteq LinksOf(q.prod)
      PROVE  Linked(s)'
  <2>1. PICK r \in offered : /\ req' = [req EXCEPT ![s] = q] /\ cand' = [cand EXCEPT ![s] = r]
                             /\ todo' = [todo EXCEPT ![s] = offered \ {r}]
    BY <1>6 DEF StartPlacing
  <2>2. req'[s] = q /\ cand'[s] = r /\ todo'[s] = offered \ {r}
    BY <2>1 DEF Typing, TypeOK
  <2> QED BY <1>6, <2>2 DEF Linked
<1>7. \A t, p, st, n, pick : Offered(t, p, st, n, pick) \subseteq pick BY DEF Offered
<1>8. \A kind, a, p, st, n :
        LET q == Order(kind, a, p, st, n) IN q.at = now /\ q.start = st /\ q.prod = p
  BY DEF Order, NoReq
<1>9. now \in Nat /\ Policy.minLead \in Nat /\ \A st \in Starts : st \in Nat
  BY ClockAssumption, PolicyAssumption DEF PolicyType, Typing, TypeOK
<1>10. \A st \in Starts : st >= now + Policy.minLead => now <= st BY <1>9
<1>11. \A p : \A pick \in Named(p) \cup Picks(p) : pick \subseteq LinksOf(p)
  BY DEF Named, Picks, LinksOf
<1>12. CASE RequestPlace(s)
  <2>1. PICK c \in Customers, p \in Products, st \in Starts :
         \E n \in PartySizes(p), pick \in Picks(p) :
           /\ st >= now + Policy.minLead
           /\ StartPlacing(s, Order("PLACE", Customer(c), p, st, n),
                           Offered(rows, p, st, n, pick))
    BY <1>12, ZenonT(30) DEF RequestPlace
  <2>2. PICK n \in PartySizes(p), pick \in Picks(p) :
           /\ st >= now + Policy.minLead
           /\ StartPlacing(s, Order("PLACE", Customer(c), p, st, n),
                           Offered(rows, p, st, n, pick))
    BY <2>1
  <2>3. Offered(rows, p, st, n, pick) \subseteq LinksOf(p) /\ now <= st
    BY <1>7, <1>10, <1>11, <2>2
  <2>4. Linked(s)' BY <1>6, <1>8, <2>2, <2>3
  <2> QED BY <1>3, <1>4, <1>5, <2>4 DEF Plan
<1>13. CASE RequestWalkIn(s)
  <2>1. PICK p \in Products, st \in Starts :
         \E n \in PartySizes(p), pick \in Named(p) :
           /\ st >= now
           /\ StartPlacing(s, Order("WALKIN", Owner, p, st, n),
                           Offered(rows, p, st, n, pick))
    BY <1>13, ZenonT(30) DEF RequestWalkIn
  <2>2. PICK n \in PartySizes(p), pick \in Named(p) :
           /\ st >= now
           /\ StartPlacing(s, Order("WALKIN", Owner, p, st, n),
                           Offered(rows, p, st, n, pick))
    BY <2>1
  <2>3. Offered(rows, p, st, n, pick) \subseteq LinksOf(p) /\ now <= st
    BY <1>7, <1>9, <1>11, <2>2
  <2>4. Linked(s)' BY <1>6, <1>8, <2>2, <2>3
  <2> QED BY <1>3, <1>4, <1>5, <2>4 DEF Plan
<1>14. CASE RequestChange(s)
  <2> DEFINE q(i, st, n) ==
        [Order("CHANGE", Customer(rows[i].cust), rows[i].prod, st, n) EXCEPT
           !.id = i, !.seen = rows[i],
           !.force = ~BeforeCancelDeadline(rows[i], now, Policy.cancelDeadline)]
  <2>1. PICK i \in Ids, st \in Starts :
         /\ st >= now + Policy.minLead
         /\ \E n \in PartySizes(rows[i].prod), pick \in Picks(rows[i].prod) :
              StartPlacing(s, q(i, st, n),
                           Offered([rows EXCEPT ![i] = NoRow], rows[i].prod, st, n, pick))
    BY <1>14, ZenonT(30) DEF RequestChange
  <2>2. PICK n \in PartySizes(rows[i].prod), pick \in Picks(rows[i].prod) :
          StartPlacing(s, q(i, st, n),
                       Offered([rows EXCEPT ![i] = NoRow], rows[i].prod, st, n, pick))
    BY <2>1, Zenon
  <2>3. /\ q(i, st, n).at = now /\ q(i, st, n).start = st /\ q(i, st, n).prod = rows[i].prod
    BY DEF Order, NoReq
  <2>4. /\ Offered([rows EXCEPT ![i] = NoRow], rows[i].prod, st, n, pick)
             \subseteq LinksOf(rows[i].prod)
        /\ now <= st
    BY <1>7, <1>10, <1>11, <2>1, <2>2
  <2> HIDE DEF q
  <2>5. Linked(s)' BY <1>6, <2>2, <2>3, <2>4
  <2> QED BY <1>3, <1>4, <1>5, <2>5 DEF Plan
<1> QED BY <1>12, <1>13, <1>14 DEF Place

(* A decision is about a row of its product; a move of the owner's is of a   *)
(* live row to another resource.                                             *)
LEMMA DecidingPlanned ==
  ASSUME Typing, Locking, NEW s \in Sessions,
         RequestReassign(s) \/ (pc[s] = "idle" /\ \E i \in Ids : \E to, a, at : StartTransition(s, i, to, a, at))
  PROVE  Plan(s)'
<1>1. CASE RequestReassign(s)
  <2> DEFINE q(i) == [NoReq EXCEPT !.kind = "REASSIGN", !.at = now, !.actor = Owner,
                                   !.to = rows[i].status, !.id = i, !.seen = rows[i]]
  <2>1. PICK i \in Ids, r \in Resources :
          /\ rows[i].status \in Occupying /\ rows[i].rsrc # r
          /\ pc'   = [pc EXCEPT ![s] = "target"]
          /\ req'  = [req EXCEPT ![s] = q(i)]
          /\ cand' = [cand EXCEPT ![s] = r]
    BY <1>1, ZenonT(30) DEF RequestReassign
  <2>2. /\ q(i).id = i /\ q(i).seen = rows[i] /\ q(i).to = rows[i].status /\ q(i).kind = "REASSIGN"
    BY DEF NoReq
  <2> HIDE DEF q
  <2>3. req'[s] = q(i) /\ cand'[s] = r /\ pc'[s] = "target" BY <2>1 DEF Typing, TypeOK
  <2>4. Begins(s) BY <1>1, ReassignBegins
  <2>5. \A j \in Ids : ~Written(s, j)'
    BY <2>4, NothingWritten DEF Begins, Locking, LocksByStep, Clean, Written
  <2>6. rows' = rows BY <2>4 DEF Begins
  <2>7. Linked(s)' /\ Placed(s)' BY <2>2, <2>3 DEF Linked, Placed, Placing
  <2>8. Aimed(s)' BY <2>1, <2>2, <2>3, <2>5, <2>6 DEF Aimed
  <2>9. Settled(s)' BY <2>3 DEF Settled
  <2> QED BY <2>7, <2>8, <2>9 DEF Plan
<1>2. ASSUME pc[s] = "idle", NEW i \in Ids, NEW to, NEW a, NEW at, StartTransition(s, i, to, a, at)
      PROVE  Plan(s)'
  <2> DEFINE q == [NoReq EXCEPT !.kind = "TRANSITION", !.at = at, !.actor = a, !.to = to,
                                !.id = i, !.seen = rows[i], !.caps = capacity]
             next == IF RuleFor(rows[i].status, to).revalidate THEN "validate" ELSE "update"
  <2>1. req' = [req EXCEPT ![s] = q] /\ pc' = [pc EXCEPT ![s] = next] /\ rows' = rows
    BY <1>2, Zenon DEF StartTransition, db
  <2>2. q.id = i /\ q.seen = rows[i] /\ q.kind = "TRANSITION" BY DEF NoReq
  <2>3. next \in {"validate", "update"} OBVIOUS
  <2> HIDE DEF q, next
  <2>4. req'[s] = q /\ pc'[s] \in {"validate", "update"} BY <2>1, <2>3 DEF Typing, TypeOK
  <2>5. Linked(s)' /\ Placed(s)' BY <2>2, <2>4 DEF Linked, Placed, Placing
  <2>6. Aimed(s)' BY <2>1, <2>2, <2>4 DEF Aimed
  <2>7. Settled(s)' BY <2>4 DEF Settled
  <2> QED BY <2>5, <2>6, <2>7 DEF Plan
<1> QED BY <1>1, <1>2

(* While it places, it keeps its candidates and writes what it is to write. *)
LEMMA InsertPlanned ==
  ASSUME Typing, Locking, Timed, Constant, NEW s \in Sessions, Plan(s), InsertRow(s)
  PROVE  Plan(s)'
<1>1. PICK i \in FreeIds : \E e : Writes(s, i, NewRow(s), e) BY InsertRowWrites
<1>2. /\ pc'[s] = "commit" /\ Placing(s) /\ Room(s) /\ cand[s] \in Resources
      /\ held' = [held EXCEPT ![s] = @ \cup {cand[s]}]
  BY InsertRowWrites
<1>3. UNCHANGED <<req, cand, todo>> BY DEF InsertRow, Goto
<1>4. /\ i \in Ids /\ rows' = rows /\ NewRow(s) \in Row
      /\ writes'[s] = [writes[s] EXCEPT ![i] = NewRow(s)]
  BY <1>1 DEF Writes
<1>5. rows[i].status = "NONE" /\ ~Written(s, i) BY DEF FreeIds
<1>6. /\ writes'[s][i] = NewRow(s)
      /\ \A j \in Ids \ {i} : writes'[s][j] = writes[s][j]
  BY <1>4 DEF Typing, TypeOK
<1>7. /\ (Placing(s)' <=> Placing(s)) /\ NewRow(s)' = NewRow(s) /\ cand[s] \in held'[s]
      /\ New(s, i)' /\ \A j \in Ids \ {i} : (Written(s, j)' <=> Written(s, j))
  BY <1>2, <1>3, <1>4, <1>5, <1>6, RealRow
     DEF Placing, NewRow, NewStatus, Account, New, Written, Typing, TypeOK
<1>8. [View(s)' EXCEPT ![i] = NoRow] = View(s)
  <2>1. View(s) \in [Ids -> Row \cup {NoRow}] BY ViewTimed DEF Table
  <2>2. View(s)[i] = NoRow
    <3>1. View(s)[i] = rows[i] BY <1>4, <1>5 DEF View
    <3> QED BY <1>4, <1>5, <3>1, RealRow DEF Typing, TypeOK
  <2>3. \A j \in Ids \ {i} : View(s)'[j] = View(s)[j] BY <1>4, <1>6 DEF View, Written
  <2>4. DOMAIN View(s)' = Ids BY DEF View
  <2> DEFINE u == View(s)'
             v == View(s)
  <2>5. /\ DOMAIN u = Ids /\ v \in [Ids -> Row \cup {NoRow}] /\ v[i] = NoRow
        /\ \A j \in Ids \ {i} : u[j] = v[j]
    BY <2>1, <2>2, <2>3, <2>4
  <2>6. u = [j \in Ids |-> u[j]] BY DEF View
  <2> HIDE DEF u, v
  <2>7. [u EXCEPT ![i] = NoRow] = v BY <1>4, <2>5, <2>6
  <2> QED BY <2>7 DEF u, v
<1>9. Accepted(s, i)'
  <2> DEFINE r == cand[s]
             perSlot == Catalogue[req[s].prod].perSlot
             seats == InitCapacity[r]
             range == OccupyRange(req[s].prod, req[s].start)
             party == req[s].party
  <2>1. req[s].caps = InitCapacity BY DEF Constant
  <2>2. FitsNew(range, party, View(s), r, perSlot, seats) BY <1>2, <2>1 DEF Room
  <2>3. req[s].prod \in Products /\ party \in Nat /\ req[s].start \in Nat
    BY <1>2 DEF Typing, TypeOK, Knows, PlacingKnows, Request
  <2>4. perSlot \in Nat /\ seats \in Nat /\ range.lo \in Int
    BY <1>2, <2>3, CatalogueAssumption, ResourceAssumption DEF CatalogueType, OccupyRange
  <2>5. NewRow(s).lo = range.lo /\ NewRow(s).hi = range.hi BY DEF NewRow
  <2>6. IsFiniteSet(OccupyingOn(View(s), r)) /\ Typed(View(s), OccupyingOn(View(s), r))
    BY ViewTimed, TableTyped
  <2>7. Accepted(s, i)' <=> FitsNew(NewRow(s), party, View(s), r, perSlot, seats)
    BY <1>3, <1>7, <1>8 DEF Accepted
  <2>8. \A j \in OccupyingOn(View(s), r) :
          /\ View(s)[j].lo = View(s)[j].lo /\ View(s)[j].hi = View(s)[j].hi
          /\ View(s)[j].party = View(s)[j].party
    OBVIOUS
  <2>9. party \in Nat BY <2>3
  <2> HIDE DEF r, perSlot, seats, range, party
  <2> QED BY <2>2, <2>4, <2>5, <2>6, <2>7, <2>8, <2>9, NewStillFits
<1>10. Linked(s)' BY <1>3, <1>7 DEF Plan, Linked
<1>11. Placed(s)'
  <2>1. \A j \in Ids : New(s, j)' => writes'[s][j] = NewRow(s)
    BY <1>2, <1>4, <1>6, <1>7 DEF Plan, Placed, New
  <2>2. ASSUME NEW j \in Ids, Written(s, j)', ~New(s, j)'
        PROVE  /\ req[s].kind = "CHANGE" /\ j = req[s].id
               /\ writes'[s][j] = Canceled(rows[j], req[s].at)
    <3>1. j # i /\ Written(s, j) /\ ~New(s, j) /\ writes'[s][j] = writes[s][j]
      BY <1>4, <1>6, <1>7, <2>2 DEF New
    <3> QED BY <1>2, <3>1 DEF Plan, Placed
  <2>3. i \in Ids BY <1>4
  <2> QED BY <1>3, <1>4, <1>7, <1>9, <2>1, <2>2, <2>3 DEF Placed
<1>12. Aimed(s)' BY <1>2 DEF Aimed, Deciding
<1>13. Settled(s)' BY <1>2, <1>7 DEF Settled
<1> QED BY <1>10, <1>11, <1>12, <1>13 DEF Plan

(* What a change cancels is the first that it writes. *)
LEMMA CancelPlanned ==
  ASSUME Typing, Locking, NEW s \in Sessions, Plan(s), CancelOld(s)
  PROVE  Plan(s)'
<1> DEFINE i == req[s].id
           row == Canceled(rows[i], req[s].at)
<1>1. /\ pc[s] = "old" /\ pc'[s] = "limits" /\ i \in Ids /\ rows[i].status \in Occupying
      /\ \E e : Writes(s, i, row, e)
  BY CancelOldWrites, Zenon DEF Canceled
<1>2. UNCHANGED <<req, cand, todo>> BY DEF CancelOld, Goto
<1>3. rows' = rows /\ writes'[s] = [writes[s] EXCEPT ![i] = row] BY <1>1 DEF Writes
<1>4. \A j \in Ids : ~Written(s, j) BY <1>1, NothingWritten DEF Locking, LocksByStep
<1>5. \A j \in Ids : writes'[s][j] = IF j = i THEN row ELSE writes[s][j]
  BY <1>3 DEF Typing, TypeOK
<1>6. \A j \in Ids : Written(s, j)' => j = i BY <1>4, <1>5 DEF Written
<1>7. req[s].kind = "CHANGE" /\ (Placing(s)' <=> Placing(s))
  BY <1>1, <1>2 DEF Typing, Knows, Placing
<1>8. \A j \in Ids : ~New(s, j)' BY <1>1, <1>3, <1>6 DEF New, Occupying
<1>9. Linked(s)' BY <1>2, <1>7 DEF Plan, Linked
<1>10. Placed(s)'
  <2>1. \A j \in Ids : Written(s, j)' => j = req'[s].id /\ writes'[s][j] = Canceled(rows'[j], req'[s].at)
    BY <1>2, <1>3, <1>5, <1>6
  <2> HIDE DEF i, row
  <2> QED BY <1>1, <1>2, <1>7, <1>8, <2>1 DEF Placed
<1>11. Aimed(s)' BY <1>1 DEF Aimed, Deciding
<1>12. Settled(s)' BY <1>1 DEF Settled
<1> QED BY <1>9, <1>10, <1>11, <1>12 DEF Plan

(* Any version with another status, and what goes with it, is a decision. *)
LEMMA Decisions ==
  ASSUME NEW old \in Row, NEW to, NEW c, NEW n
  PROVE  LET new == [old EXCEPT !.status = to, !.canceledAt = c, !.noShow = n]
         IN  Decision(old, new, to)
BY DEF Decision, Row

(* A decision writes the row it is about, and names who takes it over. *)
LEMMA UpdatePlanned ==
  ASSUME Typing, Locking, NEW s \in Sessions, Plan(s), Update(s)
  PROVE  Plan(s)'
<1> DEFINE q == req[s]
           i == q.id
           row == Transitioned(rows[i], q.to, q.at, q.actor)
<1>1. /\ pc[s] = "update" /\ i \in Ids /\ Allowed(q.seen.status, q.to)
      /\ rows[i] \in Row /\ rows[i].status = q.seen.status
      /\ \E e : Writes(s, i, row, e)
  BY UpdateWrites, Zenon
<1>2. UNCHANGED <<req, todo>> BY DEF Update, Goto
<1>3. rows' = rows /\ writes'[s] = [writes[s] EXCEPT ![i] = row] /\ row \in Row
  BY <1>1 DEF Writes
<1>4. \A j \in Ids : ~Written(s, j) BY <1>1, NothingWritten DEF Locking, LocksByStep, Clean
<1>5. \A j \in Ids : writes'[s][j] = IF j = i THEN row ELSE writes[s][j]
  BY <1>3 DEF Typing, TypeOK
<1>6. /\ \A j \in Ids : Written(s, j)' => j = i
      /\ Written(s, i)' /\ writes'[s][i] = row
  BY <1>1, <1>2, <1>3, <1>4, <1>5, RealRow DEF Written
<1>7. DecidingKnows(s) BY <1>1 DEF Typing, Knows
<1>8. ~Placing(s)' BY <1>2, <1>7 DEF DecidingKnows, Placing
<1>9. row.status = q.to /\ Decision(rows[i], row, q.to)
  <2>1. row.status = q.to BY <1>1, TransitionedKeeps
  <2>2. PICK c, n : row = [rows[i] EXCEPT !.status = q.to, !.canceledAt = c, !.noShow = n]
    BY Zenon DEF Transitioned
  <2>3. Decision(rows[i], row, q.to)
    <3> HIDE DEF row, q, i
    <3>1. Decision(rows[i], [rows[i] EXCEPT !.status = q.to, !.canceledAt = c, !.noShow = n], q.to)
      BY <1>1, Decisions, Zenon
    <3> QED BY <2>2, <3>1, Zenon
  <2> QED BY <2>1, <2>3
<1>10. rows[i].prod = q.seen.prod BY <1>1 DEF Plan, Aimed, Deciding
<1>11. Linked(s)' /\ Placed(s)' BY <1>8 DEF Linked, Placed
<1> HIDE DEF q, i, row
<1>12. CASE TakesOver(s)
  <2>1. PICK own \in Resources \cup {None} :
          /\ \/ own # None /\ MemberOf[own] = q.actor.who
             \/ own = None /\ \A r \in Resources : MemberOf[r] # q.actor.who
          /\ pc' = [pc EXCEPT ![s] = "target"] /\ cand' = [cand EXCEPT ![s] = own]
    BY <1>12 DEF Update, q
  <2>2. pc'[s] = "target" /\ cand'[s] = own BY <2>1 DEF Typing, TypeOK
  <2>3. own # q.seen.rsrc
    <3>1. MemberOf[q.seen.rsrc] \notin {None, q.actor.who} BY <1>12 DEF TakesOver, q
    <3>2. q.seen.rsrc \in Resources BY <1>7, RowFields DEF DecidingKnows, q
    <3> QED BY <2>1, <3>1, <3>2, NamesAssumption
  <2>4. TakesOverTo(rows[i].status, q.to)
    <3>1. RuleFor(q.seen.status, q.to).takeOver BY <1>12 DEF TakesOver, q
    <3>2. /\ RuleFor(q.seen.status, q.to) \in RULES
          /\ RuleFor(q.seen.status, q.to).from = q.seen.status
          /\ RuleFor(q.seen.status, q.to).to = q.to
      BY <1>1, Zenon DEF Allowed, RuleFor
    <3> QED BY <1>1, <3>1, <3>2, Zenon DEF TakesOverTo
  <2>5. Aimed(s)'
    BY <1>2, <1>3, <1>6, <1>9, <1>10, <2>2, <2>3, <2>4 DEF Aimed, q, i
  <2>6. Settled(s)' BY <2>2 DEF Settled
  <2> QED BY <1>11, <2>5, <2>6 DEF Plan
<1>13. CASE ~TakesOver(s)
  <2>1. pc'[s] = "commit" BY <1>13 DEF Update, Goto, Typing, TypeOK
  <2>2. Aimed(s)' BY <2>1 DEF Aimed, Deciding
  <2>3. rows[i].status # "NONE" BY <1>1, RealRow
  <2>4. Allowed(rows[i].status, row.status) /\ Decision(rows[i], row, row.status)
    BY <1>1, <1>9
  <2>5. Settled(s)' BY <1>1, <1>2, <1>3, <1>6, <2>3, <2>4 DEF Settled, q, i
  <2> QED BY <1>11, <2>2, <2>5 DEF Plan
<1> QED BY <1>12, <1>13

(* Statements that only read, or take the lock of the target. *)
LEMMA TargetPlanned ==
  ASSUME Typing, Faithful, Timed, Constant, NEW s \in Sessions, Plan(s),
         Validate(s) \/ ReadTarget(s) \/ LockTarget(s)
  PROVE  Plan(s)'
<1> DEFINE i == req[s].id
           seen == req[s].seen
           r == cand[s]
<1>1. /\ rows' = rows /\ writes' = writes /\ cand' = cand
      /\ req'[s].id = i /\ req'[s].seen = seen /\ req'[s].to = req[s].to
      /\ req'[s].kind = req[s].kind
  <2>1. CASE ReadTarget(s)
    <3>1. req[s] \in Request /\ req'[s] = [req[s] EXCEPT !.caps = capacity]
      BY <2>1 DEF ReadTarget, Typing, TypeOK
    <3> QED BY <2>1, <3>1 DEF ReadTarget, Request, db, tx
  <2> QED BY <2>1 DEF Validate, LockTarget, Goto, db, tx
<1>2. /\ pc[s] \in {"validate", "target", "move"} /\ pc[s] \in Deciding
      /\ pc[s] = "validate" => pc'[s] = "update"
      /\ pc[s] = "target" => pc'[s] = "move" /\ r \in LinksOf(seen.prod)
      /\ pc[s] = "move" => /\ pc'[s] = "relocate" /\ r \in held'[s] /\ TargetFits(s)
                           /\ req' = req
  <2>1. CASE Validate(s) BY <2>1 DEF Validate, Goto, Deciding, Typing, TypeOK
  <2>2. CASE ReadTarget(s)
    BY <2>2 DEF ReadTarget, TargetUsable, LinksOf, Deciding, Typing, TypeOK
  <2>3. CASE LockTarget(s) BY <2>3, LockTargetTakes DEF Deciding, Typing, TypeOK
  <2> QED BY <2>1, <2>2, <2>3
<1>3. DecidingKnows(s) BY <1>2 DEF Typing, Knows
<1>4. Linked(s)' /\ Placed(s)' BY <1>1, <1>3 DEF DecidingKnows, Placing, Linked, Placed
<1>5. \A j \in Ids : Written(s, j)' <=> Written(s, j) BY <1>1 DEF Written
<1>6. Aimed(s) BY DEF Plan
<1>7. i \in Ids /\ rows[i].prod = seen.prod BY <1>2, <1>3, <1>6 DEF Aimed, DecidingKnows
<1>8. ASSUME pc[s] = "move", req[s].to \in Occupying PROVE RoomThere(s)'
  <2> DEFINE seats == InitCapacity[r]
             party == rows[i].party
             excl == seats = 1
  <2>1. /\ rows[i].lo = seen.lo /\ rows[i].hi = seen.hi /\ party = seen.party
        /\ rows[i] \in Row
    BY <1>2 DEF Faithful, About, Typing, TypeOK, NoRow
  <2>2. r \in Resources BY <1>8 DEF Typing, Knows
  <2>3. req[s].caps = InitCapacity BY DEF Constant
  <2>4. FitsExisting(i, seen, party, excl, View(s), r, seats)
    BY <1>2, <1>8, <2>1, <2>3 DEF TargetFits
  <2>5. \A j \in Ids : Written(s, j) => j = i BY <1>6, <1>8 DEF Aimed
  <2>6. rows \in Table /\ View(s) \in Table BY ViewTimed DEF Timed
  <2>7. \A j \in Ids \ {i} : View(s)[j] = rows[j] BY <2>5 DEF View
  <2> HIDE DEF r, i, seen
  <2>8. OccupyingOn(rows, r) \ {i} \subseteq OccupyingOn(View(s), r) \ {i}
    BY <2>6, <2>7 DEF OccupyingOn, Table
  <2>9. \A j \in OccupyingOn(rows, r) \ {i} :
          /\ rows[j].lo = View(s)[j].lo /\ rows[j].hi = View(s)[j].hi
          /\ rows[j].party = View(s)[j].party
    BY <2>6, <2>7 DEF OccupyingOn, Table
  <2>10. seats \in Nat /\ party \in Nat /\ seen.lo \in Int
    BY <2>1, <2>2, ResourceAssumption DEF Row
  <2>11. IsFiniteSet(OccupyingOn(View(s), r)) /\ Typed(View(s), OccupyingOn(View(s), r))
    BY <2>6, TableTyped
  <2>12. RoomThere(s)' <=> FitsExisting(i, rows[i], party, excl, rows, r, seats)
    BY <1>1, <1>2, <1>8 DEF RoomThere, r, i, seen
  <2> HIDE DEF seats, party, excl
  <2> QED BY <2>1, <2>4, <2>8, <2>9, <2>10, <2>11, <2>12, ExistingStillFits
<1>9. Aimed(s)'
  <2>1. pc[s] \in {"target", "move"} =>
          /\ r # seen.rsrc /\ \A j \in Ids : Written(s, j) => j = i
          /\ Written(s, i) => /\ Decision(rows[i], writes[s][i], req[s].to)
                              /\ TakesOverTo(rows[i].status, req[s].to)
          /\ ~Written(s, i) => req[s].to \in Occupying
    BY <1>6 DEF Aimed
  <2>2. pc[s] = "move" => r \in LinksOf(seen.prod) BY <1>6 DEF Aimed
  <2>3. CASE pc[s] = "validate" BY <1>1, <1>2, <1>7, <2>3 DEF Aimed
  <2>4. CASE pc[s] = "target" BY <1>1, <1>2, <1>5, <1>7, <2>1, <2>4 DEF Aimed
  <2>5. CASE pc[s] = "move" BY <1>1, <1>2, <1>5, <1>7, <1>8, <2>1, <2>2, <2>5 DEF Aimed
  <2> QED BY <1>2, <2>3, <2>4, <2>5
<1>10. Settled(s)' BY <1>2 DEF Settled
<1> QED BY <1>4, <1>9, <1>10 DEF Plan

(* A move writes the row as decided, on the new resource. *)
LEMMA RelocatePlanned ==
  ASSUME Typing, Faithful, Constant, NEW s \in Sessions, Plan(s), Relocate(s)
  PROVE  Plan(s)'
<1>1. PICK i \in Ids, base \in Row, row \in Row :
        i = req[s].id /\ base = View(s)[i] /\ row = Relocated(s) /\ \E e : Writes(s, i, row, e)
  <2>1. /\ req[s].id \in Ids /\ View(s)[req[s].id] \in Row
        /\ \E e : Writes(s, req[s].id, Relocated(s), e)
    BY RelocateWrites
  <2>2. Relocated(s) \in Row BY <2>1 DEF Writes
  <2> QED BY <2>1, <2>2, Zenon
<1>2. /\ pc[s] = "relocate" /\ pc'[s] = "commit" /\ held' = held
      /\ base.rsrc = req[s].seen.rsrc /\ base.status = req[s].to
  BY <1>1, RelocateWrites
<1>3. UNCHANGED <<req, cand>> BY DEF Relocate, Goto
<1>4. rows' = rows /\ writes'[s] = [writes[s] EXCEPT ![i] = row] BY <1>1 DEF Writes
<1>5. \A j \in Ids : writes'[s][j] = IF j = i THEN row ELSE writes[s][j]
  BY <1>4 DEF Typing, TypeOK
<1>6. DecidingKnows(s) BY <1>2 DEF Typing, Knows
<1>7. ~Placing(s)' BY <1>3, <1>6 DEF DecidingKnows, Placing
<1>8. Linked(s)' /\ Placed(s)' BY <1>7 DEF Linked, Placed
<1>9. Aimed(s)' BY <1>2 DEF Aimed, Deciding
<1>10. /\ rows[i].prod = req[s].seen.prod /\ cand[s] # req[s].seen.rsrc
       /\ \A j \in Ids : Written(s, j) => j = i
       /\ Written(s, i) => /\ Decision(rows[i], writes[s][i], req[s].to)
                           /\ TakesOverTo(rows[i].status, req[s].to)
       /\ ~Written(s, i) => req[s].to \in Occupying
       /\ cand[s] \in LinksOf(req[s].seen.prod) /\ cand[s] \in held[s]
       /\ req[s].to \in Occupying => RoomThere(s)
  BY <1>1, <1>2 DEF Plan, Aimed, Deciding
<1>11. /\ \A j \in Ids : Written(s, j)' => j = i
       /\ Written(s, i)' /\ writes'[s][i] = row
  BY <1>5, <1>10, RealRow DEF Written
<1>12. row = [base EXCEPT !.rsrc = cand[s], !.excl = InitCapacity[cand[s]] = 1]
  BY <1>1 DEF Relocated, Constant
<1>13. rows[i].status # "NONE" BY <1>1, <1>2 DEF Faithful, About, Deciding
<1>14. RoomThere(s)' <=> RoomThere(s) BY <1>3, <1>4 DEF RoomThere
<1>15. Moved(s, base)'
  BY <1>1, <1>2, <1>3, <1>4, <1>10, <1>11, <1>12, <1>14 DEF Moved
<1>16. \/ base = rows[i] /\ base.status \in Occupying
       \/ Decision(rows[i], base, base.status) /\ TakesOverTo(rows[i].status, base.status)
  BY <1>1, <1>2, <1>10 DEF View
<1>17. Settled(s)'
  BY <1>1, <1>2, <1>3, <1>4, <1>11, <1>13, <1>15, <1>16 DEF Settled
<1> QED BY <1>8, <1>9, <1>17 DEF Plan

(* Every step of its own leaves a handler with all it needs. *)
LEMMA OwnPlanned ==
  ASSUME Typing, Locking, Faithful, Timed, Constant, NEW s \in Sessions, Acts(s), Plan(s)
  PROVE  Plan(s)'
<1>1. ASSUME Rollback(s), rows' = rows \/ (pc[s] = "commit" /\ rows' = View(s)) PROVE Plan(s)'
  <2>1. req'[s] = NoReq BY <1>1 DEF Rollback, Leave, Typing, TypeOK
  <2>2. Linked(s)' BY <2>1 DEF NoReq, Placing, Linked
  <2> QED BY <1>1, <2>2, RollbackEnds, EndsPlanned
<1>2. CASE LockCustomer(s) \/ LimitsPass(s)
  <2>1. /\ UNCHANGED <<rows, req, cand, todo, writes>>
        /\ pc'[s] \in {"old", "limits", "slot"}
    BY <1>2, LockCustomerTakes DEF LockCustomer, LimitsPass, Goto, db, tx, Typing, TypeOK
  <2>2. Linked(s)' BY <2>1 DEF Plan, Linked, Placing
  <2>3. Placed(s)'
    <3>1. NewRow(s)' = NewRow(s) BY <2>1 DEF NewRow, NewStatus, Account
    <3> QED BY <2>1, <3>1 DEF Plan, Placed, Placing, New, Written
  <2>4. Aimed(s)' BY <2>1 DEF Aimed, Deciding
  <2>5. Settled(s)' BY <2>1 DEF Settled
  <2> QED BY <2>2, <2>3, <2>4, <2>5 DEF Plan
<1>3. CASE SlotTaken(s) /\ ~Leave(s)
  <2>1. PICK r \in todo[s] :
          /\ pc' = [pc EXCEPT ![s] = "cust"] /\ cand' = [cand EXCEPT ![s] = r]
          /\ todo' = [todo EXCEPT ![s] = @ \ {r}] /\ UNCHANGED req
    BY <1>3 DEF SlotTaken
  <2>2. EndsTx(s)
    BY <1>3, <2>1 DEF SlotTaken, DropTx, EndsTx, OthersStill, Typing, TypeOK, db
  <2>3. cand'[s] = r /\ todo'[s] \subseteq todo[s] BY <2>1 DEF Typing, TypeOK
  <2>4. Linked(s)' BY <2>1, <2>3 DEF Plan, Linked, Placing
  <2> QED BY <2>2, <2>4, EndsPlanned
<1>4. CASE SlotTaken(s) /\ Leave(s)
  <2>1. Rollback(s) /\ rows' = rows BY <1>4 DEF SlotTaken, Rollback, db
  <2> QED BY <1>1, <2>1
<1>5. CASE DeadlockRetry(s)
  <2>1. EndsTx(s)
    BY <1>5 DEF DeadlockRetry, DropTx, EndsTx, OthersStill, Typing, TypeOK, db
  <2>2. Linked(s)' BY <1>5 DEF DeadlockRetry, Plan, Linked, Placing
  <2> QED BY <2>1, <2>2, EndsPlanned
<1>6. CASE \/ OldGone(s) \/ LimitsRefuse(s) \/ ProductDeleted(s) \/ ValidateRefuse(s)
           \/ UpdateMisses(s) \/ TargetRefuse(s) \/ TargetTaken(s) \/ RelocateMisses(s)
           \/ Commit(s) \/ DeadlockFail(s) \/ Crash(s)
  BY <1>1, <1>6 DEF OldGone, LimitsRefuse, ProductDeleted, ValidateRefuse, UpdateMisses,
                    TargetRefuse, TargetTaken, RelocateMisses, Commit, DeadlockFail, Crash, db
<1>7. CASE InsertRow(s) \/ CancelOld(s) BY <1>7, InsertPlanned, CancelPlanned
<1>8. CASE Update(s) \/ Relocate(s) BY <1>8, UpdatePlanned, RelocatePlanned
<1>9. CASE Validate(s) \/ ReadTarget(s) \/ LockTarget(s) BY <1>9, TargetPlanned
<1>10. CASE Place(s) BY <1>10, PlacePlanned
<1>11. CASE \/ RequestReassign(s)
            \/ pc[s] = "idle" /\ \E i \in Ids : \E to, a, at : StartTransition(s, i, to, a, at)
  BY <1>11, DecidingPlanned
<1>12. CASE Statement(s)
  BY <1>2, <1>3, <1>4, <1>5, <1>6, <1>7, <1>8, <1>9, <1>12 DEF Statement
<1> QED BY <1>6, <1>10, <1>11, <1>12 DEF Acts

(* Planned is an invariant. *)
LEMMA PlannedStep ==
  Typing /\ Locking /\ Faithful /\ Timed /\ Timed' /\ Sold /\ Constant /\ Planned /\ [Next]_vars
    => Planned'
<1> SUFFICES ASSUME Typing, Locking, Faithful, Timed, Timed', Sold, Constant, Planned, [Next]_vars
             PROVE  Planned'
  OBVIOUS
<1>1. CASE Still
  <2> SUFFICES ASSUME NEW t \in Sessions PROVE Plan(t)' BY DEF Planned
  <2>1. Plan(t) BY DEF Planned
  <2>2. /\ View(t)' = View(t) /\ NewRow(t)' = NewRow(t) /\ (Placing(t)' <=> Placing(t))
        /\ \A j : Written(t, j)' <=> Written(t, j)
    BY <1>1 DEF Still, View, Written, NewRow, NewStatus, Account, Placing
  <2>3. (RoomThere(t)' <=> RoomThere(t)) /\ \A j \in Ids : New(t, j)' <=> New(t, j)
    BY <1>1, <2>2 DEF Still, RoomThere, New
  <2>4. \A j \in Ids : Accepted(t, j)' <=> Accepted(t, j) BY <1>1, <2>2 DEF Still, Accepted
  <2>5. Linked(t)' BY <1>1, <2>1, <2>2 DEF Still, Plan, Linked
  <2>6. Placed(t)' BY <1>1, <2>1, <2>2, <2>3, <2>4 DEF Still, Plan, Placed
  <2>7. Aimed(t)' BY <1>1, <2>1, <2>2, <2>3 DEF Still, Plan, Aimed
  <2>8. ASSUME NEW base PROVE Moved(t, base)' <=> Moved(t, base)
    <3>1. UNCHANGED <<rows, req, cand, held, writes>> BY <1>1 DEF Still
    <3> QED BY <2>3, <3>1, Zenon DEF Moved
  <2>9. Settled(t)'
    <3>1. Settled(t) /\ UNCHANGED <<rows, pc, req, writes>> BY <1>1, <2>1 DEF Still, Plan
    <3> QED BY <2>2, <2>8, <3>1 DEF Settled
  <2> QED BY <2>5, <2>6, <2>7, <2>9 DEF Plan
<1>2. ASSUME NEW s \in Sessions, Acts(s) PROVE Planned'
  BY <1>2, OwnPlanned, OthersPlanned DEF Planned
<1> QED BY <1>1, <1>2, Actors

(* At the start nobody handles anything.                                     *)
LEMMA PlannedInit == Init => Planned
<1> SUFFICES ASSUME Init, NEW s \in Sessions PROVE Plan(s) BY DEF Planned
<1>1. pc[s] = "idle" /\ req[s] = NoReq BY DEF Init
<1>2. ~Placing(s) BY <1>1 DEF Placing, NoReq
<1> QED BY <1>1, <1>2 DEF Plan, Linked, Placed, Aimed, Settled, Deciding

-----------------------------------------------------------------------------
(* A commit is one step of the ledger. *)

(* What a placing handler commits was acceptable in the table without it. *)
LEMMA CommitAcceptable ==
  ASSUME Typing, Faithful, Ordered, Limited, Timed, Planned, NEW s \in Sessions, Commit(s),
         Placing(s), NEW i \in Ids, New(s, i), Accepted(s, i)
  PROVE  /\ rows'[i] = NewRow(s) /\ Ledger!Acceptable(i, [View(s) EXCEPT ![i] = NoRow])
         /\ UNCHANGED now
<1> DEFINE t == [View(s) EXCEPT ![i] = NoRow]
           row == NewRow(s)
<1>1. rows' = View(s) /\ pc[s] = "commit" /\ UNCHANGED now BY DEF Commit
<1>2. Plan(s) /\ Linked(s) BY DEF Planned, Plan
<1>3. View(s)[i] = row /\ rows'[i] = row
  BY <1>1, <1>2 DEF Plan, Placed, New, View
<1>4. /\ row \in Row /\ row.status \in Occupying /\ row.rsrc = cand[s] /\ row.party = req[s].party
      /\ row.prod = req[s].prod /\ row.cust = Account(s) /\ row.start = req[s].start
      /\ row.via = "WEB" => req[s].kind # "WALKIN"
  BY NewRowType DEF NewRow, Occupying
<1>5. row.rsrc \in Catalogue[row.prod].links BY <1>2, <1>4 DEF Linked, LinksOf
<1>6. FitsNew(row, row.party, t, row.rsrc, Catalogue[row.prod].perSlot, InitCapacity[row.rsrc])
  BY <1>4 DEF Accepted
<1>7. row.via = "WEB" => Ledger!Cardinality(Ledger!UpcomingOf(t, row.cust, row.prod)) < Policy.maxActive
  <2> SUFFICES ASSUME row.via = "WEB"
               PROVE  Ledger!Cardinality(Ledger!UpcomingOf(t, row.cust, row.prod)) < Policy.maxActive
    OBVIOUS
  <2> DEFINE at == req[s].at
             counted == ActiveOf(View(s), Account(s), req[s].prod, at)
             others == Ledger!UpcomingOf(t, row.cust, row.prod)
  <2>1. Cardinality(counted) <= Policy.maxActive
    BY <1>1, <1>4 DEF Limited, Counted
  <2>2. counted \subseteq Ids BY DEF ActiveOf
  <2>3. IsFiniteSet(counted) BY <2>2, IdsAssumption, FS_Subset
  <2>4. i \in counted
    <3>1. View(s)[i].start >= at BY <1>2, <1>3, <1>4 DEF Linked, Typing, TypeOK, Request
    <3> QED BY <1>3, <1>4, <3>1 DEF ActiveOf
  <2>5. at \in Nat /\ at <= now /\ now \in Nat
    BY RequestTime, ClockAssumption DEF Ordered, Ordering, Typing, TypeOK
  <2>6. others \subseteq counted \ {i}
    <3> SUFFICES ASSUME NEW j \in others PROVE j \in counted \ {i} OBVIOUS
    <3>1. /\ j \in Ids /\ t[j].cust = row.cust /\ t[j].prod = row.prod
          /\ t[j].status \in Occupying /\ t[j].start >= now
      BY LedgerTable DEF Ledger!UpcomingOf
    <3>2. DOMAIN View(s) = Ids BY DEF View
    <3>3. t[i] = NoRow /\ (j # i => t[j] = View(s)[j]) BY <3>1, <3>2
    <3>4. j # i BY <3>1, <3>3 DEF NoRow, Occupying
    <3>5. View(s)[j].start \in Nat BY <3>1, ViewRow
    <3>6. View(s)[j].start >= at BY <2>5, <3>1, <3>3, <3>4, <3>5
    <3> QED BY <1>4, <3>1, <3>3, <3>4, <3>6 DEF ActiveOf
  <2> HIDE DEF counted, others
  <2>7. /\ Cardinality(counted \ {i}) = Cardinality(counted) - 1
        /\ IsFiniteSet(counted \ {i}) /\ Cardinality(counted) \in Nat
    BY <2>3, <2>4, FS_RemoveElement, FS_CardinalityType
  <2>8. Cardinality(others) <= Cardinality(counted \ {i}) /\ Cardinality(others) \in Nat
    BY <2>6, <2>7, FS_Subset, FS_CardinalityType
  <2>9. Ledger!Cardinality(others) = Cardinality(others)
    BY DEF Ledger!Cardinality, Cardinality
  <2>10. Policy.maxActive \in Nat BY PolicyAssumption DEF PolicyType
  <2>11. \A a, b, m \in Nat : a <= b - 1 /\ b <= m => a < m OBVIOUS
  <2>12. Cardinality(others) < Policy.maxActive
    BY <2>1, <2>7, <2>8, <2>10, <2>11
  <2> QED BY <2>9, <2>12, Zenon DEF others
<1> HIDE DEF t, row
<1>8. Ledger!Acceptable(i, t)
  BY <1>3, <1>4, <1>5, <1>6, <1>7, LedgerTable, LedgerRooms, Zenon DEF Ledger!Acceptable
<1> QED BY <1>1, <1>3, <1>8 DEF t, row

(* A reservation placed, or changed. *)
LEMMA PlacedInLedger ==
  ASSUME Typing, Faithful, Ordered, Limited, Timed, Planned, NEW s \in Sessions, Commit(s),
         Placing(s)
  PROVE  Ledger!Next
<1>1. rows' = View(s) /\ pc[s] = "commit" BY DEF Commit
<1>2. Placed(s) BY DEF Planned, Plan
<1>3. PICK i \in Ids : New(s, i) /\ Accepted(s, i) BY <1>1, <1>2 DEF Placed
<1>4. /\ rows'[i] = NewRow(s) /\ Ledger!Acceptable(i, [View(s) EXCEPT ![i] = NoRow])
      /\ UNCHANGED now
  BY <1>3, CommitAcceptable
<1>5. \A j \in Ids : New(s, j) => j = i BY <1>3 DEF Ordered, Pending
<1>6. rows \in Table /\ View(s) \in Table BY ViewTimed DEF Timed
<1>7. rows[i] = NoRow /\ Ledger!Absent(i)
  <2>1. rows[i].status = "NONE" BY <1>3 DEF New
  <2> QED BY <1>6, <2>1, RealRow DEF Table, Ledger!Absent
<1>8. NewRow(s).replaces = req[s].id BY DEF NewRow
<1>9. CASE req[s].kind # "CHANGE"
  <2>1. req[s].id = None BY <1>9 DEF Ordered, Ordering
  <2>2. \A j \in Ids \ {i} : View(s)[j] = rows[j]
    BY <1>2, <1>5, <1>9 DEF Placed, View
  <2>3. [View(s) EXCEPT ![i] = NoRow] = rows
    <3> DEFINE v == View(s)
    <3>1. v = [j \in Ids |-> v[j]] BY DEF View
    <3>2. rows \in [Ids -> Row \cup {NoRow}] BY <1>6 DEF Table
    <3> HIDE DEF v
    <3>3. \A j \in Ids \ {i} : v[j] = rows[j] BY <2>2 DEF v
    <3>4. [v EXCEPT ![i] = NoRow] = rows BY <1>7, <3>1, <3>2, <3>3
    <3> QED BY <3>4 DEF v
  <2>4. rows' = [rows EXCEPT ![i] = rows'[i]]
    <3>1. rows' = [j \in Ids |-> rows'[j]] BY <1>1 DEF View
    <3>2. rows \in [Ids -> Row \cup {NoRow}] BY <1>6 DEF Table
    <3>3. \A j \in Ids \ {i} : rows'[j] = rows[j] BY <1>1, <2>2
    <3> QED BY <3>1, <3>2, <3>3
  <2>5. Ledger!Acceptable(i, rows) BY <1>4, <2>3
  <2>6. rows'[i].replaces = None BY <1>4, <1>8, <2>1
  <2>7. Ledger!Place(i)
    BY <1>7, <2>4, <2>5, <2>6, Zenon DEF Ledger!Place, Ledger!OnlyRow
  <2> QED BY <1>4, <2>7, Zenon DEF Ledger!Next
<1>10. CASE req[s].kind = "CHANGE"
  <2> DEFINE o == req[s].id
  <2>1. /\ o \in Ids /\ rows[o].cust = Account(s) /\ rows[o].prod = req[s].prod
        /\ Written(s, o) /\ rows[o].status \in Occupying
    BY <1>1, <1>10 DEF Ordered, Ordering, Typing, Knows, PlacingKnows
  <2>2. ~New(s, o) /\ o # i BY <1>3, <2>1 DEF New, Occupying
  <2>3. rows'[o] = Canceled(rows[o], req[s].at)
    BY <1>1, <1>2, <2>1, <2>2 DEF Placed, View
  <2>4. \A j \in Ids \ {i, o} : View(s)[j] = rows[j]
    BY <1>2, <1>5 DEF Placed, View
  <2> DEFINE t == [rows EXCEPT ![o] = rows'[o]]
  <2> HIDE DEF o
  <2>5. [View(s) EXCEPT ![i] = NoRow] = t
    <3> DEFINE v == View(s)
    <3>1. v = [j \in Ids |-> v[j]] /\ v[o] = rows'[o] BY <1>1 DEF View
    <3>2. rows \in [Ids -> Row \cup {NoRow}] BY <1>6 DEF Table
    <3> HIDE DEF v
    <3>3. \A j \in Ids \ {i, o} : v[j] = rows[j] BY <2>4 DEF v
    <3>4. [v EXCEPT ![i] = NoRow] = t BY <1>7, <2>1, <2>2, <3>1, <3>2, <3>3
    <3> QED BY <3>4 DEF v
  <2>6. rows' = [t EXCEPT ![i] = rows'[i]]
    <3>1. rows' = [j \in Ids |-> rows'[j]] BY <1>1 DEF View
    <3>2. rows \in [Ids -> Row \cup {NoRow}] BY <1>6 DEF Table
    <3>3. \A j \in Ids \ {i, o} : rows'[j] = rows[j] BY <1>1, <2>4
    <3> QED BY <2>1, <3>1, <3>2, <3>3
  <2>7. rows'[o] = [rows[o] EXCEPT !.status = "CANCELED_BY_USER", !.canceledAt = rows'[o].canceledAt]
    <3>1. rows[o] \in Row BY <1>6, <2>1, NoRowIsNone DEF Table, Occupying
    <3>2. \A old \in Row : \A at : Canceled(old, at).canceledAt = at BY DEF Canceled, Row
    <3>3. rows'[o].canceledAt = req[s].at BY <2>3, <3>1, <3>2
    <3> QED BY <2>3, <3>3, Zenon DEF Canceled
  <2>8. Ledger!Live(o) BY <2>1, LedgerTable DEF Ledger!Live
  <2>9. rows'[i].replaces = o /\ rows'[i].cust = rows[o].cust /\ rows'[i].prod = rows[o].prod
    BY <1>4, <1>8, <2>1 DEF NewRow, o
  <2>10. Ledger!Acceptable(i, t) BY <1>4, <2>5
  <2>11. Ledger!Change(o, i)
    BY <1>7, <2>6, <2>7, <2>8, <2>9, <2>10, Zenon DEF Ledger!Change
  <2> QED BY <1>4, <2>1, <2>11, Zenon DEF Ledger!Next
<1> QED BY <1>9, <1>10

(* A row moved, as it was or as it was decided. *)
LEMMA MovedInLedger ==
  ASSUME Typing, Timed, NEW s \in Sessions, NEW i \in Ids, i = req[s].id,
         rows'[i] = writes[s][i], Ledger!OnlyRow(i), rows[i] \in Row, NEW base \in Row,
         base = rows[i] \/ Decision(rows[i], base, base.status), Moved(s, base)
  PROVE  cand[s] \in Resources /\ Ledger!MovedTo(i, base, cand[s])
<1> DEFINE r == cand[s]
           seats == InitCapacity[r]
           excl == seats = 1
           party == rows[i].party
<1>1. /\ base.prod = rows[i].prod /\ base.lo = rows[i].lo /\ base.hi = rows[i].hi
      /\ base.party = party
  <2>1. CASE base = rows[i] BY <2>1
  <2>2. CASE Decision(rows[i], base, base.status)
    <3>1. \A a \in Row : \A b, to, c, n :
            b = [a EXCEPT !.status = to, !.canceledAt = c, !.noShow = n] =>
              b.prod = a.prod /\ b.lo = a.lo /\ b.hi = a.hi /\ b.party = a.party
      BY DEF Row
    <3> DEFINE to == base.status
               c == base.canceledAt
               n == base.noShow
    <3>2. base = [rows[i] EXCEPT !.status = to, !.canceledAt = c, !.noShow = n]
      BY <2>2 DEF Decision
    <3> HIDE DEF to, c, n
    <3>3. base.prod = rows[i].prod BY <3>1, <3>2, Zenon
    <3>4. base.lo = rows[i].lo BY <3>1, <3>2, Zenon
    <3>5. base.hi = rows[i].hi BY <3>1, <3>2, Zenon
    <3>6. base.party = rows[i].party BY <3>1, <3>2, Zenon
    <3> QED BY <3>3, <3>4, <3>5, <3>6
  <2> QED BY <2>1, <2>2
<1>2. /\ rows'[i] = [base EXCEPT !.rsrc = r, !.excl = excl]
      /\ r # base.rsrc /\ r \in LinksOf(base.prod)
      /\ base.status \in Occupying => RoomThere(s)
  BY <1>1 DEF Moved
<1>3. r \in Resources
  BY <1>2, CatalogueAssumption DEF LinksOf, CatalogueType, Row
<1>4. base.status \in Occupying => FitsExisting(i, base, base.party, excl, rows, r, seats)
  <2> SUFFICES ASSUME base.status \in Occupying
               PROVE  FitsExisting(i, base, base.party, excl, rows, r, seats)
    OBVIOUS
  <2>1. FitsExisting(i, rows[i], party, excl, rows, r, seats) BY <1>2 DEF RoomThere
  <2>2. rows \in Table BY DEF Timed
  <2>3. IsFiniteSet(OccupyingOn(rows, r)) /\ Typed(rows, OccupyingOn(rows, r))
    BY <2>2, TableTyped
  <2>4. seats \in Nat /\ party \in Nat /\ rows[i].lo \in Int
    BY <1>3, ResourceAssumption DEF Row
  <2>5. \A j \in OccupyingOn(rows, r) \ {i} :
          rows[j].lo = rows[j].lo /\ rows[j].hi = rows[j].hi /\ rows[j].party = rows[j].party
    OBVIOUS
  <2> HIDE DEF r, seats, excl, party
  <2> QED BY <1>1, <2>1, <2>3, <2>4, <2>5, ExistingStillFits
<1>5. base.status \in Ledger!Occupying =>
        Ledger!FitsExisting(i, base, base.party, excl, rows, r, seats)
  BY <1>4, LedgerTable, LedgerRooms
<1> QED BY <1>2, <1>3, <1>5, Zenon DEF Ledger!MovedTo, LinksOf

(* A reservation decided on, moved, or both. *)
LEMMA SettledInLedger ==
  ASSUME Typing, Timed, Planned, NEW s \in Sessions, Commit(s), ~Placing(s)
  PROVE  Ledger!Next
<1>1. rows' = View(s) /\ pc[s] = "commit" /\ UNCHANGED now BY DEF Commit
<1>2. Settled(s) BY DEF Planned, Plan
<1>3. PICK i \in Ids : i = req[s].id BY <1>1, <1>2 DEF Settled
<1>4. /\ rows[i].status # "NONE" /\ Written(s, i)
      /\ \A j \in Ids : Written(s, j) => j = i
  BY <1>1, <1>2, <1>3 DEF Settled
<1>5. /\ rows \in [Ids -> Row \cup {NoRow}] /\ rows[i] \in Row /\ writes[s][i] \in Row
  BY <1>4 DEF Typing, TypeOK, NoRow, Written
<1>6. rows'[i] = writes[s][i] /\ \A j \in Ids \ {i} : rows'[j] = rows[j]
  BY <1>1, <1>4 DEF View
<1>7. Ledger!OnlyRow(i)
  <2>1. rows' = [j \in Ids |-> rows'[j]] BY <1>1 DEF View
  <2>2. rows' = [rows EXCEPT ![i] = rows'[i]] BY <1>5, <1>6, <2>1
  <2> QED BY <2>2 DEF Ledger!OnlyRow
<1>8. ~Ledger!Absent(i) BY <1>4 DEF Ledger!Absent
<1> DEFINE w == writes[s][i]
<1>9. CASE Allowed(rows[i].status, w.status) /\ Decision(rows[i], w, w.status)
  <2>1. w.status \in Ledger!Statuses BY <1>5, LedgerTable, RowFields
  <2>2. rows'[i] = Ledger!Decided(i, w.status)
    BY <1>6, <1>9, Zenon DEF Decision, Ledger!Decided
  <2>3. Ledger!Decide(i, w.status)
    BY <1>7, <1>8, <1>9, <2>2, LedgerTable, Zenon DEF Ledger!Decide
  <2> QED BY <1>1, <2>1, <2>3, Zenon DEF Ledger!Next
<1>10. ASSUME NEW base \in Row, Moved(s, base), base = rows[i], base.status \in Occupying
       PROVE  Ledger!Next
  <2>1. cand[s] \in Resources /\ Ledger!MovedTo(i, base, cand[s])
    BY <1>3, <1>5, <1>6, <1>7, <1>10, MovedInLedger
  <2>2. Ledger!Live(i) BY <1>10, LedgerTable DEF Ledger!Live
  <2>3. Ledger!Move(i, cand[s]) BY <1>10, <2>1, <2>2, Zenon DEF Ledger!Move
  <2> QED BY <1>1, <2>1, <2>3, Zenon DEF Ledger!Next
<1>11. ASSUME NEW base \in Row, Moved(s, base), Decision(rows[i], base, base.status),
              TakesOverTo(rows[i].status, base.status)
       PROVE  Ledger!Next
  <2> DEFINE to == base.status
  <2>1. cand[s] \in Resources /\ Ledger!MovedTo(i, base, cand[s])
    BY <1>3, <1>5, <1>6, <1>7, <1>11, MovedInLedger
  <2>2. to \in Ledger!Statuses BY LedgerTable, RowFields
  <2>3. rows'[i].canceledAt = base.canceledAt /\ rows'[i].noShow = base.noShow
    <3>1. \A b \in Row : \A new, r, e :
            new = [b EXCEPT !.rsrc = r, !.excl = e] =>
              new.canceledAt = b.canceledAt /\ new.noShow = b.noShow
      BY DEF Row
    <3>2. writes[s][i] = [base EXCEPT !.rsrc = cand[s], !.excl = InitCapacity[cand[s]] = 1]
      BY <1>3, <1>11, Zenon DEF Moved
    <3>3. PICK r, e : w = [base EXCEPT !.rsrc = r, !.excl = e] BY <3>2, Zenon
    <3> HIDE DEF w
    <3>4. w.canceledAt = base.canceledAt /\ w.noShow = base.noShow BY <3>1, <3>3, Zenon
    <3>5. rows'[i] = w BY <1>6, Zenon DEF w
    <3> QED BY <3>4, <3>5, Zenon
  <2>4. base = Ledger!Decided(i, to) BY <1>11, <2>3, Zenon DEF Decision, Ledger!Decided
  <2>5. \E rule \in Ledger!RULES : rule.from = rows[i].status /\ rule.to = to /\ rule.takeOver
    BY <1>11, LedgerTable, Zenon DEF TakesOverTo
  <2>6. Ledger!MovedTo(i, Ledger!Decided(i, to), cand[s]) BY <2>1, <2>4, Zenon
  <2>7. Ledger!DecideAndMove(i, to, cand[s]) BY <2>5, <2>6, Zenon DEF Ledger!DecideAndMove
  <2> QED BY <1>1, <2>1, <2>2, <2>7, Zenon DEF Ledger!Next
<1> QED BY <1>1, <1>2, <1>3, <1>9, <1>10, <1>11 DEF Settled

-----------------------------------------------------------------------------
(* The table changes only by a commit. *)
LEMMA CommitsChange ==
  ASSUME Typing, [Next]_vars PROVE rows' = rows \/ \E s \in Sessions : Commit(s)
<1>1. CASE Still BY <1>1 DEF Still
<1>2. ASSUME NEW s \in Sessions, Acts(s) PROVE rows' = rows \/ Commit(s)
  <2>1. CASE Statement(s)
    <3>1. CASE \/ LockCustomer(s) \/ CancelOld(s) \/ LimitsPass(s) \/ InsertRow(s) \/ Validate(s)
               \/ Update(s) \/ ReadTarget(s) \/ LockTarget(s) \/ Relocate(s) \/ DeadlockRetry(s)
               \/ DeadlockFail(s)
      BY <3>1 DEF LockCustomer, CancelOld, LimitsPass, InsertRow, Validate, Update, ReadTarget,
                  LockTarget, Relocate, DeadlockRetry, DeadlockFail, db
    <3>2. CASE \/ OldGone(s) \/ LimitsRefuse(s) \/ ProductDeleted(s) \/ ValidateRefuse(s)
               \/ UpdateMisses(s) \/ TargetRefuse(s) \/ TargetTaken(s) \/ RelocateMisses(s)
               \/ SlotTaken(s)
      BY <3>2 DEF OldGone, LimitsRefuse, ProductDeleted, ValidateRefuse, UpdateMisses,
                  TargetRefuse, TargetTaken, RelocateMisses, SlotTaken, db
    <3> QED BY <2>1, <3>1, <3>2 DEF Statement
  <2>2. CASE Crash(s) BY <2>2 DEF Crash, db
  <2>3. CASE ~Statement(s) /\ ~Crash(s)
    <3>1. CASE Place(s) BY <3>1, PlaceBegins DEF Begins
    <3>2. CASE RequestReassign(s) BY <3>2, ReassignBegins DEF Begins
    <3>3. ASSUME pc[s] = "idle", NEW i \in Ids, NEW to, NEW a, NEW at, StartTransition(s, i, to, a, at)
          PROVE  rows' = rows
      BY <3>3, TransitionBegins DEF Begins
    <3> QED BY <1>2, <2>3, <3>1, <3>2, <3>3 DEF Acts
  <2> QED BY <2>1, <2>2, <2>3
<1> QED BY <1>1, <1>2, Actors

(* Every step implements one of the ledger's, or leaves it as it is. *)
LEMMA StepInLedger ==
  Typing /\ Faithful /\ Ordered /\ Limited /\ Timed /\ Planned /\ [Next]_vars
    => [Ledger!Next]_<<now, rows>>
<1> SUFFICES ASSUME Typing, Faithful, Ordered, Limited, Timed, Planned, [Next]_vars
             PROVE  Ledger!Next \/ UNCHANGED <<now, rows>>
  OBVIOUS
<1>1. ASSUME NEW s \in Sessions, Commit(s) PROVE Ledger!Next
  BY <1>1, PlacedInLedger, SettledInLedger
<1>2. CASE rows' = rows
  <2>1. now' >= now BY ClockForward
  <2>2. Ledger!Wait BY <1>2, <2>1 DEF Ledger!Wait
  <2> QED BY <2>2, Zenon DEF Ledger!Next
<1>3. rows' = rows \/ \E s \in Sessions : Commit(s)
  BY CommitsChange
<1> QED BY <1>1, <1>2, <1>3

(* ImplementsLedger for every number of handlers, resources, customers and   *)
(* reservations: while the owner edits no capacity, what create.ts,          *)
(* transitions.ts and console.ts do in transactions of several statements,   *)
(* with reads that may be stale and locks taken one by one, is what a ledger *)
(* does in single steps, each decided on the table as it stands.             *)
THEOREM LedgerImplemented == ASSUME Capacities = {} PROVE Spec => ImplementsLedger
<1>1. Init => Ledger!Init
  BY NoRowIsNone DEF Init, Ledger!Init, Ledger!Absent, NoWrites
<1>2. Init => Limited /\ Timed /\ Bounded /\ Sold /\ Constant /\ Planned
  BY InitSold, InitLimited, ConstantInit, PlannedInit
<1>3. Typing /\ Constant /\ [Next]_vars => Constant' BY ConstantStep
<1> QED BY <1>1, <1>2, <1>3, LimitedStep, TimedStep, BoundedStep, SoldStep, PlannedStep,
           StepInLedger, OrdersFollowed, TypingInvariant, LocksHeldOnce, TransactionsFaithful,
           PTL DEF Spec, ImplementsLedger, Ledger!Spec
=============================================================================
