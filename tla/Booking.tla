------------------------------- MODULE Booking -------------------------------
(***************************************************************************)
(* The reservation engine as it runs: request handlers and batch jobs,     *)
(* each in a PostgreSQL transaction at READ COMMITTED, over one business's *)
(* reservations (features/booking/create.ts, transitions.ts, the owner's   *)
(* reassignment of console.ts), together with the owner's edits that the   *)
(* handlers read without a lock (resource capacity and activity, product   *)
(* status).                                                                *)
(*                                                                         *)
(* A session is one server-side handler.  It moves from one statement that *)
(* can wait, or that reads what another transaction may have committed, to *)
(* the next; `pc` names that statement.  What a handler read before its    *)
(* transaction stays in `req` (its clock, the capacities, the row it       *)
(* loaded) and may be stale when it is used.  A transaction's writes stay  *)
(* in `writes` and are seen by nobody else until Commit; the row locks are *)
(* the rows written, the transaction-scoped advisory locks are `held`.     *)
(*                                                                         *)
(* Time is an integer; all the reservations of the model lie in days of    *)
(* DayLen units.  Opening hours, work schedules and holidays are always    *)
(* open here.  The no_overlap EXCLUDE constraint is not a guard of the     *)
(* model: NoOverlapHolds says that it never has to refuse or to delay a    *)
(* statement of these handlers.                                            *)
(***************************************************************************)
EXTENDS ReservationRules

CONSTANTS
  Ids,          \* reservation ids: numbers, given out in order
  Customers,    \* customers with an account
  WalkIn,       \* the business's internal walk-in account
  Managers,     \* members with the role MANAGER
  Resources,    \* staff and rooms
  Products,
  Workers,      \* sessions serving requests
  Crons,        \* sessions running the batch jobs
  None,         \* "null"
  Catalogue,    \* product -> [links, select, perSlot, maxParty, before, after, duration]
  MemberOf,     \* resource -> the manager it is linked to, or None
  ViewAll,      \* managers with permissions.viewAllReservations
  Unscheduled,  \* resources nobody declared hours for (unconstrainedFor)
  Policy,       \* the business's policy, see PolicyType
  InitCapacity, \* resource -> capacity at the start
  Capacities,   \* the capacities updateResource may store
  Starts,       \* the start times on the grid
  DayLen,       \* length of a calendar day
  MaxTime,      \* bound: the clock stops here
  Traffic,      \* bound: the entry points this instance's clients call
  Targets       \* bound: the states its clients ask reservations to move to

Accounts == Customers \cup {WalkIn}
Sessions == Workers \cup Crons
LockKeys == Accounts \cup Resources   \* 'cust:'||id and resource id

PolicyType == [autoConfirm : BOOLEAN, minLead : Nat, maxActive : Nat \ {0},
               abuseLimit : Nat, cancelDeadline : Nat, requestExpire : Nat,
               autoNoShowAfter : Nat]

CatalogueType == [Products -> [links : SUBSET Resources,
                               select : {"REQUIRED", "OPTIONAL", "AUTO"},
                               perSlot : Nat \ {0}, maxParty : Nat \ {0},
                               before : Nat, after : Nat, duration : Nat \ {0}]]

(* The largest capacity resourceInputSchema lets the owner store. *)
LargestCapacity == 500

ASSUME IdsAssumption == Ids \subseteq Nat /\ IsFiniteSet(Ids)
ASSUME ClockAssumption == MaxTime \in Nat /\ DayLen \in Nat \ {0} /\ Starts \subseteq Nat
ASSUME PolicyAssumption == Policy \in PolicyType
ASSUME CatalogueAssumption == Catalogue \in CatalogueType
ASSUME ResourceAssumption ==
  /\ InitCapacity \in [Resources -> 1..LargestCapacity]
  /\ Capacities \subseteq 1..LargestCapacity
  /\ MemberOf \in [Resources -> Managers \cup {None}]
ASSUME NamesAssumption ==
  /\ WalkIn \notin Customers
  /\ Workers \cap Crons = {}
  /\ None \notin Accounts \cup Managers \cup Resources \cup Products \cup Ids
  /\ Accounts \cap Resources = {}

VARIABLES
  now,        \* the clock
  rows,       \* table reservations, committed: id -> row (NoRow: no such row)
  capacity,   \* resources.capacity
  active,     \* the resources with is_active
  shelf,      \* products.status: ACTIVE, HIDDEN, ARCHIVED, or DELETED
  pc,         \* session -> the statement it is about to run
  req,        \* session -> what its handler knows, read before or early
  cand,       \* session -> the resource it is trying to place on or move to
  todo,       \* session -> the candidates left (place) 
  retried,    \* session -> withDeadlockRetry has used its one retry
  held,       \* session -> advisory locks of its transaction
  writes,     \* session -> its uncommitted rows (NoRow: not written)
  entries,    \* session -> its uncommitted reservation_logs
  batch       \* cron session -> the ids its batch still has to process

db   == <<rows, capacity, active, shelf>>
tx   == <<held, writes, entries>>
vars == <<now, rows, capacity, active, shelf, pc, req, cand, todo, retried,
          held, writes, entries, batch>>

-----------------------------------------------------------------------------
(* Rows, requests and log entries. *)

NoRow == [status |-> "NONE", cust |-> None, prod |-> None, rsrc |-> None,
          start |-> 0, end |-> 0, lo |-> 0, hi |-> 0, party |-> 0,
          excl |-> FALSE, via |-> "NONE", replaces |-> None,
          created |-> 0, canceledAt |-> None, noShow |-> "NONE"]

Row == [status : Statuses, cust : Accounts, prod : Products, rsrc : Resources,
        start : Nat, end : Nat, lo : Int, hi : Int, party : Nat \ {0},
        excl : BOOLEAN, via : {"WEB", "WALK_IN"}, replaces : Ids \cup {None},
        created : Nat, canceledAt : Nat \cup {None},
        noShow : {"NONE", "MANUAL", "AUTO"}]

Actor == [kind : {"CUSTOMER", "CONSOLE", "SYSTEM", "ADMIN"},
          role : {"OWNER", "MANAGER", "NONE"},
          who  : Accounts \cup Managers \cup {None}]

Customer(c) == [kind |-> "CUSTOMER", role |-> "NONE", who |-> c]
Owner       == [kind |-> "CONSOLE", role |-> "OWNER", who |-> None]
Manager(m)  == [kind |-> "CONSOLE", role |-> "MANAGER", who |-> m]
System      == [kind |-> "SYSTEM", role |-> "NONE", who |-> None]
Admin       == [kind |-> "ADMIN", role |-> "NONE", who |-> None]

NoReq == [kind |-> "NONE", at |-> 0, actor |-> System, to |-> "NONE",
          id |-> None, seen |-> NoRow, prod |-> None, start |-> 0,
          party |-> 0, force |-> FALSE, caps |-> InitCapacity]

Request == [kind : {"NONE", "PLACE", "CHANGE", "WALKIN", "TRANSITION", "REASSIGN"},
            at : Nat, actor : Actor, to : Statuses \cup {"NONE"},
            id : Ids \cup {None}, seen : Row \cup {NoRow},
            prod : Products \cup {None}, start : Nat, party : Nat,
            force : BOOLEAN, caps : [Resources -> Nat \ {0}]]

LogEntry == [id : Ids, from : Statuses \cup {"NONE"}, to : Statuses,
             fromRsrc : Resources \cup {None}, toRsrc : Resources \cup {None}]

NoBatch == [to |-> "NONE", at |-> 0, ids |-> {}]

-----------------------------------------------------------------------------
(* What a session sees, and the locks. *)

Written(s, i) == writes[s][i].status # "NONE"

(* The table as session s sees it: committed rows under its own writes. *)
View(s) == [i \in Ids |-> IF Written(s, i) THEN writes[s][i] ELSE rows[i]]

(* Nobody else has an uncommitted version of row i, or holds the key k. *)
RowFree(s, i) == \A t \in Sessions \ {s} : ~Written(t, i)
(* Mutants: one of the two kinds of advisory lock is not taken. *)
NoCustomerLock(s, k) == k \in Resources => \A t \in Sessions \ {s} : k \notin held[t]
NoResourceLock(s, k) == k \in Accounts => \A t \in Sessions \ {s} : k \notin held[t]

KeyFree(s, k) == \A t \in Sessions \ {s} : k \notin held[t]
Hold(s, k)    == held' = [held EXCEPT ![s] = @ \cup {k}]

NoWrites == [i \in Ids |-> NoRow]

(* The transaction of s is over and the handler has answered. *)
Leave(s) ==
  /\ pc'      = [pc EXCEPT ![s] = "idle"]
  /\ req'     = [req EXCEPT ![s] = NoReq]
  /\ cand'    = [cand EXCEPT ![s] = None]
  /\ todo'    = [todo EXCEPT ![s] = {}]
  /\ retried' = [retried EXCEPT ![s] = FALSE]

(* Mutant: session-level locks (pg_advisory_lock) outlive the transaction. *)
DropTxKeepingLocks(s) ==
  /\ writes'  = [writes EXCEPT ![s] = NoWrites]
  /\ entries' = [entries EXCEPT ![s] = {}]
  /\ UNCHANGED held

DropTx(s) ==
  /\ held'    = [held EXCEPT ![s] = {}]
  /\ writes'  = [writes EXCEPT ![s] = NoWrites]
  /\ entries' = [entries EXCEPT ![s] = {}]

Rollback(s) == Leave(s) /\ DropTx(s)

(* Goes on to the statement `next` without touching the request. *)
Goto(s, next) ==
  /\ pc' = [pc EXCEPT ![s] = next]
  /\ UNCHANGED <<req, cand, todo, retried>>

Write(s, i, row, entry) ==
  /\ writes'  = [writes EXCEPT ![s][i] = row]
  /\ entries' = [entries EXCEPT ![s] = @ \cup {entry}]

-----------------------------------------------------------------------------
(* create.ts: placing, changing, walking in. *)

Placing(s) == req[s].kind \in {"PLACE", "CHANGE", "WALKIN"}

(* Bound: a request is only sent while an id is left for its row. *)
IdsLeft == Cardinality({i \in Ids : rows[i].status = "NONE"})
             > Cardinality({s \in Sessions : Placing(s)})

OccupyRange(p, st) == [lo |-> st - Catalogue[p].before,
                 hi |-> st + Catalogue[p].duration + Catalogue[p].after]

(* The request names a linked resource, or leaves the choice to the shop     *)
(* unless resourceSelectMode is REQUIRED.  (NONE works as AUTO.)            *)
Named(p) == {{r} : r \in Catalogue[p].links}
Picks(p) == Named(p) \cup (IF Catalogue[p].select = "REQUIRED" THEN {} ELSE {Catalogue[p].links})

PartySizes(p) == 1..Catalogue[p].maxParty

(* The resources computeSlots offers for this start in the table t. *)
Offered(t, p, st, n, pick) ==
  {r \in pick \cap active :
     FitsNew(OccupyRange(p, st), n, t, r, Catalogue[p].perSlot, capacity[r])}

(* place(): the slot is checked and the candidates are listed from unlocked *)
(* reads; the order of the candidates is left open.                         *)
StartPlacing(s, q, offered) ==
  \E r \in offered :
    /\ pc'   = [pc EXCEPT ![s] = "cust"]
    /\ req'  = [req EXCEPT ![s] = q]
    /\ cand' = [cand EXCEPT ![s] = r]
    /\ todo' = [todo EXCEPT ![s] = offered \ {r}]
    /\ UNCHANGED <<now, db, retried, tx, batch>>

Order(kind, actor, p, st, n) ==
  [NoReq EXCEPT !.kind = kind, !.at = now, !.actor = actor, !.prod = p,
                !.start = st, !.party = n, !.caps = capacity]

RequestPlace(s) ==
  /\ pc[s] = "idle" /\ "PLACE" \in Traffic /\ IdsLeft
  /\ \E c \in Customers, p \in Products, st \in Starts :
     \E n \in PartySizes(p), pick \in Picks(p) :
       /\ shelf[p] = "ACTIVE"
       /\ st >= now + Policy.minLead
       /\ StartPlacing(s, Order("PLACE", Customer(c), p, st, n),
                       Offered(rows, p, st, n, pick))

(* bypassPolicy: no lead time, no limits, and no public gate either; the     *)
(* console always names the resource.  What follows asks nobody's role, so   *)
(* a manager's walk-in is not told from the owner's.                        *)
RequestWalkIn(s) ==
  /\ pc[s] = "idle" /\ "WALKIN" \in Traffic /\ IdsLeft
  /\ \E p \in Products, st \in Starts :
     \E n \in PartySizes(p), pick \in Named(p) :
       /\ shelf[p] # "DELETED"
       /\ st >= now
       /\ StartPlacing(s, Order("WALKIN", Owner, p, st, n),
                       Offered(rows, p, st, n, pick))

(* changeReservation(): the old row is left out of the occupancy. *)
RequestChange(s) ==
  /\ pc[s] = "idle" /\ "CHANGE" \in Traffic /\ IdsLeft
  /\ \E i \in Ids, st \in Starts :
     LET old == rows[i]
         q(n) == [Order("CHANGE", Customer(old.cust), old.prod, st, n) EXCEPT
                    !.id = i, !.seen = old,
                    !.force = ~BeforeCancelDeadline(old, now, Policy.cancelDeadline)]
         without == [rows EXCEPT ![i] = NoRow]
     IN  /\ old.status \in Occupying
         /\ old.cust \in Customers
         /\ old.start > now
         /\ shelf[old.prod] = "ACTIVE"
         /\ st >= now + Policy.minLead
         /\ \E n \in PartySizes(old.prod), pick \in Picks(old.prod) :
              StartPlacing(s, q(n), Offered(without, old.prod, st, n, pick))

Account(s) == IF req[s].kind = "WALKIN" THEN WalkIn ELSE req[s].actor.who

LockCustomer(s) ==
  /\ pc[s] = "cust"
  /\ KeyFree(s, Account(s))
  /\ Hold(s, Account(s))
  /\ Goto(s, CASE req[s].kind = "CHANGE" -> "old"
               [] req[s].kind = "PLACE"  -> "limits"
               [] req[s].kind = "WALKIN" -> "slot")
  /\ UNCHANGED <<now, db, writes, entries, batch>>

(* Mutant: for update without the filter on the status. *)
AnyStatus(row) == row.status # "NONE"

StillLive(row) == row.status \in Occupying

(* select ... for update, then the conditional update of the same row. *)
CancelOld(s) ==
  LET i == req[s].id
      old == rows[i]
  IN  /\ pc[s] = "old" /\ RowFree(s, i)
      /\ StillLive(old)
      /\ Write(s, i, [old EXCEPT !.status = "CANCELED_BY_USER", !.canceledAt = req[s].at],
               [id |-> i, from |-> old.status, to |-> "CANCELED_BY_USER",
                fromRsrc |-> None, toRsrc |-> None])
      /\ Goto(s, "limits")
      /\ UNCHANGED <<now, db, held, batch>>

OldGone(s) ==
  /\ pc[s] = "old" /\ RowFree(s, req[s].id)
  /\ ~StillLive(rows[req[s].id])
  /\ Rollback(s)
  /\ UNCHANGED <<now, db, batch>>

DayStart(t) == t - (t % DayLen)

(* The customer's upcoming live reservations of a product, in table t. *)
ActiveOf(t, c, p, at) ==
  {i \in Ids : /\ t[i].cust = c /\ t[i].prod = p
               /\ t[i].status \in Occupying /\ t[i].start >= at}

(* canceledTodayCount(): cancels no later row replaces. *)
CanceledToday(t, c, since) ==
  {i \in Ids : /\ t[i].cust = c /\ t[i].status = "CANCELED_BY_USER"
               /\ t[i].canceledAt >= since
               /\ \A j \in Ids : t[j].replaces # i}

AbuseCount(t, s) ==
  Cardinality(CanceledToday(t, Account(s), DayStart(req[s].at)))

WithinLimits(s) ==
  /\ Cardinality(ActiveOf(View(s), Account(s), req[s].prod, req[s].at)) < Policy.maxActive
  /\ AbuseCount(View(s), s) <= Policy.abuseLimit

LimitsPass(s) ==
  /\ pc[s] = "limits" /\ WithinLimits(s)
  /\ Goto(s, "slot")
  /\ UNCHANGED <<now, db, tx, batch>>

LimitsRefuse(s) ==
  /\ pc[s] = "limits" /\ ~WithinLimits(s)
  /\ Rollback(s)
  /\ UNCHANGED <<now, db, batch>>

NewStatus(s) ==
  IF req[s].kind = "WALKIN" THEN "CONFIRMED"
  ELSE IF req[s].force \/ cand[s] \in Unscheduled \/ ~Policy.autoConfirm
       THEN "REQUESTED" ELSE "CONFIRMED"

(* The row insertOne stores.  `excl` comes from the capacity read before;    *)
(* `created` (the column's default, the start of the transaction) is taken   *)
(* to be the handler's own clock, cancelDeadlineHours the constant policy.   *)
NewRow(s) ==
  LET q == req[s]
      range == OccupyRange(q.prod, q.start)
  IN  [status |-> NewStatus(s), cust |-> Account(s), prod |-> q.prod,
       rsrc |-> cand[s], start |-> q.start,
       end |-> q.start + Catalogue[q.prod].duration,
       lo |-> range.lo, hi |-> range.hi, party |-> q.party,
       excl |-> q.caps[cand[s]] = 1,
       via |-> IF q.kind = "WALKIN" THEN "WALK_IN" ELSE "WEB",
       replaces |-> q.id, created |-> q.at, canceledAt |-> None, noShow |-> "NONE"]

(* Mutant: no recount, the check before the transaction is trusted. *)
NoRecount(s) == TRUE

(* The recount under the resource lock. *)
Room(s) ==
  FitsNew(OccupyRange(req[s].prod, req[s].start), req[s].party, View(s), cand[s],
          Catalogue[req[s].prod].perSlot, req[s].caps[cand[s]])

FreeIds == {i \in Ids : rows[i].status = "NONE" /\ \A t \in Sessions : ~Written(t, i)}

InsertRow(s) ==
  /\ pc[s] = "slot" /\ KeyFree(s, cand[s])
  /\ shelf[req[s].prod] # "DELETED"
  /\ Room(s)
  /\ \E i \in FreeIds :
       /\ \A j \in FreeIds : i <= j
       /\ Write(s, i, NewRow(s),
                [id |-> i, from |-> "NONE", to |-> NewStatus(s),
                 fromRsrc |-> None, toRsrc |-> cand[s]])
  /\ Hold(s, cand[s])
  /\ Goto(s, "commit")
  /\ UNCHANGED <<now, db, batch>>

(* 409 SLOT_TAKEN: the next candidate, in a new transaction.  The code also *)
(* catches 23P01 here; NoOverlapHolds shows that it is never raised.        *)
SlotTaken(s) ==
  /\ pc[s] = "slot" /\ KeyFree(s, cand[s])
  /\ ~Room(s)
  /\ DropTx(s)
  /\ \/ todo[s] = {} /\ Leave(s)
     \/ \E r \in todo[s] :
          /\ pc'      = [pc EXCEPT ![s] = "cust"]
          /\ cand'    = [cand EXCEPT ![s] = r]
          /\ todo'    = [todo EXCEPT ![s] = @ \ {r}]
          /\ retried' = [retried EXCEPT ![s] = FALSE]
          /\ UNCHANGED req
  /\ UNCHANGED <<now, db, batch>>

(* The product was physically deleted meanwhile: foreign key violation. *)
ProductDeleted(s) ==
  /\ pc[s] = "slot" /\ KeyFree(s, cand[s])
  /\ shelf[req[s].prod] = "DELETED"
  /\ Room(s)
  /\ Rollback(s)
  /\ UNCHANGED <<now, db, batch>>

(* Everything the transaction wrote becomes visible, its locks are freed. *)
Commit(s) ==
  /\ pc[s] = "commit"
  /\ rows' = View(s)
  /\ Rollback(s)
  /\ UNCHANGED <<now, capacity, active, shelf, batch>>

-----------------------------------------------------------------------------
(* transitions.ts: loading, authorising, validating, updating. *)

(* assertVisible and authorize, on the row as loaded. *)
IsOwner(a)   == a.kind = "CONSOLE" /\ a.role = "OWNER"
IsManager(a) == a.kind = "CONSOLE" /\ a.role = "MANAGER"

Visible(row, a) ==
  \/ a.kind \in {"ADMIN", "SYSTEM"}
  \/ a.kind = "CUSTOMER" /\ row.cust = a.who
  \/ IsOwner(a)
  \/ IsManager(a) /\ (a.who \in ViewAll \/ MemberOf[row.rsrc] = a.who)

Authorized(row, a, rule) ==
  /\ a.kind \in rule.by
  /\ rule.ownerOnly => ~IsManager(a)
  /\ IsManager(a) => rule.anyManager \/ MemberOf[row.rsrc] = a.who

(* The first statements of transitionReservation, up to the rule's guard: *)
(* they read the row without a lock.                                      *)
StartTransition(s, i, to, a, at) ==
  LET row  == rows[i]
      rule == RuleFor(row.status, to)
  IN  /\ row.status # "NONE"
      /\ Visible(row, a)
      /\ Allowed(row.status, to)
      /\ Authorized(row, a, rule)
      /\ GuardHolds(rule.guard, row, at, Policy.cancelDeadline)
      /\ rule.revalidate => shelf[row.prod] # "ARCHIVED"
      /\ pc'  = [pc EXCEPT ![s] = IF rule.revalidate THEN "validate" ELSE "update"]
      /\ req' = [req EXCEPT ![s] = [NoReq EXCEPT
                   !.kind = "TRANSITION", !.at = at, !.actor = a, !.to = to,
                   !.id = i, !.seen = row, !.caps = capacity]]
      /\ UNCHANGED <<now, db, cand, todo, retried, tx>>

(* The callers of transitionReservation other than the batch jobs. *)
Callers ==
  (IF "CUSTOMER" \in Traffic THEN {Customer(c) : c \in Customers} ELSE {})
    \cup (IF "MANAGER" \in Traffic THEN {Manager(m) : m \in Managers} ELSE {})
    \cup (IF "OWNER" \in Traffic THEN {Owner} ELSE {})
    \cup (IF "ADMIN" \in Traffic THEN {Admin} ELSE {})

RequestTransition(s) ==
  /\ s \in Workers /\ pc[s] = "idle"
  /\ \E i \in Ids, to \in Targets, a \in Callers : StartTransition(s, i, to, a, now)
  /\ UNCHANGED batch

(* validateExisting, with the capacity and the exclusive flag as loaded. *)
StillFits(s) ==
  LET row == req[s].seen
  IN  FitsExisting(req[s].id, row, row.party, row.excl, View(s), row.rsrc,
                   req[s].caps[row.rsrc])

Validate(s) ==
  /\ pc[s] = "validate" /\ StillFits(s)
  /\ Goto(s, "update")
  /\ UNCHANGED <<now, db, tx, batch>>

ValidateRefuse(s) ==
  /\ pc[s] = "validate" /\ ~StillFits(s)
  /\ Rollback(s)
  /\ UNCHANGED <<now, db, batch>>

(* A manager who decides on a colleague's request takes it over. *)
TakesOver(s) ==
  LET q == req[s]
  IN  /\ RuleFor(q.seen.status, q.to).takeOver
      /\ IsManager(q.actor)
      /\ MemberOf[q.seen.rsrc] \notin {None, q.actor.who}

Transitioned(row, to, at, a) ==
  [row EXCEPT
     !.status = to,
     !.canceledAt = IF to \in {"CANCELED_BY_USER", "CANCELED_BY_BIZ"} THEN at ELSE @,
     !.noShow = CASE to = "NO_SHOW" -> IF a.kind = "SYSTEM" THEN "AUTO" ELSE "MANUAL"
                  [] to = "COMPLETED" /\ row.status = "NO_SHOW" -> "NONE"
                  [] OTHER -> @]

(* Mutant: update ... where id = .. only. *)
AnyStatusUpdates(s) == TRUE

StatusAsLoaded(s) == rows[req[s].id].status = req[s].seen.status

(* update ... where id = .. and status = <status as loaded> *)
Update(s) ==
  LET q == req[s]
  IN  /\ pc[s] = "update" /\ RowFree(s, q.id)
      /\ StatusAsLoaded(s)
      /\ Write(s, q.id, Transitioned(rows[q.id], q.to, q.at, q.actor),
               [id |-> q.id, from |-> q.seen.status, to |-> q.to,
                fromRsrc |-> None, toRsrc |-> None])
      /\ IF TakesOver(s)
         THEN \* ownResourceId of the acting manager
              \E own \in Resources \cup {None} :
                /\ \/ own # None /\ MemberOf[own] = q.actor.who
                   \/ own = None /\ \A r \in Resources : MemberOf[r] # q.actor.who
                /\ pc'   = [pc EXCEPT ![s] = "target"]
                /\ cand' = [cand EXCEPT ![s] = own]
                /\ UNCHANGED <<req, todo, retried>>
         ELSE Goto(s, "commit")
      /\ UNCHANGED <<now, db, held, batch>>

(* Zero rows: somebody else was first. *)
UpdateMisses(s) ==
  /\ pc[s] = "update" /\ RowFree(s, req[s].id)
  /\ ~StatusAsLoaded(s)
  /\ Rollback(s)
  /\ UNCHANGED <<now, db, batch>>

-----------------------------------------------------------------------------
(* moveReservationResource, and console.ts reassignReservation. *)

RequestReassign(s) ==
  /\ s \in Workers /\ pc[s] = "idle" /\ "REASSIGN" \in Traffic
  /\ \E i \in Ids, r \in Resources :
       /\ rows[i].status \in Occupying
       /\ rows[i].rsrc # r
       /\ shelf[rows[i].prod] # "ARCHIVED"
       /\ pc'   = [pc EXCEPT ![s] = "target"]
       /\ req'  = [req EXCEPT ![s] = [NoReq EXCEPT
                     !.kind = "REASSIGN", !.at = now, !.actor = Owner,
                     !.to = rows[i].status, !.id = i, !.seen = rows[i]]]
       /\ cand' = [cand EXCEPT ![s] = r]
  /\ UNCHANGED <<now, db, todo, retried, tx, batch>>

(* The target's capacity is read here, before the resource lock. *)
TargetUsable(s) == cand[s] \in active \cap Catalogue[req[s].seen.prod].links

ReadTarget(s) ==
  /\ pc[s] = "target" /\ TargetUsable(s)
  /\ pc'  = [pc EXCEPT ![s] = "move"]
  /\ req' = [req EXCEPT ![s].caps = capacity]
  /\ UNCHANGED <<now, db, cand, todo, retried, tx, batch>>

TargetRefuse(s) ==
  /\ pc[s] = "target" /\ ~TargetUsable(s)
  /\ Rollback(s)
  /\ UNCHANGED <<now, db, batch>>

(* endsReservation: a rejected row takes no room, so none is asked for. *)
TargetFits(s) ==
  LET row == req[s].seen
      cap == req[s].caps[cand[s]]
  IN  \/ req[s].to \notin Occupying
      \/ FitsExisting(req[s].id, row, row.party, cap = 1, View(s), cand[s], cap)

LockTarget(s) ==
  /\ pc[s] = "move" /\ KeyFree(s, cand[s])
  /\ TargetFits(s)
  /\ Hold(s, cand[s])
  /\ Goto(s, "relocate")
  /\ UNCHANGED <<now, db, writes, entries, batch>>

TargetTaken(s) ==
  /\ pc[s] = "move" /\ KeyFree(s, cand[s])
  /\ ~TargetFits(s)
  /\ Rollback(s)
  /\ UNCHANGED <<now, db, batch>>

Relocated(s) ==
  [View(s)[req[s].id] EXCEPT !.rsrc = cand[s], !.excl = req[s].caps[cand[s]] = 1]

(* Mutant: the update of the move lacks one of its two conditions. *)
RelocateAnyStatus(s) == View(s)[req[s].id].rsrc = req[s].seen.rsrc

(* update ... where resource_id and status are still the ones expected *)
CanRelocate(s) ==
  LET row == View(s)[req[s].id]
  IN  row.rsrc = req[s].seen.rsrc /\ row.status = req[s].to

Relocate(s) ==
  LET i == req[s].id
  IN  /\ pc[s] = "relocate" /\ RowFree(s, i)
      /\ CanRelocate(s)
      /\ Write(s, i, Relocated(s),
               [id |-> i, from |-> req[s].to, to |-> req[s].to,
                fromRsrc |-> req[s].seen.rsrc, toRsrc |-> cand[s]])
      /\ Goto(s, "commit")
      /\ UNCHANGED <<now, db, held, batch>>

RelocateMisses(s) ==
  /\ pc[s] = "relocate" /\ RowFree(s, req[s].id)
  /\ ~CanRelocate(s)
  /\ Rollback(s)
  /\ UNCHANGED <<now, db, batch>>

-----------------------------------------------------------------------------
(* The batch jobs: a list of due ids is read, then each is its own          *)
(* transaction.  A 409 skips the row; any other error ends the batch.       *)

(* A request may wait until whichever comes first. *)
ExpiresAt(row) == Lesser(row.created + Policy.requestExpire, row.start - Policy.minLead)
NoShowAt(row)  == row.end + Policy.autoNoShowAfter

(* Mutant: only what falls due exactly now is listed. *)
DueRequestsNow == {i \in Ids : rows[i].status = "REQUESTED" /\ now = ExpiresAt(rows[i])}

DueRequests == {i \in Ids : rows[i].status = "REQUESTED" /\ now >= ExpiresAt(rows[i])}
DueNoShows  == {i \in Ids : /\ rows[i].status = "CONFIRMED"
                            /\ rows[i].end < now /\ now >= NoShowAt(rows[i])}

StartBatch(s, to, due) ==
  /\ pc[s] = "idle" /\ batch[s].ids = {} /\ due # {}
  /\ batch' = [batch EXCEPT ![s] = [to |-> to, at |-> now, ids |-> due]]
  /\ UNCHANGED <<now, db, pc, req, cand, todo, retried, tx>>

ExpireRequests(s) == "EXPIRE" \in Traffic /\ StartBatch(s, "EXPIRED", DueRequests)
AutoNoShow(s)     == "NOSHOW" \in Traffic /\ StartBatch(s, "NO_SHOW", DueNoShows)

Without(b, i) == IF b.ids = {i} THEN NoBatch ELSE [b EXCEPT !.ids = @ \ {i}]

BatchStep(s) ==
  \E i \in batch[s].ids :
    /\ pc[s] = "idle"
    /\ StartTransition(s, i, batch[s].to, System, batch[s].at)
    /\ batch' = [batch EXCEPT ![s] = Without(@, i)]

(* 409 INVALID_TRANSITION: the table has no such transition any more. *)
BatchSkip(s) ==
  \E i \in batch[s].ids :
    /\ pc[s] = "idle"
    /\ ~Allowed(rows[i].status, batch[s].to)
    /\ batch' = [batch EXCEPT ![s] = Without(@, i)]
    /\ UNCHANGED <<now, db, pc, req, cand, todo, retried, tx>>

(* 403 FORBIDDEN: the table has it, but not for the system. *)
BatchThrows(s) ==
  \E i \in batch[s].ids :
    /\ pc[s] = "idle"
    /\ Allowed(rows[i].status, batch[s].to)
    /\ "SYSTEM" \notin RuleFor(rows[i].status, batch[s].to).by
    /\ batch' = [batch EXCEPT ![s] = NoBatch]
    /\ UNCHANGED <<now, db, pc, req, cand, todo, retried, tx>>

-----------------------------------------------------------------------------
(* Deadlocks, crashes, the owner's edits, time. *)

(* Session s waits for a lock that session t holds. *)
WaitsFor(s, t) ==
  \/ pc[s] = "cust" /\ Account(s) \in held[t]
  \/ pc[s] \in {"slot", "move"} /\ cand[s] \in held[t]
  \/ pc[s] \in {"old", "update", "relocate"} /\ Written(t, req[s].id)

(* s is on a cycle: it waits for one lock, held by one session. *)
Deadlocked(s) ==
  \E S \in SUBSET Sessions :
    /\ s \in S
    /\ \A x \in S : \E y \in S \ {x} : WaitsFor(x, y)
    /\ \A y \in S : \E x \in S \ {y} : WaitsFor(x, y)

(* PostgreSQL aborts one session of the cycle (40P01): insertOne runs once   *)
(* more for the same candidate, everything else fails.                      *)
DeadlockRetry(s) ==
  /\ Deadlocked(s) /\ Placing(s) /\ ~retried[s]
  /\ DropTx(s)
  /\ pc' = [pc EXCEPT ![s] = "cust"]
  /\ retried' = [retried EXCEPT ![s] = TRUE]
  /\ UNCHANGED <<now, db, req, cand, todo, batch>>

EndBatch(s) == batch' = IF s \in Crons THEN [batch EXCEPT ![s] = NoBatch] ELSE batch

DeadlockFail(s) ==
  /\ Deadlocked(s) /\ (Placing(s) => retried[s])
  /\ Rollback(s) /\ EndBatch(s)
  /\ UNCHANGED <<now, db>>

(* The server process dies or loses its connection: the database rolls back. *)
Crash(s) ==
  /\ "CRASH" \in Traffic
  /\ pc[s] # "idle" \/ (s \in Crons /\ batch[s].ids # {})
  /\ Rollback(s) /\ EndBatch(s)
  /\ UNCHANGED <<now, db>>

(* updateResource: no look at the reservations it already has. *)
EditCapacity(r, n) ==
  /\ capacity[r] # n
  /\ capacity' = [capacity EXCEPT ![r] = n]
  /\ UNCHANGED <<rows, active, shelf>>

SetResourceActive(r) ==
  /\ "ACTIVE" \in Traffic
  /\ active' = IF r \in active THEN active \ {r} ELSE active \cup {r}
  /\ UNCHANGED <<rows, capacity, shelf>>

(* setProductStatus, updateProductLimited; a DRAFT is as hidden as a HIDDEN. *)
SetProductStatus(p, st) ==
  /\ "SHELF" \in Traffic
  /\ shelf[p] \in {"ACTIVE", "HIDDEN"} /\ shelf[p] # st
  /\ shelf' = [shelf EXCEPT ![p] = st]
  /\ UNCHANGED <<rows, capacity, active>>

(* removeProduct locks the product row, so it waits for uncommitted inserts. *)
RemoveProduct(p) ==
  /\ "SHELF" \in Traffic
  /\ shelf[p] # "DELETED"
  /\ \A t \in Sessions, i \in Ids :
       ~(rows[i].status = "NONE" /\ Written(t, i) /\ writes[t][i].prod = p)
  /\ shelf' = [shelf EXCEPT ![p] =
       IF \E i \in Ids : rows[i].prod = p THEN "ARCHIVED" ELSE "DELETED"]
  /\ UNCHANGED <<rows, capacity, active>>

OwnerEdits ==
  /\ \/ \E r \in Resources, n \in Capacities : EditCapacity(r, n)
     \/ \E r \in Resources : SetResourceActive(r)
     \/ \E p \in Products, st \in {"ACTIVE", "HIDDEN"} : SetProductStatus(p, st)
     \/ \E p \in Products : RemoveProduct(p)
  /\ UNCHANGED <<now, pc, req, cand, todo, retried, tx, batch>>

Tick ==
  /\ now < MaxTime
  /\ now' = now + 1
  /\ UNCHANGED <<db, pc, req, cand, todo, retried, tx, batch>>

(* Nothing runs and the clock has stopped: the instance may rest. *)
Rest ==
  /\ now = MaxTime
  /\ \A s \in Sessions : pc[s] = "idle"
  /\ UNCHANGED vars

-----------------------------------------------------------------------------
Place(s) ==
  \/ RequestPlace(s) \/ RequestWalkIn(s) \/ RequestChange(s)

Arrive(s) == s \in Workers /\ (Place(s) \/ RequestTransition(s) \/ RequestReassign(s))

(* A statement of a transaction in progress. *)
Statement(s) ==
  \/ LockCustomer(s) \/ CancelOld(s) \/ OldGone(s)
  \/ LimitsPass(s) \/ LimitsRefuse(s)
  \/ InsertRow(s) \/ SlotTaken(s) \/ ProductDeleted(s)
  \/ Validate(s) \/ ValidateRefuse(s) \/ Update(s) \/ UpdateMisses(s)
  \/ ReadTarget(s) \/ TargetRefuse(s) \/ LockTarget(s) \/ TargetTaken(s)
  \/ Relocate(s) \/ RelocateMisses(s)
  \/ Commit(s)
  \/ DeadlockRetry(s) \/ DeadlockFail(s)

Sweep(s) == BatchStep(s) \/ BatchSkip(s) \/ BatchThrows(s)

Next ==
  \/ \E s \in Sessions : Statement(s) \/ Crash(s)
  \/ \E s \in Workers : Arrive(s)
  \/ \E s \in Crons : ExpireRequests(s) \/ AutoNoShow(s) \/ Sweep(s)
  \/ OwnerEdits
  \/ Tick
  \/ Rest

Init ==
  /\ now = 0
  /\ rows = NoWrites
  /\ capacity = InitCapacity
  /\ active = Resources
  /\ shelf = [p \in Products |-> "ACTIVE"]
  /\ pc = [s \in Sessions |-> "idle"]
  /\ req = [s \in Sessions |-> NoReq]
  /\ cand = [s \in Sessions |-> None]
  /\ todo = [s \in Sessions |-> {}]
  /\ retried = [s \in Sessions |-> FALSE]
  /\ held = [s \in Sessions |-> {}]
  /\ writes = [s \in Sessions |-> NoWrites]
  /\ entries = [s \in Sessions |-> {}]
  /\ batch = [s \in Crons |-> NoBatch]

Spec == Init /\ [][Next]_vars

(* The database serves waiting sessions in turn and aborts deadlocks, the    *)
(* scheduler calls the batch jobs again and again, and time passes.  Nothing *)
(* makes a client send a request.                                            *)
Fairness ==
  /\ \A s \in Sessions : SF_vars(Statement(s))
  /\ \A s \in Crons : WF_vars(Sweep(s)) /\ SF_vars(ExpireRequests(s)) /\ SF_vars(AutoNoShow(s))
  /\ WF_vars(Tick)

FairSpec == Spec /\ Fairness

-----------------------------------------------------------------------------
(* Properties. *)

Statements == {"idle", "cust", "old", "limits", "slot", "commit",
               "validate", "update", "target", "move", "relocate"}

(* The type of every variable. *)
TypeOK ==
  /\ now \in 0..MaxTime
  /\ rows \in [Ids -> Row \cup {NoRow}]
  /\ capacity \in [Resources -> Nat \ {0}]
  /\ active \subseteq Resources
  /\ shelf \in [Products -> {"ACTIVE", "HIDDEN", "ARCHIVED", "DELETED"}]
  /\ pc \in [Sessions -> Statements]
  /\ req \in [Sessions -> Request]
  /\ cand \in [Sessions -> Resources \cup {None}]
  /\ todo \in [Sessions -> SUBSET Resources]
  /\ retried \in [Sessions -> BOOLEAN]
  /\ held \in [Sessions -> SUBSET LockKeys]
  /\ writes \in [Sessions -> [Ids -> Row \cup {NoRow}]]
  /\ entries \in [Sessions -> SUBSET LogEntry]
  /\ batch \in [Crons -> [to : Statuses \cup {"NONE"}, at : Nat, ids : SUBSET Ids]]

(* No instant of a resource is sold beyond the largest capacity it is ever    *)
(* given, except to a single reservation, which the team unit does not        *)
(* measure: handlers go by capacities that were read without a lock, and the  *)
(* owner's edits look at no reservation (create.ts, the recount under the     *)
(* resource lock; transitions.ts, the check before a move).                   *)
MostSeats(r) == Max({InitCapacity[r]} \cup Capacities)

NoOverbooking == \A r \in Resources : NotOversold(rows, r, MostSeats(r))

(* The no_overlap constraint of 0001_constraints.sql holds of the committed  *)
(* rows, of what each transaction sees, and between the uncommitted rows of  *)
(* two transactions: no INSERT or UPDATE of these handlers can fail on it or *)
(* wait for it, whatever capacities the owner stores meanwhile.              *)
NoOverlapHolds ==
  /\ \A i, j \in Ids : i # j => ~Excluded(rows[i], rows[j])
  /\ \A s \in Sessions : \A i, j \in Ids : i # j => ~Excluded(View(s)[i], View(s)[j])
  /\ \A s, t \in Sessions : \A i, j \in Ids :
       s # t /\ i # j => ~Excluded(writes[s][i], writes[t][j])

(* A change is one step for everybody else: a row that replaces another is   *)
(* never there without the other one being canceled, for the same customer   *)
(* and product, and nothing is replaced twice however often a customer sends *)
(* the change (changeReservation, insertOne with mode.replaces).             *)
ReplacedOnce ==
  \A i \in Ids :
    LET o == rows[i].replaces
    IN  o # None =>
          /\ rows[o].status = "CANCELED_BY_USER"
          /\ rows[o].cust = rows[i].cust /\ rows[o].prod = rows[i].prod
          /\ \A j \in Ids \ {i} : rows[j].replaces # o

(* No customer holds more upcoming reservations of a product than the policy *)
(* allows, though they are counted before the row is inserted and several    *)
(* requests of the customer run at once (the limit check of insertOne).      *)
ActiveLimit ==
  \A c \in Customers, p \in Products :
    Cardinality(ActiveOf(rows, c, p, now)) <= Policy.maxActive

(* The advisory locks alone never deadlock: customer before resource, and    *)
(* never a second resource (the lock order create.ts states).  A deadlock    *)
(* always goes through a row lock.                                           *)
WaitsForKey(s, t) ==
  \/ pc[s] = "cust" /\ Account(s) \in held[t]
  \/ pc[s] \in {"slot", "move"} /\ cand[s] \in held[t]

AdvisoryLocksAcyclic ==
  \A S \in SUBSET Sessions :
    S # {} => \E s \in S : \A t \in S \ {s} : ~WaitsForKey(s, t)

(* Every change of a stored row is in reservation_logs as it happened: the   *)
(* state and the resource the log says it left are the ones it left, so no   *)
(* decision is lost under a concurrent one (the conditional updates).        *)
Logged(s, i) ==
  /\ rows'[i].status # rows[i].status =>
       \E e \in entries[s] : e.id = i /\ e.from = rows[i].status /\ e.to = rows'[i].status
  /\ rows[i].status # "NONE" /\ rows'[i].rsrc # rows[i].rsrc =>
       \E e \in entries[s] : /\ e.id = i
                             /\ e.fromRsrc = rows[i].rsrc /\ e.toRsrc = rows'[i].rsrc

EveryChangeLogged ==
  [][\A i \in Ids : rows'[i] # rows[i] =>
       \E s \in Sessions : pc[s] = "commit" /\ Logged(s, i)]_vars

(* The states of a stored row only follow the transition table, and nothing  *)
(* but its state, its resource and what goes with them ever changes.         *)
OnlyTheTable ==
  [][\A i \in Ids : rows[i].status # "NONE" =>
       /\ rows'[i].status = rows[i].status \/ Allowed(rows[i].status, rows'[i].status)
       /\ rows'[i] = [rows[i] EXCEPT
            !.status = rows'[i].status, !.rsrc = rows'[i].rsrc, !.excl = rows'[i].excl,
            !.canceledAt = rows'[i].canceledAt, !.noShow = rows'[i].noShow]]_vars

(* Every request is answered, deadlocks and waits included. *)
RequestsFinish == \A s \in Sessions : (pc[s] # "idle") ~> (pc[s] = "idle")

(* A request nobody decides does not stay open (expireRequests). *)
RequestsExpire ==
  \A i \in Ids : (i \in DueRequests) ~> (rows[i].status # "REQUESTED")

(* A customer who changes a reservation is not refused for a cancel that is  *)
(* only the change itself (canceledTodayCount: what a change cancels is not  *)
(* counted).  Not so: the old row is canceled before the count and its       *)
(* replacement is inserted after it.                                         *)
ChangeIsNoCancel ==
  \A s \in Sessions :
    pc[s] = "limits" /\ req[s].kind = "CHANGE" /\ AbuseCount(View(s), s) > Policy.abuseLimit
      => AbuseCount(rows, s) > Policy.abuseLimit

(* While the capacities stay as they are, the handlers and their locks do    *)
(* what the atomic ledger does: each transaction takes effect at its commit, *)
(* as if nothing had happened between the handler's first read and then.     *)
Ledger == INSTANCE ReservationLedger
            WITH Capacity <- InitCapacity, MaxActive <- Policy.maxActive
ImplementsLedger == Ledger!Spec
=============================================================================
