-------------------------------- MODULE Shifts --------------------------------
(***************************************************************************)
(* Shift swaps between two members of staff and the exceptions of their    *)
(* working days (features/schedule/swaps.ts, swap-rules.ts,                *)
(* work-exceptions.ts), beside customers who book and cancel.              *)
(*                                                                         *)
(* An approved swap takes the giver's shift away, gives it to the taker    *)
(* and either moves the giver's reservations of that day or leaves them    *)
(* with the giver, for exactly their hours.  The plan is made once outside *)
(* the transaction and once more under the advisory locks of both          *)
(* resources, which bookings take too; the status is a conditional update, *)
(* and the reservations move one UPDATE at a time.                         *)
(*                                                                         *)
(* Sessions run handlers statement by statement as in Booking; the booking *)
(* itself is two steps here (read the slots, insert under the resource's   *)
(* lock), a cancellation is one.  Booking shows what happens inside them.  *)
(* Every resource is an active member of staff with an account; opening    *)
(* hours do not cut; reservations lie within their day.                    *)
(***************************************************************************)
EXTENDS ReservationRules, WorkDay

CONSTANTS
  Ids,         \* reservation ids
  SwapIds,     \* ids of swap requests
  XIds,        \* ids of the exceptions entered by hand
  Staff,       \* resources: numbers, because locks are taken in their order
  Days,        \* the calendar days there are
  Products,
  Workers,     \* sessions serving requests
  Crons,       \* sessions running expireSwaps
  None,
  Catalogue,   \* product -> [links, direct, before, after, duration, perSlot]
  CapacityOf,  \* resource -> capacity
  Pattern,     \* resource -> day -> the intervals of the weekly pattern
  Holidays,    \* resource -> day -> the intervals a holiday cuts
  OwnerSeat,   \* the resource linked to the owner's account, or None
  AutoApprove, \* policy.shiftAutoApprove
  ExpireAfter, \* SWAP_EXPIRE_HOURS, in units of the clock
  Starts,      \* start times of the slots
  Spans,       \* bound: the intervals exceptions are entered with
  Answers,     \* bound: what requests say of moving reservations
  Asked,       \* bound: the actions on swaps clients ask for
  MaxTime,     \* bound: the clock stops here
  Traffic      \* bound: the entry points this instance's clients call

Sessions == Workers \cup Crons

ASSUME ShiftAssumption ==
  /\ Ids \subseteq Nat /\ SwapIds \subseteq Nat /\ XIds \subseteq Nat
  /\ Staff \subseteq Nat /\ Days \subseteq Nat /\ Starts \subseteq Nat
  /\ IsFiniteSet(Ids) /\ MaxTime \in Nat /\ Answers \subseteq BOOLEAN
  /\ SwapIds \cap XIds = {}
  /\ None \notin Ids \cup SwapIds \cup XIds \cup Staff \cup Days
  /\ CapacityOf \in [Staff -> Nat \ {0}]
  /\ OwnerSeat \in Staff \cup {None}
  /\ Workers \cap Crons = {}

ASSUME CatalogueAssumption ==
  Catalogue \in [Products -> [links : SUBSET Staff, direct : BOOLEAN, before : Nat, after : Nat,
                             duration : Nat \ {0}, perSlot : Nat \ {0}]]

VARIABLES
  now,         \* the clock: the current day
  rows,        \* table reservations, committed
  swaps,       \* table shift_swap_requests, committed
  exceptions,  \* table work_exceptions, committed: a set of records
  pc,          \* session -> the statement it is about to run
  job,         \* session -> what its handler knows
  held,        \* session -> resource locks of its transaction
  moved,       \* session -> its uncommitted rows (NoRow: not written)
  due          \* cron session -> the swaps its batch still has to expire

vars == <<now, rows, swaps, exceptions, pc, job, held, moved, due>>

-----------------------------------------------------------------------------
(* Records. *)

NoRow == [status |-> "NONE", prod |-> None, rsrc |-> None, day |-> 0, start |-> 0,
          end |-> 0, lo |-> 0, hi |-> 0, party |-> 0, excl |-> FALSE]

NoShape == [exchange |-> FALSE, requester |-> None, target |-> None, day |-> None,
            targetDay |-> None, moveRequester |-> FALSE, moveTarget |-> FALSE]

NoSwap == [status |-> "NONE", shape |-> NoShape, snapshot |-> {}, created |-> 0]

NoException == [id |-> None, rsrc |-> None, day |-> None, kind |-> "NONE",
                start |-> 0, end |-> 0, status |-> "NONE", decided |-> FALSE]

NoJob == [swap |-> None, from |-> "NONE", to |-> "NONE", confirm |-> FALSE,
          shape |-> NoShape, snapshot |-> {}, at |-> 0, moves |-> {}, xs |-> {},
          row |-> NoRow, x |-> NoException]

SwapStatuses == {"PENDING", "ACCEPTED", "REJECTED", "APPROVED", "DENIED", "CANCELED", "EXPIRED"}

Exception(id, r, d, kind, a, b, status) ==
  [id |-> id, rsrc |-> r, day |-> d, kind |-> kind, start |-> a, end |-> b,
   status |-> status, decided |-> FALSE]

Owner      == [role |-> "OWNER", mine |-> OwnerSeat]
Manager(r) == [role |-> "MANAGER", mine |-> r]
Actors     == {Owner} \cup {Manager(r) : r \in Staff \ {OwnerSeat}}

-----------------------------------------------------------------------------
(* Locks, and the end of a handler. *)

Written(s, i) == moved[s][i].status # "NONE"
RowFree(s, i) == \A t \in Sessions \ {s} : ~Written(t, i)
View(s)       == [i \in Ids |-> IF Written(s, i) THEN moved[s][i] ELSE rows[i]]
NoRows        == [i \in Ids |-> NoRow]

(* Mutant: no lock. *)
NoLock(s, r) == TRUE

KeyFree(s, r) == \A t \in Sessions \ {s} : r \notin held[t]

(* A swap's row is locked while its approval is not committed. *)
SwapFree(s, i) == \A t \in Sessions \ {s} : ~(pc[t] = "moves" /\ job[t].swap = i)

Answer(s) ==
  /\ pc'    = [pc EXCEPT ![s] = "idle"]
  /\ job'   = [job EXCEPT ![s] = NoJob]
  /\ held'  = [held EXCEPT ![s] = {}]
  /\ moved' = [moved EXCEPT ![s] = NoRows]

Start(s, next, what) ==
  /\ pc[s] = "idle"
  /\ pc'  = [pc EXCEPT ![s] = next]
  /\ job' = [job EXCEPT ![s] = what]
  /\ UNCHANGED <<now, rows, swaps, exceptions, held, moved, due>>

Goto(s, next) == pc' = [pc EXCEPT ![s] = next]

Refuse(s) == Answer(s) /\ UNCHANGED <<now, rows, swaps, exceptions, due>>

-----------------------------------------------------------------------------
(* The working hours, and the reservations of a shift. *)

OfDay(xs, r, d) == {x \in xs : x.rsrc = r /\ x.day = d /\ x.status = "APPROVED"}

(* workOn: approved exceptions only, and those a plan would make. *)
WorkWith(r, d, planned) ==
  ResolveWorkDay(Pattern[r][d], OfDay(exceptions \cup planned, r, d), Holidays[r][d])
WorkOn(r, d) == WorkWith(r, d, {})

(* reservationsOnShift: what starts that day on that resource. *)
OnShift(r, d) == {i \in OccupyingOn(rows, r) : rows[i].day = d}

EarlierStart(i, j) ==
  rows[i].start < rows[j].start \/ (rows[i].start = rows[j].start /\ i < j)

-----------------------------------------------------------------------------
(* swap-rules.ts *)

Leg(d, giver, taker, reassign) ==
  [day |-> d, giver |-> giver, taker |-> taker, reassign |-> reassign]

swapLegs(sh) ==
  {Leg(sh.day, sh.requester, sh.target, sh.moveRequester)}
    \cup (IF sh.exchange
          THEN {Leg(sh.targetDay, sh.target, sh.requester, sh.moveTarget)} ELSE {})

SwapRule(action, from, to, by) == [action |-> action, from |-> from, to |-> to, by |-> by]

SWAP_RULES == {
  SwapRule("ACCEPT",  "PENDING",  "ACCEPTED", {"TARGET"}),
  SwapRule("REJECT",  "PENDING",  "REJECTED", {"TARGET"}),
  SwapRule("CANCEL",  "PENDING",  "CANCELED", {"REQUESTER"}),
  SwapRule("APPROVE", "ACCEPTED", "APPROVED", {"OWNER", "TARGET"}),
  SwapRule("DENY",    "ACCEPTED", "DENIED",   {"OWNER"}),
  SwapRule("EXPIRE",  "PENDING",  "EXPIRED",  {"SYSTEM"}) }

(* seatsOf: the owner may sit on a second seat. *)
seatsOf(sh, a) ==
  {seat \in {"REQUESTER", "TARGET", "OWNER"} :
     \/ seat = "REQUESTER" /\ a.mine = sh.requester
     \/ seat = "TARGET" /\ a.mine = sh.target
     \/ seat = "OWNER" /\ a.role = "OWNER"}

(* allowed: the target approves only where approval is automatic. *)
RulesFor(swap, a) ==
  LET seats == seatsOf(swap.shape, a)
  IN  {rule \in SWAP_RULES :
         /\ rule.from = swap.status
         /\ rule.by \cap seats # {}
         /\ rule.action = "APPROVE" /\ "TARGET" \in seats /\ "OWNER" \notin seats
              => AutoApprove}

-----------------------------------------------------------------------------
(* planSwap *)

(* NO_SHIFT_TO_SWAP, SHIFT_CROSSES_MIDNIGHT *)
Plannable(sh) ==
  \A leg \in swapLegs(sh) :
    /\ WorkOn(leg.giver, leg.day) # {}
    /\ \A w \in WorkOn(leg.giver, leg.day) : w.end < DayLen

(* The exceptions of one leg: the giver is off, the taker works those hours, *)
(* the giver keeps the hours of the reservations that are not handed over.   *)
LegExceptions(id, leg) ==
  {Exception(id, leg.giver, leg.day, "OFF", 0, 0, "APPROVED")}
    \cup {Exception(id, leg.taker, leg.day, "EXTRA", w.start, w.end, "APPROVED") :
            w \in WorkOn(leg.giver, leg.day)}
    \cup {Exception(id, leg.giver, leg.day, "EXTRA", rows[i].start, rows[i].end, "APPROVED") :
            i \in {j \in OnShift(leg.giver, leg.day) : ~leg.reassign /\ rows[j].end < DayLen}}

PlannedExceptions(id, sh) == UNION {LegExceptions(id, leg) : leg \in swapLegs(sh)}

LegMoves(leg) ==
  IF leg.reassign
  THEN {[id |-> i, from |-> leg.giver, to |-> leg.taker] : i \in OnShift(leg.giver, leg.day)}
  ELSE {}

PlannedMoves(sh) == UNION {LegMoves(leg) : leg \in swapLegs(sh)}

(* Their order: the requester's first, then by their starts. *)
GoesBefore(sh, m, n) ==
  IF m.from = n.from THEN EarlierStart(m.id, n.id) ELSE m.from = sh.requester

CurrentIds(sh) == UNION {OnShift(leg.giver, leg.day) : leg \in swapLegs(sh)}

(* The table as it will be: what moves out of a seat leaves room in it. *)
AfterMoves(sh) ==
  [i \in Ids |->
     LET leg == {l \in swapLegs(sh) : l.reassign /\ i \in OnShift(l.giver, l.day)}
     IN  IF leg = {} THEN rows[i] ELSE [rows[i] EXCEPT !.rsrc = (CHOOSE l \in leg : TRUE).taker]]

(* Mutant: what moves in together is not counted against each other. *)
RoomBesideOwn(sh, m) ==
  LET row    == rows[m.id]
      others == {j \in OccupyingOn(rows, m.to) : rows[j].day = row.day}
  IN  IF row.excl \/ CapacityOf[m.to] = 1
      THEN \A j \in others : ~Overlaps(rows[j], row)
      ELSE PeakOccupancy(row, rows, others) + row.party <= CapacityOf[m.to]

(* CAPACITY: only what starts on the same day is counted. *)
RoomAfterMove(sh, m) ==
  LET t      == AfterMoves(sh)
      row    == t[m.id]
      others == {j \in OccupyingOn(t, m.to) \ {m.id} : t[j].day = row.day}
  IN  IF row.excl \/ CapacityOf[m.to] = 1
      THEN \A j \in others : ~Overlaps(t[j], row)
      ELSE PeakOccupancy(row, t, others) + row.party <= CapacityOf[m.to]

(* PRODUCT_RESOURCE, OUTSIDE_WORK and CAPACITY; and OUTSIDE_WORK for what   *)
(* is kept past midnight.                                                  *)
NoConflict(id, sh) ==
  /\ \A m \in PlannedMoves(sh) :
       LET row == rows[m.id]
       IN  /\ m.to \in Catalogue[row.prod].links
           /\ Inside(WorkWith(m.to, row.day, PlannedExceptions(id, sh)), row.start, row.end)
           /\ RoomAfterMove(sh, m)
  /\ \A leg \in swapLegs(sh) :
       ~leg.reassign => \A i \in OnShift(leg.giver, leg.day) : rows[i].end < DayLen

DirectPicks(sh) == {m.id : m \in {n \in PlannedMoves(sh) :
                                    Catalogue[rows[n.id].prod].direct}}

(* assertPlanUsable, after a planSwap that did not throw. *)
Usable(id, snapshot, confirm) ==
  LET sh == swaps[id].shape
  IN  /\ Plannable(sh)
      /\ CurrentIds(sh) = snapshot
      /\ NoConflict(id, sh)
      /\ DirectPicks(sh) # {} => confirm

-----------------------------------------------------------------------------
(* createSwap: from the member's own resource only. *)

Open(swap) == swap.status \in {"PENDING", "ACCEPTED"}

SamePair(a, b) == {a.requester, a.target} = {b.requester, b.target}

Shapes(r) ==
  {sh \in [exchange : BOOLEAN, requester : {r}, target : Staff \ {r}, day : Days,
           targetDay : Days \cup {None}, moveRequester : Answers, moveTarget : Answers \cup {FALSE}] :
     IF sh.exchange THEN sh.targetDay # None /\ sh.moveTarget \in Answers
     ELSE sh.targetDay = None /\ ~sh.moveTarget}

RequestSwap(s) ==
  /\ "SWAP" \in Traffic
  /\ \E a \in Actors : a.mine # None /\ \E sh \in Shapes(a.mine) :
       /\ sh.day > now /\ (sh.exchange => sh.targetDay > now)
       /\ \A i \in SwapIds : ~(/\ Open(swaps[i]) /\ swaps[i].shape.day = sh.day
                               /\ SamePair(swaps[i].shape, sh))
       /\ Plannable(sh)
       /\ ~sh.exchange => WorkOn(sh.target, sh.day) = {}
       /\ Start(s, "insert", [NoJob EXCEPT !.shape = sh, !.at = now,
                                           !.snapshot = CurrentIds(sh)])

FreeSwaps == {i \in SwapIds : swaps[i].status = "NONE"}

InsertSwap(s) ==
  /\ pc[s] = "insert"
  /\ \E i \in FreeSwaps :
       /\ \A j \in FreeSwaps : i <= j
       /\ swaps' = [swaps EXCEPT ![i] =
                      [status |-> "PENDING", shape |-> job[s].shape,
                       snapshot |-> job[s].snapshot, created |-> job[s].at]]
  /\ Answer(s)
  /\ UNCHANGED <<now, rows, exceptions, due>>

(* Bound: the instance has no id left. *)
NoSwapLeft(s) == pc[s] = "insert" /\ FreeSwaps = {} /\ Refuse(s)

-----------------------------------------------------------------------------
(* actOnSwap: the request is read, then changed by a conditional update.     *)
(* Clients confirm direct picks where there are some.                        *)

ActOnSwap(s) ==
  \E i \in SwapIds, a \in Actors, confirm \in BOOLEAN :
    /\ swaps[i].status # "NONE"
    /\ \E rule \in {r \in RulesFor(swaps[i], a) : r.action \in Asked} :
         /\ confirm => rule.action \in {"ACCEPT", "APPROVE"} /\ DirectPicks(swaps[i].shape) # {}
         /\ Start(s, IF rule.action = "APPROVE" THEN "preview" ELSE "set",
                  [NoJob EXCEPT !.swap = i, !.from = rule.from, !.to = rule.to,
                                !.confirm = confirm])

StatusIs(i, from) == swaps[i].status = from

(* An acceptance goes on to the approval at once where that is automatic. *)
SetStatus(s) ==
  LET j == job[s]
  IN  /\ pc[s] = "set" /\ SwapFree(s, j.swap)
      /\ StatusIs(j.swap, j.from)
      /\ swaps' = [swaps EXCEPT ![j.swap].status = j.to]
      /\ IF j.to = "ACCEPTED" /\ AutoApprove
         THEN Goto(s, "preview") /\ UNCHANGED <<job, held, moved>>
         ELSE Answer(s)
      /\ UNCHANGED <<now, rows, exceptions, due>>

StatusChanged(s) ==
  /\ pc[s] = "set" /\ SwapFree(s, job[s].swap)
  /\ ~StatusIs(job[s].swap, job[s].from)
  /\ Refuse(s)

-----------------------------------------------------------------------------
(* applyApproval *)

Approvable(s) ==
  LET swap == swaps[job[s].swap]
  IN  swap.status = "ACCEPTED" /\ Usable(job[s].swap, swap.snapshot, job[s].confirm)

(* Outside the transaction; its plan is thrown away. *)
Preview(s) ==
  /\ pc[s] = "preview" /\ Approvable(s)
  /\ Goto(s, "lock")
  /\ UNCHANGED <<now, rows, swaps, exceptions, job, held, moved, due>>

PreviewRefuse(s) == pc[s] = "preview" /\ ~Approvable(s) /\ Refuse(s)

Keys(s) == LET sh == swaps[job[s].swap].shape IN {sh.requester, sh.target}

(* Mutant: the requester's resource first. *)
NextKeyRequesterFirst(s) ==
  LET sh == swaps[job[s].swap].shape
  IN  IF sh.requester \in held[s] THEN sh.target ELSE sh.requester

NextKey(s) == Min(Keys(s) \ held[s])

LockResource(s) ==
  /\ pc[s] = "lock" /\ KeyFree(s, NextKey(s))
  /\ held' = [held EXCEPT ![s] = @ \cup {NextKey(s)}]
  /\ Goto(s, IF Keys(s) \subseteq held[s] \cup {NextKey(s)} THEN "apply" ELSE "lock")
  /\ UNCHANGED <<now, rows, swaps, exceptions, job, moved, due>>

(* The plan that counts, the status and the exceptions; not committed yet. *)
Apply(s) ==
  LET sh == swaps[job[s].swap].shape
  IN  /\ pc[s] = "apply" /\ SwapFree(s, job[s].swap)
      /\ Approvable(s)
      /\ job' = [job EXCEPT ![s].xs = PlannedExceptions(job[s].swap, sh),
                            ![s].moves = PlannedMoves(sh)]
      /\ Goto(s, "moves")
      /\ UNCHANGED <<now, rows, swaps, exceptions, held, moved, due>>

ApplyRefuse(s) ==
  /\ pc[s] = "apply" /\ SwapFree(s, job[s].swap)
  /\ ~Approvable(s) /\ Refuse(s)

(* The move whose turn it is. *)
NextMoves(s) ==
  LET sh == swaps[job[s].swap].shape
  IN  {m \in job[s].moves : \A n \in job[s].moves \ {m} : GoesBefore(sh, m, n)}

(* Mutant: update reservations ... where id = .. only. *)
AnyRow(m) == TRUE

StillThere(m) == rows[m.id].rsrc = m.from /\ rows[m.id].status \in Occupying

(* `exclusive` stays as it was. *)
MovedRow(m) == [rows[m.id] EXCEPT !.rsrc = m.to]

(* no_overlap is checked row by row, at each UPDATE. *)
Refused(s, m) == \E j \in Ids \ {m.id} : Excluded(MovedRow(m), View(s)[j])

MoveReservation(s) ==
  /\ pc[s] = "moves"
  /\ \E m \in NextMoves(s) :
       /\ RowFree(s, m.id)
       /\ StillThere(m) /\ ~Refused(s, m)
       /\ moved' = [moved EXCEPT ![s][m.id] = MovedRow(m)]
       /\ job' = [job EXCEPT ![s].moves = @ \ {m}]
  /\ UNCHANGED <<now, rows, swaps, exceptions, pc, held, due>>

(* SWAP_RESERVATIONS_CHANGED, or 23P01: everything is rolled back. *)
MoveFails(s) ==
  /\ pc[s] = "moves"
  /\ \E m \in NextMoves(s) : RowFree(s, m.id) /\ (~StillThere(m) \/ Refused(s, m))
  /\ Refuse(s)

CommitApproval(s) ==
  /\ pc[s] = "moves" /\ job[s].moves = {}
  /\ rows' = View(s)
  /\ swaps' = [swaps EXCEPT ![job[s].swap].status = "APPROVED"]
  /\ exceptions' = exceptions \cup job[s].xs
  /\ Answer(s)
  /\ UNCHANGED <<now, due>>

-----------------------------------------------------------------------------
(* expireSwaps: a list of due ids, then one conditional update each. *)

DueSwaps == {i \in SwapIds : /\ swaps[i].status = "PENDING"
                             /\ now - swaps[i].created > ExpireAfter}

ListDue(s) ==
  /\ due[s] = {} /\ DueSwaps # {}
  /\ due' = [due EXCEPT ![s] = DueSwaps]
  /\ UNCHANGED <<now, rows, swaps, exceptions, pc, job, held, moved>>

ExpireSwap(s) ==
  \E i \in due[s] :
    /\ SwapFree(s, i)
    /\ swaps' = IF StatusIs(i, "PENDING") THEN [swaps EXCEPT ![i].status = "EXPIRED"] ELSE swaps
    /\ due' = [due EXCEPT ![s] = @ \ {i}]
    /\ UNCHANGED <<now, rows, exceptions, pc, job, held, moved>>

-----------------------------------------------------------------------------
(* work-exceptions.ts *)

(* What an exception would take away, and the reservations in it. *)
Removed(x) ==
  IF x.kind = "BLOCK" THEN {Span(x.start, x.end)}
  ELSE Subtract(WorkOn(x.rsrc, x.day), WorkWith(x.rsrc, x.day, {[x EXCEPT !.status = "APPROVED"]}))

ConflictsFor(x) ==
  {i \in OnShift(x.rsrc, x.day) :
     \E cut \in Removed(x) : rows[i].start < cut.end /\ rows[i].end > cut.start}

(* assertNoDuplicate, among the exceptions in one of these states. *)
NoDuplicate(x, states) ==
  x.kind \in {"OFF", "MODIFIED"} =>
    \A y \in exceptions : ~(/\ y.rsrc = x.rsrc /\ y.day = x.day /\ y.kind = x.kind
                            /\ y.id # x.id /\ y.status \in states)

(* exceptionInputSchema: all but days off have hours, and they end later than *)
(* they start.                                                               *)
ValidSpan(kind, w) == kind = "OFF" \/ w.start < w.end

Spanned(kind, w) == IF kind = "OFF" THEN Interval(0, 0) ELSE w

(* The row a client's request makes; leave waits for the owner. *)
Entered(r, d, kind, w, leave) ==
  Exception(None, r, d, kind, Spanned(kind, w).start, Spanned(kind, w).end,
            IF leave THEN "PENDING" ELSE "APPROVED")

(* A manager asks for leave, which waits for the owner, or blocks hours where *)
(* there are no reservations.                                                *)
MayEnter(a, x, leave, confirm) ==
  /\ a.role = "MANAGER" => /\ a.mine = x.rsrc /\ ~confirm
                           /\ x.kind = "BLOCK" \/ (leave /\ x.kind = "OFF")
  /\ a.role = "OWNER" => ~leave
  /\ NoDuplicate(x, {"PENDING", "APPROVED"})
  /\ leave \/ confirm \/ ConflictsFor(x) = {}

(* createException up to its insert. *)
RequestException(s) ==
  /\ "EXCEPTION" \in Traffic
  /\ \E a \in Actors, r \in Staff, d \in Days, w \in Spans,
        kind \in {"OFF", "MODIFIED", "BLOCK", "EXTRA"}, leave \in BOOLEAN, confirm \in BOOLEAN :
       /\ ValidSpan(kind, w)
       /\ MayEnter(a, Entered(r, d, kind, w, leave), leave, confirm)
       /\ Start(s, "enter", [NoJob EXCEPT !.x = Entered(r, d, kind, w, leave)])

FreeXIds == XIds \ {x.id : x \in exceptions}

InsertException(s) ==
  /\ pc[s] = "enter"
  /\ \E i \in FreeXIds :
       /\ \A k \in FreeXIds : i <= k
       /\ exceptions' = exceptions \cup {[job[s].x EXCEPT !.id = i]}
  /\ Answer(s)
  /\ UNCHANGED <<now, rows, swaps, due>>

(* Bound: the instance has no id left. *)
NoExceptionLeft(s) == pc[s] = "enter" /\ FreeXIds = {} /\ Refuse(s)

(* decideException: the conflicts are looked at when leave is approved. *)
RequestDecision(s) ==
  \E x \in exceptions, approve \in BOOLEAN, confirm \in BOOLEAN :
    /\ x.status = "PENDING"
    /\ approve => NoDuplicate(x, {"APPROVED"}) /\ (confirm \/ ConflictsFor(x) = {})
    /\ confirm => approve
    /\ Start(s, "decide", [NoJob EXCEPT !.x = x, !.to = IF approve THEN "APPROVED" ELSE "REJECTED"])

StillPending(id) == {y \in exceptions : y.id = id /\ y.status = "PENDING"}

(* update ... where status = 'PENDING'; 0 rows are a refusal. *)
DecideException(s) ==
  LET hit == StillPending(job[s].x.id)
  IN  /\ pc[s] = "decide"
      /\ exceptions' = (exceptions \ hit)
                         \cup {[y EXCEPT !.status = job[s].to, !.decided = TRUE] : y \in hit}
      /\ Answer(s)
      /\ UNCHANGED <<now, rows, swaps, due>>

(* A manager takes back leave that is not approved, and blocks of their own. *)
MayDelete(a, x) ==
  \/ a.role = "OWNER"
  \/ a.mine = x.rsrc /\ (x.status = "APPROVED" => x.kind = "BLOCK" /\ ~x.decided)

RequestDelete(s) ==
  /\ "EXCEPTION" \in Traffic
  /\ \E a \in Actors, x \in exceptions :
       MayDelete(a, x) /\ Start(s, "delete", [NoJob EXCEPT !.x = x])

(* delete ... where id = .. only.  A swap's exceptions share an id here; two *)
(* with the same hours are one.                                              *)
SameException(x, y) ==
  x.id = y.id /\ (x.id \in SwapIds => x = y)

DeleteException(s) ==
  /\ pc[s] = "delete"
  /\ exceptions' = {x \in exceptions : ~SameException(x, job[s].x)}
  /\ Answer(s)
  /\ UNCHANGED <<now, rows, swaps, due>>

-----------------------------------------------------------------------------
(* Customers: booking in two steps, canceling in one. *)

NewRow(p, r, d, a, n) ==
  [status |-> "CONFIRMED", prod |-> p, rsrc |-> r, day |-> d, start |-> a,
   end |-> a + Catalogue[p].duration,
   lo |-> d * DayLen + a - Catalogue[p].before,
   hi |-> d * DayLen + a + Catalogue[p].duration + Catalogue[p].after,
   party |-> n, excl |-> CapacityOf[r] = 1]

HasRoom(row, t) ==
  FitsNew(row, row.party, t, row.rsrc, Catalogue[row.prod].perSlot, CapacityOf[row.rsrc])

(* The slots are computed from the working hours and the occupancy. *)
RequestPlace(s) ==
  /\ "PLACE" \in Traffic
  /\ \E p \in Products, d \in Days, a \in Starts : \E r \in Catalogue[p].links,
        n \in 1..Catalogue[p].perSlot :
       LET row == NewRow(p, r, d, a, n)
       IN  /\ d > now
           /\ Inside(WorkOn(r, d), row.start, row.end)
           /\ HasRoom(row, rows)
           /\ Start(s, "book", [NoJob EXCEPT !.row = row])

FreeIds == {i \in Ids : rows[i].status = "NONE"}

(* Under the lock the occupancy is counted again, the hours are not. *)
Book(s) ==
  LET row == job[s].row
  IN  /\ pc[s] = "book" /\ KeyFree(s, row.rsrc)
      /\ IF HasRoom(row, rows) /\ FreeIds # {}
         THEN \E i \in FreeIds : (\A j \in FreeIds : i <= j) /\ rows' = [rows EXCEPT ![i] = row]
         ELSE UNCHANGED rows
      /\ Answer(s)
      /\ UNCHANGED <<now, swaps, exceptions, due>>

CancelReservation(i) ==
  /\ "CANCEL" \in Traffic
  /\ rows[i].status \in Occupying
  /\ \A t \in Sessions : ~Written(t, i)
  /\ rows' = [rows EXCEPT ![i].status = "CANCELED_BY_USER"]
  /\ UNCHANGED <<now, swaps, exceptions, pc, job, held, moved, due>>

(* The process dies: the transaction in progress is rolled back. *)
Crash(s) == "CRASH" \in Traffic /\ pc[s] # "idle" /\ Refuse(s)

Tick ==
  /\ now < MaxTime
  /\ now' = now + 1
  /\ UNCHANGED <<rows, swaps, exceptions, pc, job, held, moved, due>>

(* The clock has stopped and nothing runs. *)
Rest == now = MaxTime /\ (\A s \in Sessions : pc[s] = "idle") /\ UNCHANGED vars

-----------------------------------------------------------------------------
Arrive(s) ==
  \/ RequestSwap(s) \/ ActOnSwap(s)
  \/ RequestException(s) \/ RequestDecision(s) \/ RequestDelete(s)
  \/ RequestPlace(s)

Statement(s) ==
  \/ InsertSwap(s) \/ NoSwapLeft(s) \/ SetStatus(s) \/ StatusChanged(s)
  \/ Preview(s) \/ PreviewRefuse(s) \/ LockResource(s) \/ Apply(s) \/ ApplyRefuse(s)
  \/ MoveReservation(s) \/ MoveFails(s) \/ CommitApproval(s)
  \/ InsertException(s) \/ NoExceptionLeft(s) \/ DecideException(s) \/ DeleteException(s)
  \/ Book(s)

Next ==
  \/ \E s \in Workers : Arrive(s) \/ Statement(s) \/ Crash(s)
  \/ \E s \in Crons : ListDue(s) \/ ExpireSwap(s)
  \/ \E i \in Ids : CancelReservation(i)
  \/ Tick
  \/ Rest

Init ==
  /\ now = 0
  /\ rows = NoRows
  /\ swaps = [i \in SwapIds |-> NoSwap]
  /\ exceptions = {}
  /\ pc = [s \in Sessions |-> "idle"]
  /\ job = [s \in Sessions |-> NoJob]
  /\ held = [s \in Sessions |-> {}]
  /\ moved = [s \in Sessions |-> NoRows]
  /\ due = [s \in Crons |-> {}]

Spec == Init /\ [][Next]_vars

(* The database runs what it was sent.  Nobody has to ask for, answer or     *)
(* approve anything.                                                         *)
Fairness == \A s \in Workers : SF_vars(Statement(s))

FairSpec == Spec /\ Fairness

-----------------------------------------------------------------------------
(* Properties. *)

(* The type of every variable, but for the hours of exceptions. *)
Row ==
  [status : Occupying \cup {"CANCELED_BY_USER"}, prod : Products, rsrc : Staff, day : Days,
   start : Starts, end : Int, lo : Int, hi : Int, party : Nat \ {0}, excl : BOOLEAN]

Shape ==
  {sh \in [exchange : BOOLEAN, requester : Staff, target : Staff, day : Days,
           targetDay : Days \cup {None}, moveRequester : BOOLEAN, moveTarget : BOOLEAN] :
     sh.requester # sh.target /\ (sh.exchange => sh.targetDay # None)}

Swap == [status : SwapStatuses, shape : Shape, snapshot : SUBSET Ids, created : Nat]

TypeOK ==
  /\ now \in 0..MaxTime
  /\ rows \in [Ids -> Row \cup {NoRow}]
  /\ swaps \in [SwapIds -> Swap \cup {NoSwap}]
  /\ \A x \in exceptions :
       /\ x.id \in SwapIds \cup XIds /\ x.rsrc \in Staff /\ x.day \in Days
       /\ x.status \in {"PENDING", "APPROVED", "REJECTED"}
  /\ pc \in [Sessions -> {"idle", "insert", "set", "preview", "lock", "apply", "moves",
                          "enter", "decide", "delete", "book"}]
  /\ held \in [Sessions -> SUBSET Staff]
  /\ moved \in [Sessions -> [Ids -> Row \cup {NoRow}]]
  /\ due \in [Crons -> SUBSET SwapIds]

(* The interval arithmetic of resolveWorkDay computes the ranking its        *)
(* comment states, for the exceptions that swaps and people make.  Calls     *)
(* that cross can leave two MODIFIED on one day: then it is the ranking with *)
(* one of them, whatever else was entered.                                   *)
WorkAsRanked ==
  \A r \in Staff, d \in Days :
    LET xs       == OfDay(exceptions, r, d)
        modified == {x \in xs : x.kind = "MODIFIED"}
        others   == xs \ modified
    IN  \/ modified = {} /\ IsWorkOf(WorkOn(r, d), Pattern[r][d], others, Holidays[r][d])
        \/ \E x \in modified : IsWorkOf(WorkOn(r, d), Pattern[r][d], others \cup {x}, Holidays[r][d])

(* What has a place in the working hours of its resource. *)
OnDutyRow(row) == Inside(WorkOn(row.rsrc, row.day), row.start, row.end)

(* Swap i is being approved. *)
Approving(i) == swaps[i].status # "APPROVED" /\ swaps'[i].status = "APPROVED"

(* An approval never changes the working hours under a reservation: what was *)
(* in the hours of its resource before is in the hours of its resource after *)
(* it, moved or kept (swaps.ts: the file's one promise), though bookings and *)
(* cancellations go on between the plan and the commit.                      *)
ApprovalKeepsWork ==
  [][\A i \in SwapIds : Approving(i) =>
       \A k \in Ids :
         rows[k].status \in Occupying /\ OnDutyRow(rows[k]) => OnDutyRow(rows[k])']_vars

(* An approval moves exactly what the request showed to both sides and       *)
(* nobody moved or canceled since, to the other side; reservations of        *)
(* products where the customer picks the staff move only when confirmed;     *)
(* and nothing else moves a reservation.                                     *)
MovesAsAgreed ==
  [][\A k \in Ids : rows[k].status # "NONE" /\ rows'[k].rsrc # rows[k].rsrc =>
       \E i \in SwapIds, s \in Workers :
         /\ Approving(i) /\ job[s].swap = i
         /\ k \in swaps[i].snapshot /\ rows[k].status \in Occupying
         /\ Catalogue[rows[k].prod].direct => job[s].confirm
         /\ \E leg \in swapLegs(swaps[i].shape) :
              /\ leg.reassign /\ leg.day = rows[k].day
              /\ leg.giver = rows[k].rsrc /\ leg.taker = rows'[k].rsrc]_vars

(* No instant of a resource is sold beyond its capacity, swaps included. *)
NoOverbooking == \A r \in Staff : NotOversold(rows, r, CapacityOf[r])

(* Every call is answered: two approvals over the same two people, in either *)
(* direction, do not wait for each other for ever.                           *)
CallsFinish == \A s \in Workers : (pc[s] # "idle") ~> (pc[s] = "idle")

(* A plan without conflicts can be carried out: no UPDATE of its moves is    *)
(* refused by no_overlap.  Not so when two people exchange the same day.     *)
PlanApplies ==
  \A s \in Workers : pc[s] = "moves" => \A m \in NextMoves(s) : ~Refused(s, m)
=============================================================================
