---------------------------- MODULE ReservationRules ----------------------------
(***************************************************************************)
(* The pure parts of the reservation engine, shared by the detailed model  *)
(* (Booking) and by its abstract specification (ReservationLedger):        *)
(*   - the reservation states and the table of allowed transitions         *)
(*     (features/booking/transition-rules.ts),                             *)
(*   - half-open occupancy ranges and the peak-occupancy algorithm         *)
(*     (features/booking/peak-occupancy.ts),                               *)
(*   - the two occupancy tests, the one of a new reservation               *)
(*     (create.ts, slots.ts) and the one of a reservation that is approved *)
(*     or moved (transitions.ts validateExisting).                         *)
(* Nothing here has state.  A table of reservations is a function `t` from *)
(* reservation ids to rows, so that two equal rows still count twice.      *)
(***************************************************************************)
EXTENDS Integers, FiniteSets, FiniteSetsExt

Statuses == {"REQUESTED", "CONFIRMED", "REJECTED", "CANCELED_BY_USER",
             "CANCELED_BY_BIZ", "EXPIRED", "COMPLETED", "NO_SHOW"}

(* The states that take room; no_overlap's WHERE clause names the same two. *)
Occupying == {"REQUESTED", "CONFIRMED"}

-----------------------------------------------------------------------------
(* The transition table.  `guard` names the extra time condition of a row. *)

Rule(from, to, by, guard, flags) ==
  [from |-> from, to |-> to, by |-> by, guard |-> guard,
   ownerOnly  |-> "ownerOnly" \in flags,
   anyManager |-> "anyManager" \in flags,
   takeOver   |-> "takeOver" \in flags,
   revalidate |-> "revalidate" \in flags]

RULES == {
  Rule("REQUESTED", "CONFIRMED", {"CONSOLE"}, "NONE", {"revalidate", "anyManager", "takeOver"}),
  Rule("REQUESTED", "REJECTED", {"CONSOLE"}, "NONE", {"anyManager", "takeOver"}),
  Rule("REQUESTED", "CANCELED_BY_USER", {"CUSTOMER"}, "NONE", {}),
  Rule("REQUESTED", "CANCELED_BY_BIZ", {"CONSOLE", "SYSTEM", "ADMIN"}, "NONE", {"anyManager"}),
  Rule("REQUESTED", "EXPIRED", {"SYSTEM"}, "NONE", {}),
  Rule("CONFIRMED", "CANCELED_BY_USER", {"CUSTOMER"}, "DEADLINE", {}),
  Rule("CONFIRMED", "CANCELED_BY_BIZ", {"CONSOLE", "ADMIN"}, "NONE", {"anyManager"}),
  Rule("CONFIRMED", "COMPLETED", {"CONSOLE"}, "STARTED", {"anyManager"}),
  Rule("CONFIRMED", "NO_SHOW", {"CONSOLE", "SYSTEM"}, "ENDED", {"anyManager"}),
  Rule("NO_SHOW", "COMPLETED", {"CONSOLE"}, "NONE", {"ownerOnly"}),
  Rule("COMPLETED", "NO_SHOW", {"CONSOLE"}, "NONE", {"ownerOnly"}) }

(* The table as a relation between states. *)
Allowed(from, to) == \E rule \in RULES : rule.from = from /\ rule.to = to

RuleFor(from, to) == CHOOSE rule \in RULES : rule.from = from /\ rule.to = to

(* now < cancelDeadlineAt(r): the deadline itself is already too late. *)
BeforeCancelDeadline(row, at, hours) == at < row.start - hours

GuardHolds(guard, row, at, hours) ==
  \/ guard = "NONE"
  \/ guard = "DEADLINE" /\ BeforeCancelDeadline(row, at, hours)
  \/ guard = "STARTED" /\ at >= row.start
  \/ guard = "ENDED" /\ at >= row.end

-----------------------------------------------------------------------------
(* Occupancy.  [lo, hi) is the occupyRange of a row, buffers included. *)

Overlaps(a, b) == a.lo < b.hi /\ b.lo < a.hi

(* How many people are present at instant p among the rows `ids` of table t: *)
(* the sum of their parties, counted head by head.                           *)
PresentAt(t, ids, p) == {i \in ids : t[i].lo <= p /\ p < t[i].hi}
Heads(t, ids) == UNION {{i} \X (1..t[i].party) : i \in ids}
PartyAt(t, ids, p) == Cardinality(Heads(t, PresentAt(t, ids, p)))

(* The largest sum over the start of the range and the starts inside it. *)
PeakOccupancy(range, t, ids) ==
  LET hit    == {i \in ids : Overlaps(t[i], range)}
      points == {range.lo} \cup {t[i].lo : i \in {j \in hit : t[j].lo >= range.lo}}
  IN  IF hit = {} THEN 0 ELSE Max({PartyAt(t, hit, p) : p \in points})

(* The rows of t that a query for occupying reservations of resource r reads. *)
OccupyingOn(t, r) == {i \in DOMAIN t : t[i].status \in Occupying /\ t[i].rsrc = r}

Lesser(a, b) == IF a <= b THEN a ELSE b

(* Room for a new reservation of `party` people over `range` on resource r:  *)
(* with a capacity of one the unit is the team, and any overlap refuses.     *)
FitsNew(range, party, t, r, perSlot, capacity) ==
  LET cap == Lesser(perSlot, capacity)
  IN  IF cap = 1
      THEN \A i \in OccupyingOn(t, r) : ~Overlaps(t[i], range)
      ELSE PeakOccupancy(range, t, OccupyingOn(t, r)) + party <= cap

(* Room for the existing reservation `id` on resource r; only the resource's *)
(* own capacity is looked at, never the product's.                           *)
FitsExisting(id, range, party, excl, t, r, capacity) ==
  LET others == OccupyingOn(t, r) \ {id}
  IN  IF excl \/ capacity = 1
      THEN \A i \in others : ~Overlaps(t[i], range)
      ELSE PeakOccupancy(range, t, others) + party <= capacity

(* For the properties: no instant of r is sold beyond its capacity, except to *)
(* a single reservation, which the team unit does not measure.               *)
NotOversold(t, r, capacity) ==
  \A i \in OccupyingOn(t, r) :
    LET present == PresentAt(t, OccupyingOn(t, r), t[i].lo)
    IN  present = {i} \/ Cardinality(Heads(t, present)) <= capacity

(* Two versions of different rows that the no_overlap EXCLUDE constraint of *)
(* 0001_constraints.sql refuses to have side by side.                       *)
Excluded(a, b) ==
  /\ a.excl /\ a.status \in Occupying
  /\ b.excl /\ b.status \in Occupying
  /\ a.rsrc = b.rsrc
  /\ Overlaps(a, b)
=============================================================================
