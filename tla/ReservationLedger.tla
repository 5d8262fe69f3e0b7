-------------------------- MODULE ReservationLedger --------------------------
(***************************************************************************)
(* What the reservation engine promises a shop whose capacities stay as    *)
(* they are: a ledger in which every request is one atomic step, decided   *)
(* on the rows as they stand.  No sessions, no locks, no stale reads.      *)
(* Booking is shown to implement it.                                       *)
(***************************************************************************)
EXTENDS ReservationRules

CONSTANTS Ids, Resources, Catalogue, Capacity, MaxActive, None

VARIABLES now, rows

Absent(i) == rows[i].status = "NONE"
Live(i)   == rows[i].status \in Occupying

(* Only row i differs, and row i' of the new table is the one meant. *)
OnlyRow(i) == rows' = [rows EXCEPT ![i] = rows'[i]]

UpcomingOf(t, c, p) ==
  {i \in Ids : /\ t[i].cust = c /\ t[i].prod = p
               /\ t[i].status \in Occupying /\ t[i].start >= now}

(* Row i of the new table was acceptable in table t. *)
Acceptable(i, t) ==
  LET row == rows'[i]
  IN  /\ row.status \in Occupying
      /\ row.rsrc \in Catalogue[row.prod].links
      /\ FitsNew(row, row.party, t, row.rsrc, Catalogue[row.prod].perSlot, Capacity[row.rsrc])
      /\ row.via = "WEB" => Cardinality(UpcomingOf(t, row.cust, row.prod)) < MaxActive

(* A new reservation, taken at the counter or by a customer. *)
Place(i) ==
  /\ Absent(i)
  /\ rows'[i].replaces = None
  /\ Acceptable(i, rows)
  /\ OnlyRow(i)

(* A change: the old reservation ends and the new one exists, or neither. *)
Change(o, i) ==
  LET t == [rows EXCEPT ![o] = rows'[o]]
  IN  /\ Live(o) /\ Absent(i)
      /\ rows'[o] = [rows[o] EXCEPT !.status = "CANCELED_BY_USER",
                                    !.canceledAt = rows'[o].canceledAt]
      /\ rows'[i].replaces = o
      /\ rows'[i].cust = rows[o].cust /\ rows'[i].prod = rows[o].prod
      /\ Acceptable(i, t)
      /\ rows' = [t EXCEPT ![i] = rows'[i]]

Decided(i, to) ==
  [rows[i] EXCEPT !.status = to, !.canceledAt = rows'[i].canceledAt,
                  !.noShow = rows'[i].noShow]

(* A decision along the table of transitions. *)
Decide(i, to) ==
  /\ ~Absent(i) /\ Allowed(rows[i].status, to)
  /\ rows'[i] = Decided(i, to)
  /\ OnlyRow(i)

(* Row i goes to another linked resource, as `row`, if it still takes room. *)
MovedTo(i, row, r) ==
  /\ r # row.rsrc /\ r \in Catalogue[row.prod].links
  /\ rows'[i] = [row EXCEPT !.rsrc = r, !.excl = Capacity[r] = 1]
  /\ row.status \in Occupying =>
       FitsExisting(i, row, row.party, Capacity[r] = 1, rows, r, Capacity[r])
  /\ OnlyRow(i)

Move(i, r) == Live(i) /\ MovedTo(i, rows[i], r)

(* A manager's decision on a colleague's request takes it over. *)
DecideAndMove(i, to, r) ==
  /\ \E rule \in RULES : rule.from = rows[i].status /\ rule.to = to /\ rule.takeOver
  /\ MovedTo(i, Decided(i, to), r)

Wait == now' >= now /\ UNCHANGED rows

Next ==
  \/ /\ UNCHANGED now
     /\ \/ \E i \in Ids : Place(i)
        \/ \E o, i \in Ids : Change(o, i)
        \/ \E i \in Ids, to \in Statuses : Decide(i, to)
        \/ \E i \in Ids, r \in Resources : Move(i, r)
        \/ \E i \in Ids, to \in Statuses, r \in Resources : DecideAndMove(i, to, r)
  \/ Wait

Init == now = 0 /\ \A i \in Ids : Absent(i)

Spec == Init /\ [][Next]_<<now, rows>>
=============================================================================
