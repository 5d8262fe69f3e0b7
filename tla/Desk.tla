---------------------------------- MODULE Desk ----------------------------------
(***************************************************************************)
(* The reservation screens: the console's list (booking/console.ts,        *)
(* ui/ReservationsPanel.tsx), one reservation with its buttons             *)
(* (ui/ReservationDetailPanel.tsx), the calendar and the dashboard, and    *)
(* the customer's own list (booking/my-reservations.ts), while colleagues, *)
(* customers and batch jobs change the reservations.  Which screen is open *)
(* is chosen once; a list reads with one statement, a detail with two, the *)
(* customer's page with two side by side, and answers arrive in any order  *)
(* or not at all.  What a transition checks is in Booking; here it may be  *)
(* refused for the time or for want of room.                               *)
(***************************************************************************)
EXTENDS Days, Sequences, SequencesExt

CONSTANTS
  Booked,        \* id -> [start, end, before, after, seats, rsrc, status]; "NONE" until placed
  Resources,
  Actors,        \* [role, mine, all]
  PageLimit, First, Drafts,   \* first page's period, periods that may be typed
  PastLimit,     \* PAST_LIMIT: the customer's list of what is over is cut there
  Windows,       \* what the opening hours may be: date -> windows
  Dates, None, Whichever,
  MaxMoves, MaxChanges, MaxEdits   \* bounds

ASSUME DeskAssumption ==
  /\ DOMAIN Booked \subseteq Nat
  /\ \A i \in DOMAIN Booked : /\ {"status", "rsrc"} \subseteq DOMAIN Booked[i]
                              /\ Booked[i].status \in Statuses \cup {"NONE"}
                              /\ Booked[i].end - Booked[i].start \in 0..MaxSpan
  /\ None \notin Statuses
  /\ {PageLimit, PastLimit} \subseteq Nat \ {0} /\ {MaxMoves, MaxChanges, MaxEdits} \subseteq Nat

VARIABLES
  rows, log,       \* the table, and reservation_logs: id -> what its states were
  windows,         \* the opening hours
  screen, me,      \* what is open, and who looks at it
  list, flights,   \* ReservationsPanel and its requests under way
  look,            \* the detail, with its read and its request
  mine,            \* the customer's page: the two halves, and what moved meanwhile
  moves, changes, edits

vars == <<rows, log, windows, screen, me, list, flights, look, mine, moves, changes, edits>>
server == <<rows, log, windows, changes, edits>>

Ids == DOMAIN Booked
Placed(t) == {i \in Ids : t[i].status # "NONE"}
Table == [i \in Placed(rows) |-> rows[i]]

Closed == "CLOSED"

-----------------------------------------------------------------------------
(* console.ts *)

(* scope: a manager who may not see everything is held to one resource, or to none. *)
Visible(t, i) == me.role = "OWNER" \/ me.all \/ t[i].rsrc = me.mine

InScope(t, i, key) ==
  /\ t[i].status # "NONE"
  /\ Visible(t, i)
  /\ key.status = {} \/ t[i].status \in key.status
  /\ key.rsrc \in {Whichever, t[i].rsrc}

Matches(t, i, key) == InScope(t, i, key) /\ SpansRange(t[i], key.from, key.to)

Before(i, j) ==
  \/ Booked[i].start < Booked[j].start
  \/ Booked[i].start = Booked[j].start /\ i < j

(* Mutant: the cursor is the start alone. *)
AfterStart(i, cursor) == cursor = None \/ Booked[i].start > Booked[cursor].start

(* The cursor holds the last row's start and id. *)
After(i, cursor) == cursor = None \/ Before(cursor, i)

(* listReservations: one row more than a page tells whether there is another. *)
Page(t, key, cursor) ==
  LET found == SetToSortSeq({i \in Ids : Matches(t, i, key) /\ After(i, cursor)}, Before)
      n == Lesser(PageLimit, Len(found))
  IN  [items |-> SubSeq(found, 1, n), next |-> IF Len(found) > n THEN found[n] ELSE None]

-----------------------------------------------------------------------------
(* ReservationsPanel.  `kept` is history: the rows that have answered the    *)
(* question at every moment since the page's first rows were read.          *)

RangeOf(p) ==
  IF p.draft # None /\ p.draft[1] <= p.draft[2] THEN p.draft ELSE First
Key(p) == [from |-> RangeOf(p)[1], to |-> RangeOf(p)[2], status |-> p.status, rsrc |-> p.rsrc]

Stale(p) == Key(p) # p.key

Touching(t, key) ==
  {i \in Ids : /\ InScope(t, i, key)
               /\ t[i].start < Midnight(key.to + 1) /\ t[i].end > Midnight(key.from)}

NoList == [draft |-> First, status |-> {}, rsrc |-> Whichever, items |-> <<>>, cursor |-> None,
           key |-> None, busy |-> FALSE, seq |-> 0, timer |-> FALSE, failed |-> FALSE, kept |-> {}]

Open(s, actor) ==
  /\ screen = Closed
  /\ screen' = s
  /\ me' = actor
  /\ UNCHANGED <<server, list, flights, look, mine, moves>>

Acts == moves < MaxMoves /\ moves' = moves + 1

(* The first page comes with the screen. *)
FirstPage ==
  /\ screen = "LIST" /\ list.key = None
  /\ LET page == Page(rows, Key(list), None)
     IN  list' = [list EXCEPT !.items = page.items, !.cursor = page.next, !.key = Key(list),
                              !.kept = Touching(rows, Key(list))]
  /\ UNCHANGED <<server, screen, me, flights, look, mine, moves>>

(* The effect on [key, page.key, load]: the timer starts over while what is  *)
(* asked differs from what is shown, else it is cleared.                    *)
Effect(p) == [p EXCEPT !.timer = Stale(p)]

Edited(p) == list' = Effect(p) /\ UNCHANGED <<server, screen, me, flights, look, mine>>

TypePeriod(d) ==
  /\ screen = "LIST" /\ list.key # None /\ Acts
  /\ d # list.draft
  /\ Edited([list EXCEPT !.draft = d])

ClearStatus ==
  /\ screen = "LIST" /\ list.key # None /\ list.status # {} /\ Acts
  /\ Edited([list EXCEPT !.status = {}])

ToggleStatus(s) ==
  /\ screen = "LIST" /\ list.key # None /\ Acts
  /\ Edited([list EXCEPT !.status = SymDiff(@, {s})])

(* Product, channel and search text are filters like the resource. *)
ChooseResource(r) ==
  /\ screen = "LIST" /\ list.key # None /\ Acts
  /\ r # list.rsrc
  /\ Edited([list EXCEPT !.rsrc = r])

Load(p, cursor) ==
  /\ list' = [p EXCEPT !.seq = @ + 1, !.busy = TRUE]
  /\ flights' = flights \cup {[seq |-> p.seq + 1, key |-> Key(p), cursor |-> cursor, reply |-> None,
                               kept |-> {}]}
  /\ UNCHANGED <<server, screen, me, look, mine>>

Fire ==
  /\ list.timer
  /\ Load([list EXCEPT !.timer = FALSE], None)
  /\ UNCHANGED moves

More ==
  /\ screen = "LIST" /\ Acts
  /\ list.cursor # None /\ ~Stale(list) /\ ~list.busy
  /\ Load(list, list.cursor)

(* What an earlier request answers does not matter: it is dropped. *)
Answer(f) ==
  /\ f.reply = None /\ f.seq = list.seq
  /\ flights' = (flights \ {f}) \cup
                {[f EXCEPT !.reply = Page(rows, f.key, f.cursor), !.kept = Touching(rows, f.key)]}
  /\ UNCHANGED <<server, screen, me, list, look, mine, moves>>

(* setPage: a first page replaces what is shown, a further one is appended   *)
(* while the question is still the same.                                    *)
Shows(p, f) ==
  IF f.cursor = None
  THEN LET q == [p EXCEPT !.items = f.reply.items, !.cursor = f.reply.next, !.key = f.key,
                          !.kept = f.kept]
       IN  IF q.key = p.key THEN q ELSE Effect(q)
  ELSE IF p.key # f.key THEN p
  ELSE [p EXCEPT !.items = @ \o f.reply.items, !.cursor = f.reply.next]

(* The answer to any request but the last is dropped. *)
Deliver(f) ==
  /\ f.reply # None \/ f.seq # list.seq
  /\ flights' = flights \ {f}
  /\ list' = IF f.seq # list.seq THEN list
             ELSE Shows([list EXCEPT !.busy = FALSE, !.failed = FALSE], f)
  /\ UNCHANGED <<server, screen, me, look, mine, moves>>

Lose(f) ==
  /\ flights' = flights \ {f}
  /\ list' = IF f.seq # list.seq THEN list ELSE [list EXCEPT !.busy = FALSE, !.failed = TRUE]
  /\ UNCHANGED <<server, screen, me, look, mine, moves>>

-----------------------------------------------------------------------------
(* ReservationDetailPanel.  The read is two statements; while one is under   *)
(* way again the panel stands with what it had.                             *)

NoLook == [id |-> None, read |-> None, detail |-> None, pending |-> None, patch |-> None]

Idle == look.patch = None

(* transition-rules.ts: what needs a reason. *)
ReasonRequired(from, to) == to \in {"REJECTED", "CANCELED_BY_BIZ"} \/ from \in {"COMPLETED", "NO_SHOW"}

Button(to, reason, ownerOnly) == [to |-> to, reason |-> reason, ownerOnly |-> ownerOnly]

Buttons(status) ==
  CASE status = "REQUESTED" -> {Button("CONFIRMED", FALSE, FALSE), Button("REJECTED", TRUE, FALSE),
                                Button("CANCELED_BY_BIZ", TRUE, FALSE)}
    [] status = "CONFIRMED" -> {Button("COMPLETED", FALSE, FALSE), Button("NO_SHOW", FALSE, FALSE),
                                Button("CANCELED_BY_BIZ", TRUE, FALSE)}
    [] status = "COMPLETED" -> {Button("NO_SHOW", TRUE, TRUE)}
    [] status = "NO_SHOW"   -> {Button("COMPLETED", TRUE, TRUE)}
    [] OTHER -> {}

(* The buttons of a panel that shows this status. *)
Offered(status) == {a \in Buttons(status) : a.ownerOnly => me.role = "OWNER"}

Snapshot(i) == [status |-> rows[i].status, mine |-> rows[i].rsrc = me.mine, history |-> <<>>]

(* Mutant: the reservation is read after its history. *)
ReadsLogsFirst(i) == [status |-> None, mine |-> FALSE, history |-> log[i]]

(* The first statement of getReservation. *)
Reads(i) == Snapshot(i)

(* The second. *)
Completes(i, read) ==
  IF read.status = None THEN [Snapshot(i) EXCEPT !.history = read.history]
  ELSE [read EXCEPT !.history = log[i]]

ReadDetail(i) ==
  /\ screen = "DETAIL" /\ look.id = None
  /\ i \in Placed(rows) /\ Visible(rows, i)
  /\ look' = [look EXCEPT !.id = i, !.read = Reads(i)]
  /\ UNCHANGED <<server, screen, me, list, flights, mine, moves>>

ReadHistory ==
  /\ screen = "DETAIL" /\ look.read # None
  /\ look' = [look EXCEPT !.detail = Completes(look.id, look.read), !.read = None]
  /\ UNCHANGED <<server, screen, me, list, flights, mine, moves>>

SendPatch(p, patch) ==
  /\ look' = [p EXCEPT !.patch = patch @@ [reply |-> None]]
  /\ UNCHANGED <<server, screen, me, list, flights, mine>>

(* A button: a transition that needs a reason opens the reason's box.        *)
Press(a) ==
  /\ screen = "DETAIL" /\ look.detail # None /\ Idle /\ a \in Offered(look.detail.status) /\ Acts
  /\ IF a.reason
     THEN /\ look' = [look EXCEPT !.pending = a]
          /\ UNCHANGED <<server, screen, me, list, flights, mine>>
     ELSE SendPatch(look, [to |-> a.to, reason |-> FALSE])

(* The box stands under the buttons: it goes with the last of them. *)
GiveReason ==
  /\ look.pending # None /\ Idle /\ Offered(look.detail.status) # {} /\ Acts
  /\ SendPatch(look, [to |-> look.pending.to, reason |-> TRUE])

(* The box is closed again. *)
Withdraw ==
  /\ look.pending # None /\ Idle /\ Acts
  /\ look' = [look EXCEPT !.pending = None]
  /\ UNCHANGED <<server, screen, me, list, flights, mine>>

Move(r) ==
  /\ screen = "DETAIL" /\ look.detail # None /\ Idle /\ Acts
  /\ me.role = "OWNER" /\ look.detail.status \in Occupying
  /\ SendPatch(look, [to |-> r, reason |-> FALSE])

Apply(i, row, entry) ==
  /\ rows' = [rows EXCEPT ![i] = row]
  /\ log' = [log EXCEPT ![i] = Append(@, entry)]

Replied(ok) == look' = [look EXCEPT !.patch.reply = IF ok THEN "OK" ELSE "REFUSED"]

TakesOver(rule, row) ==
  rule.takeOver /\ me.role = "MANAGER" /\ row.rsrc # me.mine

(* The status route, as far as the panel can tell: a transition of the table *)
(* for this role, with the reason it needs; approving or rejecting for a     *)
(* colleague moves the reservation.  It may be refused for other reasons.   *)
Decide ==
  /\ ~Idle /\ look.patch.reply = None /\ look.patch.to \in Statuses
  /\ LET i == look.id
         row == rows[i]
         to == look.patch.to
         rule == RuleFor(row.status, to)
         valid == /\ Allowed(row.status, to)
                  /\ "CONSOLE" \in rule.by
                  /\ rule.ownerOnly => me.role = "OWNER"
                  /\ ReasonRequired(row.status, to) => look.patch.reason
     IN  \/ /\ valid
            /\ TakesOver(rule, row) => me.mine # None
            /\ Apply(i, [row EXCEPT !.status = to, !.rsrc = IF TakesOver(rule, row) THEN me.mine ELSE @], to)
            /\ Replied(TRUE)
         \/ UNCHANGED <<rows, log>> /\ Replied(FALSE)
  /\ UNCHANGED <<windows, screen, me, list, flights, mine, moves, changes, edits>>

(* reassignReservation leaves an entry of the same state. *)
Reassign ==
  /\ ~Idle /\ look.patch.reply = None /\ look.patch.to \in Resources
  /\ LET row == rows[look.id]
     IN  \/ /\ row.status \in Occupying
            /\ Apply(look.id, [row EXCEPT !.rsrc = look.patch.to], row.status)
            /\ Replied(TRUE)
         \/ UNCHANGED <<rows, log>> /\ Replied(FALSE)
  /\ UNCHANGED <<windows, screen, me, list, flights, mine, moves, changes, edits>>

(* run, reassign: success closes the box and refreshes, anything else leaves *)
(* the panel as it is.  A reservation out of sight is gone from the screen. *)
Settle(lost) ==
  /\ ~Idle /\ (look.patch.reply # None \/ lost)
  /\ look' = IF look.patch.reply # "OK" \/ lost THEN [look EXCEPT !.patch = None]
             ELSE IF ~Visible(rows, look.id) THEN NoLook
             ELSE [look EXCEPT !.patch = None, !.read = Reads(look.id),
                               !.pending = IF look.patch.to \in Statuses THEN None ELSE @]
  /\ UNCHANGED <<server, screen, me, list, flights, mine, moves>>

-----------------------------------------------------------------------------
(* my-reservations.ts: two statements side by side, in either order. *)

NoPage == [upcoming |-> None, past |-> None, moved |-> {}]

Live == {"REQUESTED", "CONFIRMED"}

UpcomingRows(t) == {i \in Placed(t) : t[i].status \in Live}

(* The latest of what is over, up to the limit; of equal starts, any.        *)
PastRows(t) ==
  LET over == {i \in Placed(t) : t[i].status \notin Live}
      latest(S) == \A i \in S, j \in over \ S : Booked[i].start >= Booked[j].start
  IN  {S \in kSubset(Lesser(PastLimit, Cardinality(over)), over) : latest(S)}

LoadMine(half) ==
  /\ screen = "MINE" /\ mine[half] = None
  /\ \E seen \in IF half = "past" THEN PastRows(rows) ELSE {UpcomingRows(rows)} :
       mine' = [mine EXCEPT ![half] = seen]
  /\ UNCHANGED <<server, screen, me, list, flights, look, moves>>

(* One of them, with its history: again two statements. *)
ReadOwn(i) ==
  /\ screen = "MINE" /\ look.id = None
  /\ i \in Placed(rows)
  /\ look' = [look EXCEPT !.id = i, !.read = Snapshot(i)]
  /\ UNCHANGED <<server, screen, me, list, flights, mine, moves>>

ReadOwnHistory ==
  /\ screen = "MINE" /\ look.read # None
  /\ look' = [look EXCEPT !.detail = Completes(look.id, look.read), !.read = None]
  /\ UNCHANGED <<server, screen, me, list, flights, mine, moves>>

-----------------------------------------------------------------------------
(* Everybody else. *)

Shed(t) ==
  /\ list' = [list EXCEPT !.kept = IF list.key = None THEN {} ELSE @ \cap Touching(t, list.key)]
  /\ flights' = {[f EXCEPT !.kept = @ \cap Touching(t, f.key)] : f \in flights}

Change(i, row, entry) ==
  /\ screen # Closed
  /\ changes < MaxChanges /\ changes' = changes + 1
  /\ Apply(i, row, entry)
  /\ Shed([rows EXCEPT ![i] = row])
  /\ mine' = [mine EXCEPT !.moved = @ \cup {i}]
  /\ UNCHANGED <<windows, screen, me, look, moves, edits>>

Place(i, status) ==
  /\ rows[i].status = "NONE"
  /\ Change(i, [rows[i] EXCEPT !.status = status], status)

Transition(i, to) ==
  /\ Allowed(rows[i].status, to)
  /\ Change(i, [rows[i] EXCEPT !.status = to], to)

Hand(i, r) ==
  /\ rows[i].status \in Occupying /\ r # rows[i].rsrc
  /\ Change(i, [rows[i] EXCEPT !.rsrc = r], rows[i].status)

(* The opening hours of any shop; the calendar reads them anew. *)
SetHours(w) ==
  /\ screen = "CALENDAR"
  /\ edits < MaxEdits /\ edits' = edits + 1
  /\ w # windows
  /\ windows' = w
  /\ UNCHANGED <<rows, log, screen, me, list, flights, look, mine, moves, changes>>

-----------------------------------------------------------------------------
Init ==
  /\ rows = Booked
  /\ log = [i \in Ids |-> IF Booked[i].status = "NONE" THEN <<>> ELSE <<Booked[i].status>>]
  /\ windows = CHOOSE w \in Windows : TRUE
  /\ screen = Closed /\ me = [role |-> "OWNER", mine |-> None, all |-> TRUE]
  /\ list = NoList /\ flights = {} /\ look = NoLook /\ mine = NoPage
  /\ moves = 0 /\ changes = 0 /\ edits = 0

Browse ==
  \/ FirstPage \/ Fire \/ More \/ ClearStatus
  \/ \E d \in Drafts : TypePeriod(d)
  \/ \E s \in {"REQUESTED", "CONFIRMED"} : ToggleStatus(s)
  \/ \E r \in Resources \cup {Whichever} : ChooseResource(r)
  \/ \E f \in flights : Answer(f) \/ Deliver(f) \/ Lose(f)

Handle ==
  \/ \E i \in Ids : ReadDetail(i) \/ ReadOwn(i)
  \/ ReadHistory \/ ReadOwnHistory \/ Withdraw \/ GiveReason \/ Decide \/ Reassign
  \/ \E status \in Statuses : \E a \in Buttons(status) : Press(a)
  \/ \E r \in Resources : Move(r)
  \/ \E lost \in BOOLEAN : Settle(lost)

Others ==
  \E i \in Ids : \/ \E s \in Occupying : Place(i, s)
                 \/ \E s \in Statuses : Transition(i, s)
                 \/ \E r \in Resources : Hand(i, r)

Next ==
  \/ \E s \in {"LIST", "DETAIL", "MINE", "CALENDAR"}, a \in Actors : Open(s, a)
  \/ Browse \/ Handle \/ Others
  \/ \E half \in {"upcoming", "past"} : LoadMine(half)
  \/ \E w \in Windows : SetHours(w)

Spec == Init /\ [][Next]_vars

-----------------------------------------------------------------------------
ItemsOf(p) == {p.items[k] : k \in 1..Len(p.items)}

(* The customer's two lists: what did not move while they were read is in    *)
(* one of them at most, and in none only if it is over and the past is full  *)
(* of what is no earlier.                                                   *)
OwnListed ==
  screen = "MINE" /\ mine.upcoming # None /\ mine.past # None =>
    \A i \in Placed(rows) \ mine.moved :
      /\ ~(i \in mine.upcoming /\ i \in mine.past)
      /\ i \notin mine.upcoming \cup mine.past =>
           /\ rows[i].status \notin Live /\ Cardinality(mine.past) = PastLimit
           /\ \A j \in mine.past : Booked[j].start >= Booked[i].start

(* The pages a member has loaded one after another list every reservation    *)
(* that has answered the question ever since the first of them was read,     *)
(* none twice and in the order of their start, whatever came or changed in   *)
(* between (listReservations' cursor and range, the panel's append); and of  *)
(* a customer's two lists, read side by side, none misses a reservation but  *)
(* by the limit of the past (loadMyReservations, PAST_LIMIT).               *)
PagesComplete ==
  /\ \A k \in 1..(Len(list.items) - 1) : Before(list.items[k], list.items[k + 1])
  /\ list.key # None /\ list.cursor = None => list.kept \subseteq ItemsOf(list)
  /\ OwnListed

(* A reservation's page never shows a state that its own history does not    *)
(* contain, though the two are read by two statements (getReservation), and  *)
(* offers exactly the transitions that the table has for this role, asking   *)
(* for a reason exactly where the table demands one (ACTIONS beside          *)
(* transition-rules.ts).                                                    *)
DetailTrue ==
  look.detail # None =>
    /\ Contains(look.detail.history, look.detail.status)
    /\ screen = "DETAIL" =>
         LET st == look.detail.status
         IN  Offered(st) =
             {Button(rule.to, ReasonRequired(st, rule.to), rule.ownerOnly) :
                rule \in {x \in RULES : /\ x.from = st /\ "CONSOLE" \in x.by
                                        /\ x.ownerOnly => me.role = "OWNER"}}

(* Going through the calendar day by day shows every reservation that holds  *)
(* room once, the early hours of a night that belongs to the day before      *)
(* included, and a longer period has the same columns (getCalendar).        *)
ShownOnce ==
  /\ \A i \in Placed(rows) : rows[i].status \in Shown =>
       Cardinality({k \in Dates : i \in Blocks(Table, windows, k, k, k)}) = 1
  /\ \A from, to \in Dates : \A k \in from..to :
       Blocks(Table, windows, from, to, k) = Blocks(Table, windows, k, k, k)

(* Utilization counts all of a reservation that was sold for opening time of *)
(* the period, the night after its last day included (utilization).         *)
SoldIsCounted ==
  \A from, to \in Dates : from <= to =>
    LET open == OpenUnits(windows, from, to)
        units(i) == rows[i].seats * Cardinality(Occupied(rows[i]) \cap open)
        sold == {i \in Placed(rows) : /\ rows[i].status \in {"CONFIRMED", "COMPLETED"}
                                      /\ (rows[i].start..(rows[i].end - 1)) \cap open # {}}
    IN  BusyUnits(Table, windows, from, to) >= MapThenSumSet(units, sold)

(* The screens do not disagree about the days of a reservation, whatever the *)
(* opening hours: each is once in the calendar and all of it in utilization, *)
(* the list of a day has exactly what is there that day, as many as its      *)
(* cells in the roster say, and the dashboard's link leads to a list with    *)
(* every open request (spansRange's comment wants the screens to agree).    *)
DaysAgree ==
  screen = "CALENDAR" =>
    /\ ShownOnce /\ SoldIsCounted
    /\ \A k \in Dates, r \in Resources :
         LET ofCell == {i \in Placed(rows) : rows[i].status \in Occupying /\ rows[i].rsrc = r}
             there == {i \in ofCell : rows[i].start < Midnight(k + 1) /\ rows[i].end > Midnight(k)}
         IN  /\ there = {i \in ofCell : SpansRange(rows[i], k, k)}
             /\ Cardinality(there) = CellCount(Table, r, k)
    /\ LET range == PendingRange(Table, 0)
       IN  \A i \in Placed(rows) :
             rows[i].status = "REQUESTED" => SpansRange(rows[i], range[1], range[2])
=============================================================================
