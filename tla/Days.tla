---------------------------------- MODULE Days ----------------------------------
(***************************************************************************)
(* Which day a reservation belongs to, for each screen of the console that *)
(* asks: the list of a period (booking/console.ts), the calendar's columns *)
(* (booking/calendar.ts), the cells of the work roster                     *)
(* (schedule/calendar.ts) and the utilization of a week                    *)
(* (booking/dashboard.ts).  A business day may run on past midnight.       *)
(* Instants are numbers, DayLen to a day; a row is [start, end, before,    *)
(* after, seats, rsrc, status], a table a function from ids to rows, and   *)
(* the windows of a date a set of [lo, hi) counted from its midnight.      *)
(***************************************************************************)
EXTENDS ReservationRules

CONSTANTS
  DayLen,
  MaxSpan      \* no reservation is longer

ASSUME DaysAssumption == DayLen \in Nat \ {0} /\ MaxSpan \in Nat

DayOf(i) == i \div DayLen
Midnight(d) == d * DayLen

(* Mutant: only the day a reservation starts on. *)
SpansStart(row, from, to) == row.start >= Midnight(from) /\ row.start < Midnight(to + 1)

(* spansRange: the reservations of the days from..to, the first bound only   *)
(* there for the index.                                                     *)
SpansRange(row, from, to) ==
  LET lo == Midnight(from)
      hi == Midnight(to + 1)
  IN  row.start >= lo - MaxSpan /\ row.start < hi /\ row.end > lo

-----------------------------------------------------------------------------
(* The roster: the start date and the end date, unless it ends at midnight. *)

TouchedDays(row) ==
  {DayOf(row.start)} \cup
  (IF DayOf(row.end) # DayOf(row.start) /\ row.end % DayLen # 0 THEN {DayOf(row.end)} ELSE {})

CellCount(table, r, d) ==
  Cardinality({i \in DOMAIN table :
                 table[i].rsrc = r /\ table[i].status \in Occupying /\ d \in TouchedDays(table[i])})

-----------------------------------------------------------------------------
(* The calendar: what has started from midnight of `from` to the end of the  *)
(* day after `to`, each in the column of its business day.                  *)

Shown == {"REQUESTED", "CONFIRMED", "COMPLETED", "NO_SHOW"}

CalendarRows(table, from, to) ==
  {i \in DOMAIN table : /\ table[i].status \in Shown
                        /\ table[i].start >= Midnight(from) /\ table[i].start < Midnight(to + 2)}

ClosingOf(windows, d) == Max({DayLen} \cup {w.hi : w \in windows[d]})

(* Whether instant i lies between midnight of date d and its closing time.  *)
Covers(windows, d, i) == LET s == i - Midnight(d) IN s >= 0 /\ s < ClosingOf(windows, d)

(* The column of date d in the calendar of from..to. *)
Blocks(table, windows, from, to, d) ==
  {i \in CalendarRows(table, from, to) :
     Covers(windows, d, table[i].start) /\ ~Covers(windows, d - 1, table[i].start)}

-----------------------------------------------------------------------------
(* Utilization of the days from..to: seat-units sold inside the spans. *)

OpenUnits(windows, from, to) ==
  UNION {{Midnight(d) + u : u \in UNION {w.lo..(w.hi - 1) : w \in windows[d]}} : d \in from..to}

Occupied(row) == (row.start - row.before)..(row.end + row.after - 1)

SoldRows(table, from, to) ==
  {i \in DOMAIN table : /\ table[i].status \in {"CONFIRMED", "COMPLETED"}
                        /\ table[i].start >= Midnight(from) - MaxSpan
                        /\ table[i].start < Midnight(to + 2)
                        /\ table[i].end > Midnight(from)}

BusyUnits(table, windows, from, to) ==
  LET busy(i) == table[i].seats * Cardinality(Occupied(table[i]) \cap OpenUnits(windows, from, to))
  IN  MapThenSumSet(busy, SoldRows(table, from, to))

(* The dashboard's link to the requests: from the first one's date to the    *)
(* last one's, which are the dates the list is opened with.                 *)
PendingRange(table, today) ==
  LET starts == {table[i].start : i \in {j \in DOMAIN table : table[j].status = "REQUESTED"}}
  IN  IF starts = {} THEN <<today, today>> ELSE <<DayOf(Min(starts)), DayOf(Max(starts))>>
=============================================================================
