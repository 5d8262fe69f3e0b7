--------------------------------- MODULE Slots ---------------------------------
(***************************************************************************)
(* The start times a product offers on a business day: opening hours,      *)
(* repeating holidays and weekly patterns turned into windows              *)
(* (features/schedule/resolve.ts, operating.ts), then candidates, lead     *)
(* time and what is left of the room (features/booking/slots.ts).          *)
(* A day is a number, its weekday the remainder by WeekLen; a month has    *)
(* MonthLen days and a year YearLen.  Minutes are units of the day, and an *)
(* instant is the unit counted from day 0: one timezone without summer     *)
(* time.  Beside the code's interval arithmetic stands a reference that    *)
(* decides unit by unit.                                                   *)
(***************************************************************************)
EXTENDS WorkDay, ReservationRules

CONSTANTS WeekLen, MonthLen, YearLen, Forever, AnyResource

ASSUME CalendarAssumption ==
  /\ {WeekLen, MonthLen, YearLen, Forever} \subseteq Nat \ {0}
  /\ YearLen % MonthLen = 0

Dow(d) == d % WeekLen
Instant(d, m) == d * DayLen + m

-----------------------------------------------------------------------------
(* Opening hours: a set of entries, one at most for a weekday. *)

EntryOn(hours, d) == {h \in hours : h.dow = Dow(d)}

(* No entry at all means that nobody has set the hours: the day is open.  A  *)
(* weekday missing from a list that exists is a closed day.  Breaks are cut  *)
(* as they are written.                                                     *)
OpeningWindows(hours, d, cutBreaks) ==
  LET breaks(h) == IF cutBreaks THEN {Span(b.start, b.end) : b \in h.breaks} ELSE {}
  IN  IF hours = {} THEN {Interval(0, DayLen)}
      ELSE UNION {Subtract({Span(h.open, h.close)}, breaks(h)) : h \in EntryOn(hours, d)}

(* Mutant: the hours of the business come first. *)
EffectiveBusiness(own, business) == IF business # {} THEN business ELSE own

(* A product's own hours replace those of the business. *)
EffectiveHours(own, business) == IF own # {} THEN own ELSE business

-----------------------------------------------------------------------------
(* Holidays. *)

HolidayApplies(h, d) ==
  /\ d >= h.from
  /\ d <= h.until
  /\ \/ h.type = "ONCE"
     \/ h.type = "WEEKLY" /\ Dow(d) = h.on
     \/ h.type = "MONTHLY_DAY" /\ d % MonthLen = h.on
     \/ h.type = "YEARLY" /\ d % YearLen = h.from % YearLen

(* A whole day takes what runs past midnight with it. *)
HolidayCut(h) == IF h.fullDay THEN Interval(0, 2 * DayLen) ELSE Span(h.start, h.end)

CutsOn(hols, r, d) ==
  {HolidayCut(h) : h \in {x \in hols : x.rsrc \in {AnyResource, r} /\ HolidayApplies(x, d)}}

-----------------------------------------------------------------------------
(* Windows. *)

(* What the weekly pattern gives: a person with rows but none for the day is *)
(* off, a person without any row has not been given hours and is on all day. *)
PatternOn(rows, r, d) ==
  LET mine == {s \in rows : s.rsrc = r}
      onDay == {s \in mine : s.dow = Dow(d) /\ s.from <= d /\ d <= s.to}
  IN  IF mine = {} THEN {Interval(0, DayLen)}
      ELSE UNION {Subtract({Span(s.start, s.end)}, {Span(b.start, b.end) : b \in s.breaks}) :
                  s \in onDay}

Crossing(a, b) ==
  LET meet(x, y) == Interval(Max({x.start, y.start}), Min({x.end, y.end}))
  IN  Normalize({meet(x, y) : x \in a, y \in b})

OfDay(xs, r, d) == {x \in xs : x.rsrc = r /\ x.date = d}

(* operatingWindows: staff have a pattern, spaces have the opening hours. *)
OperatingWindows(ctx, opening, r, d) ==
  IF ctx.resources[r].staff
  THEN Crossing(opening, ResolveWorkDay(PatternOn(ctx.rows, r, d), OfDay(ctx.xs, r, d),
                                        CutsOn(ctx.hols, r, d)))
  ELSE Subtract(opening, CutsOn(ctx.hols, r, d) \cup OfKind(OfDay(ctx.xs, r, d), "BLOCK"))

-----------------------------------------------------------------------------
(* The range of days that can be booked. *)

(* Yesterday, when its hours run past midnight and have not ended. *)
StillRunning(hours, d, now) ==
  \E h \in EntryOn(hours, d) :
    /\ Span(h.open, h.close).end > DayLen
    /\ now < Instant(d, Span(h.open, h.close).end)

Today(now) == now \div DayLen

DateInRange(ctx, d) ==
  /\ d <= Today(ctx.now) + ctx.advance
  /\ \/ d >= Today(ctx.now)
     \/ StillRunning(EffectiveHours(ctx.product.hours, ctx.hours), d, ctx.now)

-----------------------------------------------------------------------------
(* Candidates. *)

(* A fixed time before the opening belongs to the small hours of the day     *)
(* when that puts it inside the opening, and stays where it is otherwise.    *)
FixedStart(ctx, t, d) ==
  LET entry == EntryOn(EffectiveHours(ctx.product.hours, ctx.hours), d)
      early(h) == t < h.open /\ t + DayLen < Span(h.open, h.close).end
  IN  IF \E h \in entry : early(h) THEN t + DayLen ELSE t

FixedStarts(ctx, d) ==
  {FixedStart(ctx, f.time, d) : f \in {x \in ctx.product.fixed : x.dow = Dow(d)}}

(* The grid is aligned to midnight, not to the opening. *)
FreeStarts(windows, interval, duration) ==
  {t \in 0..(2 * DayLen) : t % interval = 0 /\ Inside(windows, t, t + duration)}

IsFixed(ctx) == ctx.product.mode = "FIXED"

(* Classes are held through the breaks of the business. *)
Opening(ctx, d) ==
  OpeningWindows(EffectiveHours(ctx.product.hours, ctx.hours), d, ~IsFixed(ctx))

Duration(p, q) == IF p.options # {} /\ q.duration # 0 THEN q.duration ELSE p.duration

Candidates(ctx, q, windows) ==
  IF IsFixed(ctx) THEN FixedStarts(ctx, q.date)
  ELSE FreeStarts(windows, ctx.product.interval, Duration(ctx.product, q))

-----------------------------------------------------------------------------
(* What is left. *)

OccupyRange(ctx, q, t) ==
  [lo |-> Instant(q.date, t) - ctx.product.before,
   hi |-> Instant(q.date, t) + Duration(ctx.product, q) + ctx.product.after]

CapOn(ctx, r) == Lesser(ctx.product.perSlot, ctx.resources[r].capacity)

(* A capacity of one is one team, whatever its size. *)
Left(ctx, q, r, t) ==
  LET peak == PeakOccupancy(OccupyRange(ctx, q, t), ctx.table, OccupyingOn(ctx.table, r))
  IN  IF CapOn(ctx, r) = 1 THEN (IF peak > 0 THEN 0 ELSE 1)
      ELSE Max({0, CapOn(ctx, r) - peak})

Needed(ctx, q, r) == IF CapOn(ctx, r) = 1 THEN 1 ELSE q.party

(* Out of the windows, then too soon, then full. *)
Verdict(ctx, q, r, windows, t) ==
  IF ~Inside(windows, t, t + Duration(ctx.product, q)) THEN "OUT_OF_WINDOW"
  ELSE IF Instant(q.date, t) < ctx.now + ctx.lead THEN "LEAD_TIME"
  ELSE IF Left(ctx, q, r, t) < Needed(ctx, q, r) THEN "FULL"
  ELSE "OPEN"

Usable(ctx, q) ==
  {r \in ctx.product.resources :
     ctx.resources[r].active /\ q.rsrc \in {AnyResource, r}}

InputRefused(p, q) ==
  \/ p.options # {} /\ q.duration # 0 /\ q.duration \notin p.options
  \/ q.party < 1 \/ q.party > p.maxParty
  \/ p.pick = "REQUIRED" /\ q.rsrc = AnyResource
  \/ q.rsrc # AnyResource /\ q.rsrc \notin p.resources

(* What a resource with these windows says of each candidate. *)
OffersOf(ctx, q, r, windows) ==
  {[start |-> t, rsrc |-> r, verdict |-> Verdict(ctx, q, r, windows, t)] :
     t \in Candidates(ctx, q, windows)}

Offers(ctx, q) ==
  IF InputRefused(ctx.product, q) \/ ~DateInRange(ctx, q.date) THEN {}
  ELSE UNION {OffersOf(ctx, q, r, OperatingWindows(ctx, Opening(ctx, q.date), r, q.date)) :
              r \in Usable(ctx, q)}

(* mergeByStartTime: one slot for a start, whoever can take it. *)
Slot(ctx, q, t, who) ==
  LET left(r) == Left(ctx, q, r, t)
  IN  [start |-> t, rsrcs |-> who, remaining |-> MapThenSumSet(left, who)]

MergeByStartTime(ctx, q, open) ==
  {Slot(ctx, q, t, {o.rsrc : o \in {x \in open : x.start = t}}) : t \in {o.start : o \in open}}

ComputeSlots(ctx, q) ==
  MergeByStartTime(ctx, q, {o \in Offers(ctx, q) : o.verdict = "OPEN"})

-----------------------------------------------------------------------------
(* The reference: a resource is free for a party from t when, unit by unit,  *)
(* the shop is open, the resource is on duty and the room is enough.        *)

(* A break written with an hour before the opening lies after midnight.      *)
BreakOf(h, b) ==
  IF b.start < h.open THEN Span(b.start + DayLen, IF b.end < b.start THEN b.end + 2 * DayLen
                                                  ELSE b.end + DayLen)
  ELSE Span(b.start, b.end)

OpenAt(ctx, d, u) ==
  LET own   == ctx.product.hours
      hours == IF own = {} THEN ctx.hours ELSE own
  IN  \/ hours = {} /\ u < DayLen
      \/ \E h \in EntryOn(hours, d) :
           /\ Covers({Span(h.open, h.close)}, u)
           /\ IsFixed(ctx) \/ ~Covers({BreakOf(h, b) : b \in h.breaks}, u)

AtWork(ctx, r, d, u) ==
  LET cuts == CutsOn(ctx.hols, r, d)
      xs   == OfDay(ctx.xs, r, d)
  IN  IF ctx.resources[r].staff THEN OnDuty(PatternOn(ctx.rows, r, d), xs, cuts, u)
      ELSE ~Covers(cuts \cup OfKind(xs, "BLOCK"), u)

RoomAt(ctx, q, r, v) ==
  LET people == PartyAt(ctx.table, OccupyingOn(ctx.table, r), v)
  IN  IF CapOn(ctx, r) = 1 THEN people = 0 ELSE people + q.party <= CapOn(ctx, r)

FreeFrom(ctx, q, r, t) ==
  /\ \A u \in t..(t + Duration(ctx.product, q) - 1) :
       OpenAt(ctx, q.date, u) /\ AtWork(ctx, r, q.date, u)
  /\ \A v \in OccupyRange(ctx, q, t).lo..(OccupyRange(ctx, q, t).hi - 1) : RoomAt(ctx, q, r, v)
  /\ Instant(q.date, t) >= ctx.now + ctx.lead
  /\ DateInRange(ctx, q.date)
  /\ IF IsFixed(ctx) THEN t \in FixedStarts(ctx, q.date) ELSE t % ctx.product.interval = 0
=============================================================================
