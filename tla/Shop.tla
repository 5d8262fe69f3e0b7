---------------------------------- MODULE Shop ----------------------------------
(***************************************************************************)
(* What an owner configures, beside what customers place on it: the        *)
(* opening hours of the business (features/business/settings.ts), the      *)
(* products (features/product/products.ts), weekly patterns and holidays   *)
(* (features/schedule), each changed by a transaction that reads the       *)
(* bookings before it writes, and bookings placed by a transaction that    *)
(* computes the slots before it inserts (features/booking/create.ts).      *)
(* A call is two steps, its reads and its writes; what it has read is in   *)
(* calls[c].  Rows a transaction has locked FOR UPDATE are locked until    *)
(* its second step, and so are they for the INSERT of a reservation, whose *)
(* foreign keys lock the rows they point at.                               *)
(***************************************************************************)
EXTENDS Slots

CONSTANTS
  Callers, NoCall,
  Products, Resources,         \* Resources: id -> [staff, capacity, active]
  Exceptions,                  \* the approved work exceptions, fixed here
  Lead, Advance,
  InitHours, HoursForms,       \* sets of opening entries
  InitProduct, ProductForms,   \* product records, with their status
  InitRows, PatternForms,      \* sets of [dow, start, end, breaks]
  HolidayForms,
  Parties, Starts, Clock,      \* party sizes, start times asked for, times of the clock
  MaxTime, MaxStarts, MaxBookings

ASSUME ShopAssumption ==
  /\ {Lead, Advance, MaxTime, MaxStarts, MaxBookings} \subseteq Nat
  /\ NoCall \notin Callers \cup Products \cup DOMAIN Resources
  /\ IsFiniteSet(DOMAIN Resources)
  /\ Parties \subseteq Nat \ {0}
  /\ \A f \in ProductForms \cup {InitProduct} :
       /\ {"status", "perSlot"} \subseteq DOMAIN f /\ f.status # "NONE"
       /\ {f.perSlot, f.duration} \subseteq Nat \ {0} /\ {f.before, f.after} \subseteq Nat
  /\ Starts \subseteq 0..MaxTime /\ Clock \subseteq 0..MaxTime /\ 0 \in Clock

(* loose: bookings placed or moved out while the hours changed (for the properties). *)
VARIABLES now, hours, product, rows, hols, table, calls, starts, loose

vars == <<now, hours, product, rows, hols, table, calls, starts, loose>>

Times == 0..MaxTime
Days  == 0..(MaxTime \div DayLen)
Idle  == [k |-> "NONE"]
Statuses4 == {"DRAFT", "ACTIVE", "HIDDEN", "ARCHIVED"}

NoProduct == [status |-> "NONE"]

Init ==
  /\ now = 0
  /\ hours = InitHours
  /\ product \in [Products -> {InitProduct, NoProduct}]
  /\ \E p \in Products : product[p] = InitProduct
  /\ rows = InitRows
  /\ hols = {}
  /\ table = <<>>
  /\ calls = [c \in Callers |-> Idle]
  /\ starts = 0
  /\ loose = {}

-----------------------------------------------------------------------------
(* Reading bookings. *)

Exists(p) == product[p].status # "NONE"
Live == {i \in DOMAIN table : table[i].status \in Occupying}
LiveOf(p) == {i \in Live : table[i].product = p}

(* futureReservationCount counts what starts later than now; hours-conflict  *)
(* also what starts this instant.                                           *)
FutureOf(p) == {i \in LiveOf(p) : table[i].start > now}
ComingOf(p) == {i \in LiveOf(p) : table[i].start >= now}

(* Mutant: only the start has to be inside. *)
FitsByStart(b, h) ==
  LET d == b.start \div DayLen
      s == b.start % DayLen
  IN  \/ Inside(OpeningWindows(h, d, TRUE), s, s + 1)
      \/ d > 0 /\ Inside(OpeningWindows(h, d - 1, TRUE), s + DayLen, s + DayLen + 1)

(* fitsInHours: the whole booking in the windows of its own calendar day, or *)
(* in those of the day before run on past midnight.  Breaks always count.   *)
FitsInHours(b, h) ==
  LET d == b.start \div DayLen
      s == b.start % DayLen
      e == s + (b.end - b.start)
  IN  \/ Inside(OpeningWindows(h, d, TRUE), s, e)
      \/ d > 0 /\ Inside(OpeningWindows(h, d - 1, TRUE), s + DayLen, e + DayLen)

OutsideHours(ids, h) == {i \in ids : ~FitsInHours(table[i], h)}

(* Products with hours of their own are not asked. *)
ConflictsForBusiness(next) ==
  UNION {OutsideHours(ComingOf(p), next) :
         p \in {x \in Products : Exists(x) /\ product[x].hours = {}}}

ConflictsForProduct(p, next) == OutsideHours(ComingOf(p), EffectiveHours(next, hours))

(* peakFutureOccupancy: the worst moment of any resource, people or teams. *)
PeakFuture(p, teams) ==
  LET t == [i \in FutureOf(p) |->
              IF teams THEN [table[i] EXCEPT !.party = 1] ELSE table[i]]
      on(r) == {i \in FutureOf(p) : table[i].rsrc = r}
      span(r) == [lo |-> Min({t[i].lo : i \in on(r)}), hi |-> Max({t[i].hi : i \in on(r)})]
  IN  Max({0} \cup {PeakOccupancy(span(r), t, on(r)) :
                    r \in {x \in DOMAIN Resources : on(x) # {}}})

-----------------------------------------------------------------------------
(* Locks: the rows a call has read FOR UPDATE. *)

LockedBy(c) ==
  CASE calls[c].k = "HOURS" -> {"BUSINESS"}
    [] calls[c].k \in {"PRODUCT", "REMOVE"} -> {calls[c].product}
    [] calls[c].k = "PATTERN" -> calls[c].rsrcs
    [] OTHER -> {}

Free(things, c) == \A d \in Callers \ {c} : things \cap LockedBy(d) = {}

(* Mutant: updateProduct reads its row without FOR UPDATE. *)
FreeOfOthers(things, c) ==
  \A d \in Callers \ {c} : calls[d].k = "PRODUCT" \/ things \cap LockedBy(d) = {}

(* Mutant: the product's row is not waited for. *)
InsertWaitsNot(c, r) == ~FreeOfOthers({"BUSINESS", calls[c].q.product, r}, c)

(* What the foreign keys of a new reservation make it wait for. *)
InsertWaits(c, r) == ~Free({"BUSINESS", calls[c].q.product, r}, c)

Begin(c, call) ==
  /\ calls[c] = Idle
  /\ starts < MaxStarts
  /\ starts' = starts + 1
  /\ calls' = [calls EXCEPT ![c] = call]
  /\ UNCHANGED <<now, hours, product, rows, hols, table>>

End(c) ==
  /\ calls' = [calls EXCEPT ![c] = Idle]
  /\ UNCHANGED <<now, starts>>

(* A call that changes hours is alone while no other does. *)
ChangesHours(call) == call.k \in {"HOURS", "PRODUCT"}
Alone(c) == \A d \in Callers \ {c} : ~ChangesHours(calls[d])
SeenBy(c, call) == [d \in Callers |-> IF d = c THEN call
                                      ELSE IF ChangesHours(calls[d])
                                           THEN [calls[d] EXCEPT !.alone = FALSE]
                                           ELSE calls[d]]

-----------------------------------------------------------------------------
(* updateBusinessInfo. *)

HoursCheck(c, next) ==
  /\ calls[c] = Idle /\ starts < MaxStarts
  /\ Free({"BUSINESS"}, c)
  /\ next # hours
  /\ ConflictsForBusiness(next) = {}
  /\ starts' = starts + 1
  /\ calls' = SeenBy(c, [k |-> "HOURS", next |-> next, alone |-> Alone(c)])
  /\ UNCHANGED <<now, hours, product, rows, hols, table, loose>>

(* Bookings that hours changed side by side may have left outside. *)
Loosened(c) == IF calls[c].alone THEN {} ELSE Live

HoursWrite(c) ==
  /\ calls[c].k = "HOURS"
  /\ hours' = calls[c].next
  /\ loose' = loose \cup Loosened(c)
  /\ End(c)
  /\ UNCHANGED <<product, rows, hols, table>>

-----------------------------------------------------------------------------
(* Products. *)

LongestOpening(h) == Max({Span(x.open, x.close).end - x.open : x \in h})

(* checkAgainstBusiness; `kept` are the resources already connected. *)
SuitsBusiness(form, kept) ==
  LET linked == form.resources
  IN  /\ linked \subseteq DOMAIN Resources
      /\ \A r \in linked : Resources[r].active \/ r \in kept
      /\ \A r \in linked : form.perSlot <= Resources[r].capacity
      /\ hours # {} \/ form.hours # {}
      /\ form.duration <= LongestOpening(EffectiveHours(form.hours, hours))

Shape(f) == [f EXCEPT !.status = "-", !.hours = {}, !.pick = "-", !.maxParty = 0]

(* Lowered capacity has to hold what is booked, and a busy resource stays.  *)
ShapeAllowed(p, form) ==
  \/ Shape(form) = Shape(product[p])
  \/ FutureOf(p) = {}
  \/ /\ form.perSlot < product[p].perSlot => PeakFuture(p, form.perSlot = 1) <= form.perSlot
     /\ \A i \in FutureOf(p) : table[i].rsrc \in product[p].resources => table[i].rsrc \in form.resources

ProductCheck(c, p, form) ==
  /\ calls[c] = Idle /\ starts < MaxStarts
  /\ Free({p}, c)
  /\ Exists(p) /\ product[p].status # "ARCHIVED"
  /\ form # product[p]
  /\ SuitsBusiness(form, product[p].resources)
  /\ form.hours # product[p].hours => ConflictsForProduct(p, form.hours) = {}
  /\ ShapeAllowed(p, form)
  /\ starts' = starts + 1
  /\ calls' = SeenBy(c, [k |-> "PRODUCT", product |-> p, next |-> form, alone |-> Alone(c)])
  /\ UNCHANGED <<now, hours, product, rows, hols, table, loose>>

ProductWrite(c) ==
  /\ calls[c].k = "PRODUCT"
  /\ product' = [product EXCEPT ![calls[c].product] = calls[c].next]
  /\ loose' = loose \cup Loosened(c)
  /\ End(c)
  /\ UNCHANGED <<hours, rows, hols, table>>

CreateCheck(c, p, form) ==
  /\ ~Exists(p)
  /\ \A d \in Callers : calls[d].k = "CREATE" => calls[d].product # p
  /\ SuitsBusiness(form, {})
  /\ Begin(c, [k |-> "CREATE", product |-> p, next |-> form])
  /\ UNCHANGED loose

CreateWrite(c) ==
  /\ calls[c].k = "CREATE"
  /\ product' = [product EXCEPT ![calls[c].product] = calls[c].next]
  /\ End(c)
  /\ UNCHANGED <<hours, rows, hols, table, loose>>

(* updateProductLimited: a manager shows or hides an assigned product. *)
LimitedCheck(c, p, status) ==
  /\ Exists(p) /\ product[p].status \notin {"ARCHIVED", "DRAFT"}
  /\ Begin(c, [k |-> "LIMITED", product |-> p, status |-> status])
  /\ UNCHANGED loose

Toggles(p) == product[p].status \in {"ACTIVE", "HIDDEN"}

LimitedWrite(c) ==
  LET p == calls[c].product
  IN  /\ calls[c].k = "LIMITED"
      /\ Free({p}, c)
      /\ product' = IF Toggles(p) THEN [product EXCEPT ![p].status = calls[c].status] ELSE product
      /\ End(c)
      /\ UNCHANGED <<hours, rows, hols, table, loose>>

(* setProductStatus: one conditional statement. *)
SetStatus(p, status) ==
  /\ starts < MaxStarts
  /\ Free({p}, NoCall)
  /\ product[p].status \notin {"NONE", "ARCHIVED", status}
  /\ product' = [product EXCEPT ![p].status = status]
  /\ starts' = starts + 1
  /\ UNCHANGED <<now, hours, rows, hols, table, calls, loose>>

(* removeProduct: any booking at all, and it is archived. *)
RemoveCheck(c, p) ==
  /\ Free({p}, c)
  /\ Exists(p)
  /\ Begin(c, [k |-> "REMOVE", product |-> p,
               booked |-> \E i \in DOMAIN table : table[i].product = p])
  /\ UNCHANGED loose

RemoveWrite(c) ==
  LET p == calls[c].product
  IN  /\ calls[c].k = "REMOVE"
      /\ product' = IF calls[c].booked THEN [product EXCEPT ![p].status = "ARCHIVED"]
                    ELSE [product EXCEPT ![p] = NoProduct]
      /\ End(c)
      /\ UNCHANGED <<hours, rows, hols, table, loose>>

-----------------------------------------------------------------------------
(* Weekly patterns. *)

(* setPattern: `today` is read before the rows are locked. *)
PatternCheck(c, rs, days, from) ==
  /\ rs \subseteq {r \in DOMAIN Resources : Resources[r].staff}
  /\ Free(rs, c)
  /\ from >= Today(now)
  /\ Begin(c, [k |-> "PATTERN", rsrcs |-> rs, days |-> days, from |-> from])
  /\ UNCHANGED loose

(* Mutant: the version before ends on the day the new one begins. *)
VersionOverlapping(old, r, days, from) ==
  LET kept == {s \in old : s.rsrc # r \/ s.from < from}
      close(s) == IF s.rsrc = r /\ s.to > from THEN [s EXCEPT !.to = from] ELSE s
  IN  {close(s) : s \in kept}
      \cup {[rsrc |-> r, dow |-> d.dow, start |-> d.start, end |-> d.end, breaks |-> d.breaks,
             from |-> from, to |-> Forever] : d \in days}

(* What starts later goes, what is open is closed the day before. *)
NewVersion(old, r, days, from) ==
  LET kept == {s \in old : s.rsrc # r \/ s.from < from}
      close(s) == IF s.rsrc = r /\ s.to >= from THEN [s EXCEPT !.to = from - 1] ELSE s
  IN  {close(s) : s \in kept}
      \cup {[rsrc |-> r, dow |-> d.dow, start |-> d.start, end |-> d.end, breaks |-> d.breaks,
             from |-> from, to |-> Forever] : d \in days}

PatternWrite(c) ==
  LET version(r, old) == NewVersion(old, r, calls[c].days, calls[c].from)
  IN  /\ calls[c].k = "PATTERN"
      /\ rows' = FoldSet(version, rows, calls[c].rsrcs)
      /\ End(c)
      /\ UNCHANGED <<hours, product, hols, table, loose>>

-----------------------------------------------------------------------------
(* Holidays. *)

Meets(s, e, cut) == s < cut.end /\ e > cut.start

(* reservationsOnDates: by calendar days, the first and the last. *)
OnHoliday(b, h) ==
  LET first == b.start \div DayLen
      last  == b.end \div DayLen
      s     == b.start % DayLen
      cut   == IF h.fullDay THEN Interval(0, DayLen) ELSE Span(h.start, h.end)
      on(d) == d >= Today(now) /\ HolidayApplies(h, d)
  IN  \/ on(first) /\ Meets(s, s + (b.end - b.start), cut)
      \/ last # first /\ on(last) /\ Meets(0, b.end % DayLen, cut)

HolidayConflicts(h) ==
  {i \in Live : h.rsrc \in {AnyResource, table[i].rsrc} /\ OnHoliday(table[i], h)}

(* createHoliday: no row is locked. *)
HolidayCheck(c, h, keep) ==
  /\ keep \/ HolidayConflicts(h) = {}
  /\ Begin(c, [k |-> "HOLIDAY", h |-> h])
  /\ UNCHANGED loose

HolidayWrite(c) ==
  LET h == calls[c].h
  IN  /\ calls[c].k = "HOLIDAY"
      /\ hols' = hols \cup {h}
      /\ End(c)
      /\ UNCHANGED <<hours, product, rows, table, loose>>

HolidayDelete(h) ==
  /\ starts < MaxStarts
  /\ hols' = hols \ {h}
  /\ starts' = starts + 1
  /\ UNCHANGED <<now, hours, product, rows, table, calls, loose>>

-----------------------------------------------------------------------------
(* Bookings. *)

(* The versions a query for the days [from, to] loads. *)
RowsLoaded(from, to) == {s \in rows : s.from <= to /\ s.to >= from}

(* loadSlotContext for those days. *)
Context(p, from, to) ==
  [now |-> now, hours |-> hours, lead |-> Lead, advance |-> Advance,
   product |-> product[p], resources |-> Resources, rows |-> RowsLoaded(from, to),
   xs |-> Exceptions, hols |-> hols, table |-> table]

(* place() looks at the calendar day of the start and the day before it. *)
Placing(p, at) == Context(p, at \div DayLen - 1, at \div DayLen)

BusinessDays(at) == {at \div DayLen - 1, at \div DayLen} \cap Nat

Query(d, party) == [date |-> d, party |-> party, duration |-> 0, rsrc |-> AnyResource]

Naming(slots, d, at) == UNION {s.rsrcs : s \in {x \in slots : Instant(d, x.start) = at}}

(* The first day with somebody. *)
FirstOf(who, at) ==
  IF \A d \in DOMAIN who : who[d] = {} THEN [day |-> at \div DayLen, rsrcs |-> {}]
  ELSE LET d == Min({x \in DOMAIN who : who[x] # {}}) IN [day |-> d, rsrcs |-> who[d]]

(* findSlot: the resources a computed slot names, on the first day that has one. *)
Found(ctx, at, party) ==
  FirstOf([d \in BusinessDays(at) |-> Naming(ComputeSlots(ctx, Query(d, party)), d, at)], at)

(* A request is verified; an empty answer is its refusal. *)
PlaceVerify(c, p, at, party) ==
  /\ product[p].status = "ACTIVE"
  /\ \E found \in {Found(Placing(p, at), at, party)} :
       Begin(c, [k |-> "PLACE", q |-> [product |-> p, at |-> at, party |-> party],
                 day |-> found.day, rsrcs |-> found.rsrcs,
                 as |-> product[p], under |-> hours])
  /\ UNCHANGED loose

RowOf(call, r) ==
  LET a == call.q.at
      f == call.as
  IN  [status |-> "CONFIRMED", product |-> call.q.product, rsrc |-> r, day |-> call.day,
       start |-> a, end |-> a + f.duration, lo |-> a - f.before, hi |-> a + f.duration + f.after,
       party |-> call.q.party, fixed |-> f.mode = "FIXED"]

HasRoom(call, r) ==
  LET row == RowOf(call, r)
  IN  FitsNew([lo |-> row.lo, hi |-> row.hi], row.party, table, r,
              call.as.perSlot, Resources[r].capacity)

(* Placed by a verification that something has overtaken. *)
Overtaken(call) ==
  \/ EffectiveHours(call.as.hours, call.under)
       # EffectiveHours(product[call.q.product].hours, hours)
  \/ \E d \in Callers : ChangesHours(calls[d])

(* insertOne with its re-count; the resources that have filled up are passed. *)
PlaceInsert(c) ==
  LET call == calls[c]
      id   == Cardinality(DOMAIN table) + 1
  IN  /\ call.k = "PLACE"
      /\ id <= MaxBookings
      /\ Exists(call.q.product)
      /\ \E r \in call.rsrcs :
           /\ ~InsertWaits(c, r)
           /\ HasRoom(call, r)
           /\ table' = [i \in DOMAIN table \cup {id} |-> IF i = id THEN RowOf(call, r) ELSE table[i]]
      /\ loose' = IF Overtaken(call) THEN loose \cup {id} ELSE loose
      /\ End(c)
      /\ UNCHANGED <<hours, product, rows, hols>>

(* No slot, no room left, or the product has gone. *)
PlaceRefused(c) ==
  LET call == calls[c]
  IN  /\ call.k = "PLACE"
      /\ ~Exists(call.q.product) \/ \A r \in call.rsrcs : ~InsertWaits(c, r) /\ ~HasRoom(call, r)
      /\ End(c)
      /\ UNCHANGED <<hours, product, rows, hols, table, loose>>

Cancel(i) ==
  /\ i \in Live
  /\ table[i].start > now
  /\ table' = [table EXCEPT ![i].status = "CANCELED_BY_USER"]
  /\ UNCHANGED <<now, hours, product, rows, hols, calls, starts, loose>>

Tick ==
  /\ \E t \in Clock : t > now /\ now' = t
  /\ UNCHANGED <<hours, product, rows, hols, table, calls, starts, loose>>

(* The bounds are reached. *)
Finished ==
  /\ starts = MaxStarts
  /\ now = Max(Clock)
  /\ UNCHANGED vars

Check(c) ==
  \/ \E next \in HoursForms : HoursCheck(c, next)
  \/ \E p \in Products, form \in ProductForms : ProductCheck(c, p, form) \/ CreateCheck(c, p, form)
  \/ \E p \in Products, s \in {"ACTIVE", "HIDDEN"} : LimitedCheck(c, p, s)
  \/ \E p \in Products : RemoveCheck(c, p)
  \/ \E r \in DOMAIN Resources, days \in PatternForms, d \in Days : PatternCheck(c, {r}, days, d)
  \/ \E h \in HolidayForms, keep \in BOOLEAN : HolidayCheck(c, h, keep)
  \/ \E p \in Products, at \in Starts, party \in Parties : PlaceVerify(c, p, at, party)

Write(c) ==
  \/ HoursWrite(c) \/ ProductWrite(c) \/ CreateWrite(c) \/ LimitedWrite(c) \/ RemoveWrite(c)
  \/ PatternWrite(c) \/ HolidayWrite(c) \/ PlaceInsert(c) \/ PlaceRefused(c)

Next ==
  \/ \E c \in Callers : Check(c) \/ Write(c)
  \/ \E p \in Products, s \in {"DRAFT", "ACTIVE", "HIDDEN"} : SetStatus(p, s)
  \/ \E h \in hols : HolidayDelete(h)
  \/ \E i \in DOMAIN table : Cancel(i)
  \/ Tick \/ Finished

Spec == Init /\ [][Next]_vars

-----------------------------------------------------------------------------
(* Properties. *)

TypeOK ==
  /\ now \in Times
  /\ hours \in HoursForms \cup {InitHours}
  /\ \A p \in Products : product[p].status \in Statuses4 \cup {"NONE"}
  /\ \A s \in rows : s.rsrc \in DOMAIN Resources /\ s.from <= s.to
  /\ hols \subseteq HolidayForms
  /\ DOMAIN table \subseteq 1..MaxBookings
  /\ \A c \in Callers : calls[c].k \in
       {"NONE", "HOURS", "PRODUCT", "CREATE", "LIMITED", "REMOVE", "PATTERN", "HOLIDAY", "PLACE"}

Verified(c) == calls[c] = Idle /\ calls'[c].k = "PLACE"

(* The reference knows every version of the patterns, the listing those of   *)
(* the month, placing those of its two days.  A person all of whose versions *)
(* lie outside the two days looks undrawn to placing.                       *)
Whole(p) == [Context(p, 0, Max(Days)) EXCEPT !.rows = rows]
Undrawn(r, at) ==
  /\ \E s \in rows : s.rsrc = r
  /\ \A s \in RowsLoaded(at \div DayLen - 1, at \div DayLen) : s.rsrc # r

ListedOn(p, d, at, party) == Naming(ComputeSlots(Context(p, 0, Max(Days)), Query(d, party)), d, at)

(* A request is given exactly the resources that are free for it, unit by    *)
(* unit: open, on duty, roomy, late enough (create.ts findSlot over slots.ts *)
(* and resolve.ts, interval arithmetic all the way), and exactly those that  *)
(* the month's listing shows for it; where a person looks undrawn to placing *)
(* it may be given more than is listed.  What is refused is not listed,      *)
(* undrawn or not (context.ts, create.ts:22).                               *)
VerifiedIsFree ==
  [][\A c \in Callers : Verified(c) =>
       LET call == calls'[c]
           p    == call.q.product
           at   == call.q.at
           free(d) == {r \in product[p].resources :
                         /\ Resources[r].active
                         /\ FreeFrom(Whole(p), Query(d, call.q.party), r, at - Instant(d, 0))}
           seen == \A r \in product[p].resources : ~Undrawn(r, at)
       IN  /\ seen => /\ call.rsrcs = FirstOf([d \in BusinessDays(at) |-> free(d)], at).rsrcs
                      /\ call.rsrcs = ListedOn(p, call.day, at, call.q.party)
           /\ call.rsrcs = {} => \A d \in Days : ListedOn(p, d, at, call.q.party) = {}]_vars

(* A live booking still to come lies inside the hours its product follows,   *)
(* however the hours were changed since: hours that would push one out are   *)
(* refused.  Excused are bookings whose verification was overtaken, and      *)
(* changes of the two hours side by side, which read without a lock.         *)
KeptInHours ==
  \A i \in Live \ loose :
    LET b   == table[i]
        ctx == [product |-> [product[b.product] EXCEPT !.mode = IF b.fixed THEN "FIXED" ELSE "FREE"],
                hours |-> hours]
    IN  b.start >= now =>
          \E d \in {b.start \div DayLen - 1, b.start \div DayLen} \cap Nat :
            \A v \in b.start..(b.end - 1) : OpenAt(ctx, d, v - Instant(d, 0))

(* The bookings to come that product p has on resource r at one moment, and  *)
(* whether they keep to a capacity: of teams when it is one, else of people. *)
ThereAt(p, r, v) == {i \in FutureOf(p) : table[i].rsrc = r /\ table[i].lo <= v /\ v < table[i].hi}

HoldsAt(p, perSlot, r, v) ==
  IF perSlot = 1 THEN Cardinality(ThereAt(p, r, v)) <= 1
  ELSE Cardinality(Heads(table, ThereAt(p, r, v))) <= perSlot

(* A product's capacity is never lowered below what is booked at one moment  *)
(* on one of its resources (products.ts updateProduct).                     *)
LoweringFits ==
  [][\A p \in Products :
       /\ Exists(p) /\ product'[p].status # "NONE"
       /\ product'[p].perSlot < product[p].perSlot
       => \A r \in DOMAIN Resources, v \in 0..(MaxTime + 2 * DayLen) :
            HoldsAt(p, product'[p].perSlot, r, v)]_vars

(* A new weekly pattern governs its days from the first one on, and leaves   *)
(* every day before as it was (work-schedules.ts setPattern; an empty list   *)
(* is commented to mean no work from that day on).                          *)
PatternGoverns ==
  [][\A c \in Callers : calls[c].k = "PATTERN" /\ calls'[c] = Idle =>
       \A r \in calls[c].rsrcs, d \in Days :
         LET before == PatternOn(RowsLoaded(d, d), r, d)
             after  == PatternOn({s \in rows' : s.from <= d /\ d <= s.to}, r, d)
             given  == {x \in calls[c].days : x.dow = Dow(d)}
         IN  IF d < calls[c].from THEN after = before
             ELSE \A u \in 0..(2 * DayLen) : Covers(after, u) <=>
                    \E x \in given : /\ Covers({Span(x.start, x.end)}, u)
                                     /\ ~Covers({Span(y.start, y.end) : y \in x.breaks}, u)]_vars
=============================================================================
