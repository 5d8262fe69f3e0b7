--------------------------------- MODULE Widget ---------------------------------
(***************************************************************************)
(* The customer's booking widget (features/booking/widget): every choice   *)
(* is in the address, the step shown is derived from it, the slots of a    *)
(* month are fetched whenever the question changes, and the order goes out *)
(* from the confirmation, by way of the login when nobody is signed in.    *)
(* The browser's history, the page's own state, requests in flight, other  *)
(* customers and the shop are the actors.                                  *)
(* A date is a number and a start time one of the instants of its date; a  *)
(* month has one date, so that turning the month changes the question.     *)
(***************************************************************************)
EXTENDS Integers, Sequences, FiniteSets, FiniteSetsExt, SequencesExt

CONSTANTS
  Catalogue,                 \* id -> [pick, durations, maxParty, resources]
  Dates, PerDate,           \* dates from 1; start times of each
  Seats,                    \* resource -> the party it takes
  None, ANY_RESOURCE,
  Changes,                  \* whether the widget may be opened for a new booking, to change one
  MaxMoves, MaxOthers, MaxTokens  \* bounds

ASSUME WidgetAssumption ==
  /\ None \notin DOMAIN Catalogue
  /\ \A p \in DOMAIN Catalogue : Catalogue[p].pick \in {"none", "step1", "step4"}
  /\ Dates = 1..Cardinality(Dates) /\ PerDate \in 1..9
  /\ {MaxMoves, MaxOthers, MaxTokens} \subseteq Nat
  /\ Changes \subseteq BOOLEAN

VARIABLES
  entries, at,    \* the browser's history and the place in it
  page,           \* what the mounted page holds
  order,          \* the request of a submit
  bookings, active, tokens,   \* the server: the first booking is the one a change replaces
  moves, others,  \* how often the customer has acted, and the network failed or others acted
  hist            \* what was picked from a list, what strayed to another choice, the
                  \* choice last answered, orders confirmed to this page

widgetVars == <<entries, at, page, order, bookings, active, tokens, moves, others, hist>>
browser == <<entries, at>>
server  == <<bookings, active, tokens, others>>

(* A start as the slot API writes it, and as a restored token does: the same *)
(* instant in another form, which does not compare equal.                   *)
Start(i) == [at |-> i, utc |-> FALSE]
InUtc(s) == [s EXCEPT !.utc = TRUE]

StartsOf(d) == {10 * d + k : k \in 0..(PerDate - 1)}
DateOf(i) == i \div 10

-----------------------------------------------------------------------------
(* state.ts *)

NeedsDuration(p) == Cardinality(Catalogue[p].durations) > 1
Default(p) == Min(Catalogue[p].durations)
Pick(p) == Catalogue[p].pick

NoChoice == [product |-> None, dur |-> None, party |-> 1, r |-> None, d |-> None, t |-> None]

EffectiveDuration(s) == IF s.dur \in Catalogue[s.product].durations THEN s.dur ELSE Default(s.product)

(* stepOf: the first step whose choice is missing. *)
StepOf(s) ==
  IF \/ s.product = None
     \/ NeedsDuration(s.product) /\ s.dur = None
     \/ Pick(s.product) = "step1" /\ s.r = None
  THEN 1
  ELSE IF s.d = None THEN 2
  ELSE IF s.t = None THEN 3
  ELSE IF Pick(s.product) = "step4" /\ s.r = None THEN 4 ELSE 5

(* loadBookingWidget: a product none of whose resources is active is not listed; *)
(* with none listed the page is a 404, from which nothing is chosen.         *)
Listed(resources) == {p \in DOMAIN Catalogue : Catalogue[p].resources \cap resources # {}}

(* readSelection: unknown values are dropped, and with them what rests on them. *)
ReadSelection(a, shown) ==
  IF a.product \notin Listed(shown) THEN NoChoice
  ELSE LET p == a.product
           dur == IF a.dur \in Catalogue[p].durations THEN a.dur
                  ELSE IF NeedsDuration(p) THEN None ELSE Default(p)
           r == IF Pick(p) = "none" THEN None
                ELSE IF a.r = ANY_RESOURCE /\ Pick(p) = "step4" THEN ANY_RESOURCE
                ELSE IF a.r \in Catalogue[p].resources \cap shown THEN a.r ELSE None
           ready == dur # None /\ (Pick(p) = "step1" => r # None)
           d == IF ready THEN a.d ELSE None
           t == IF d # None THEN a.t ELSE None
       IN  [product |-> p, dur |-> dur, party |-> a.party,
            r |-> IF Pick(p) = "step4" /\ t = None THEN None ELSE r, d |-> d, t |-> t]

(* Mutant: a changed party keeps the date and the time. *)
InvalidatesTwo(s, f, v) == f \in {"product", "dur"} /\ v # s[f]

(* The inputs of the slot computation. *)
Invalidates(s, f, v) == f \in {"product", "dur", "party"} /\ v # s[f]

PersonAfter(s) == IF s.product # None /\ Pick(s.product) = "step4" THEN None ELSE s.r

(* change: a patch of one field, and what it makes void.  A new product is   *)
(* looked up only after this: the resource goes by the product before it.   *)
ChangeTo(s, f, v) ==
  LET next == [s EXCEPT ![f] = v]
      keeps == s.product # None /\ Pick(s.product) = "step1"
  IN  IF Invalidates(s, f, v)
      THEN [next EXCEPT !.d = None, !.t = None, !.r = IF keeps THEN next.r ELSE None]
      ELSE IF f = "d" /\ v # s.d THEN [next EXCEPT !.t = None, !.r = PersonAfter(next)]
      ELSE IF f = "t" /\ v # s.t THEN [next EXCEPT !.r = PersonAfter(next)]
      ELSE next

-----------------------------------------------------------------------------
(* Addresses: the selection, the booking being changed, the token, the code. *)

Address(s, rep, tok, done) ==
  [product |-> s.product, dur |-> s.dur, party |-> s.party, r |-> s.r, d |-> s.d, t |-> s.t,
   rep |-> rep, tok |-> tok, done |-> done]

Here == entries[at]
Sel == ReadSelection(Here, page.shown)
Step == StepOf(Sel)

(* slotsUrl and windowFor: what the page asks of the slot API, if anything.  *)
(* The resource goes along only where it is chosen first.                   *)
MonthOf(s, browsing) == IF browsing # None THEN browsing ELSE IF s.d # None THEN s.d ELSE Min(Dates)

QuestionOf(s, browsing) ==
  [product |-> s.product, dur |-> EffectiveDuration(s), party |-> s.party,
   r |-> IF Pick(s.product) = "step1" THEN s.r ELSE None, month |-> MonthOf(s, browsing)]

(* Mutant: the address of the request leaves the party out. *)
KeyWithoutParty(s, browsing) ==
  IF StepOf(s) < 2 THEN None ELSE [QuestionOf(s, browsing) EXCEPT !.party = 1]

Key(s, browsing) == IF StepOf(s) < 2 THEN None ELSE QuestionOf(s, browsing)

(* The effect on [key, url]: a changed key drops the request under way and   *)
(* sends the next.                                                          *)
Refetch(pg, s) ==
  LET key == Key(s, pg.browsing)
  IN  IF key = pg.key THEN pg
      ELSE [pg EXCEPT !.key = key,
                      !.asked = IF key = None THEN None ELSE QuestionOf(s, pg.browsing)]

Mount(a, signedIn, shown) ==
  LET pg == [signedIn |-> signedIn, shown |-> shown, browsing |-> None, key |-> None,
             asked |-> None, got |-> None, placed |-> None, busy |-> FALSE, away |-> FALSE]
  IN  Refetch(pg, ReadSelection(a, shown))

(* days, as the page sees them: only the answer to its present key. *)
Fresh == page.key # None /\ page.got # None /\ page.got.key = page.key
DayShown(d) == IF Fresh /\ d = page.got.q.month THEN page.got.slots ELSE {}

WidgetInit ==
  LET everyone == DOMAIN Seats
  IN  \E change \in Changes, signedIn \in BOOLEAN, p \in DOMAIN Catalogue :
        LET first == Address([NoChoice EXCEPT !.product = p], IF change THEN 1 ELSE None, None, None)
        IN  /\ entries = <<first>> /\ at = 1
            /\ active = everyone
            /\ page = Mount(first, signedIn, everyone)
            /\ \E r \in Catalogue[p].resources :
                 bookings = IF change THEN <<[product |-> p, r |-> r, t |-> Min(StartsOf(1)),
                                              dur |-> Default(p), live |-> TRUE, shown |-> 1]>>
                                      ELSE <<>>
            /\ order = None /\ tokens = <<>> /\ moves = 0 /\ others = 0
            /\ hist = [picked |-> {}, strayed |-> {}, answered |-> NoChoice, confirmed |-> 0]

-----------------------------------------------------------------------------
(* The server: slots and bookings (Slots and Booking have them in full). *)

Covered(i, dur) == i..(i + dur - 1)

(* The resource takes the party, is on duty and unoccupied; a change does not count what it replaces. *)
FreeFor(r, i, dur, party, rep) ==
  /\ r \in active /\ party <= Seats[r]
  /\ Covered(i, dur) \subseteq StartsOf(DateOf(i))
  /\ \A n \in DOMAIN bookings :
       bookings[n].live /\ bookings[n].r = r /\ n # rep =>
         Covered(bookings[n].t, bookings[n].dur) \cap Covered(i, dur) = {}

SlotsOn(q, d) ==
  LET rs == IF q.r # None THEN {q.r} ELSE Catalogue[q.product].resources
      who(i) == {r \in rs : FreeFor(r, i, q.dur, q.party, None)}
  IN  {[start |-> Start(i), rsrcs |-> who(i)] : i \in {j \in StartsOf(d) : who(j) # {}}}

Distance(i, j) == IF i < j THEN j - i ELSE i - j

(* nearest: the free starts of the days looked at, nearest first, three of them. *)
Nearest(S, i) == {s \in S : Cardinality({x \in S : Distance(x, i) < Distance(s, i)}) < 3}

OffersFor(o) ==
  LET rs == IF o.sel.r \in {None, ANY_RESOURCE} THEN Catalogue[o.sel.product].resources ELSE {o.sel.r}
      day == DateOf(o.sel.t.at)
  IN  [who  |-> {r \in rs : FreeFor(r, o.sel.t.at, EffectiveDuration(o.sel), o.sel.party, o.rep)},
       alts |-> Nearest({i \in UNION {StartsOf(d) : d \in {day - 1, day} \cap Dates} :
                           i # o.sel.t.at /\ \E r \in rs :
                             FreeFor(r, i, EffectiveDuration(o.sel), o.sel.party, o.rep)}, o.sel.t.at)]

-----------------------------------------------------------------------------
(* The customer.  A step's buttons are there when the page shows the step.  *)

Others == others < MaxOthers /\ others' = others + 1
CanMove == ~page.away /\ moves < MaxMoves
Moves == CanMove /\ moves' = moves + 1
Shows(n) == CanMove /\ Here.tok = None /\ Step = n

Confirming == Shows(5) /\ page.placed = None /\ Here.done = None

(* apply: an entry of the history when the step changes, else in its place. *)
ApplyTo(pg, f, v) ==
  LET next == ChangeTo(Sel, f, v)
      a    == Address(next, Here.rep, None, None)
      pushed == StepOf(next) # Step
  IN  /\ Moves
      /\ entries' = IF pushed THEN Append(SubSeq(entries, 1, at), a) ELSE [entries EXCEPT ![at] = a]
      /\ at' = IF pushed THEN at + 1 ELSE at
      /\ page' = Refetch(pg, ReadSelection(a, pg.shown))
      /\ UNCHANGED <<order, server>>

Apply(f, v) == ApplyTo(page, f, v)
Plainly == UNCHANGED hist

ChooseProduct ==
  Shows(1) /\ Sel.product = None /\ Plainly /\ \E p \in Listed(page.shown) : Apply("product", p)

OtherProduct == Shows(1) /\ Sel.product # None /\ Here.rep = None /\ Plainly /\ Apply("product", None)

ChooseDuration ==
  /\ Shows(1) /\ Sel.product # None /\ NeedsDuration(Sel.product) /\ Plainly
  /\ \E x \in Catalogue[Sel.product].durations : Apply("dur", x)

ChooseParty ==
  /\ Shows(1) \/ Confirming
  /\ Sel.product # None /\ Catalogue[Sel.product].maxParty > 1 /\ Plainly
  /\ \E n \in 1..Catalogue[Sel.product].maxParty : Apply("party", n)

ChooseSpace ==
  /\ Shows(1) /\ Sel.product # None /\ Pick(Sel.product) = "step1" /\ Plainly
  /\ \E r \in Catalogue[Sel.product].resources \cap page.shown : Apply("r", r)

TurnMonth ==
  /\ Shows(2) /\ Moves
  /\ \E m \in Dates \cap {page.key.month - 1, page.key.month + 1} :
       page' = Refetch([page EXCEPT !.browsing = m], Sel)
  /\ UNCHANGED <<browser, order, server, hist>>

ChooseDate ==
  Shows(2) /\ Plainly /\ \E d \in Dates : DayShown(d) # {} /\ Apply("d", d)

(* What the customer has picked from a list that the page showed. *)
PickOf(s, start, r) ==
  [product |-> s.product, dur |-> EffectiveDuration(s), party |-> s.party, start |-> start.at, r |-> r]
Picks(start, r) == hist' = [hist EXCEPT !.picked = @ \cup {PickOf(Sel, start, r)}]

ChooseTime ==
  Shows(3) /\ \E slot \in DayShown(Sel.d) : Picks(slot.start, Sel.r) /\ Apply("t", slot.start)

OtherDate == (Shows(3) \/ Confirming) /\ Plainly /\ Apply("d", None)

ChoosePerson ==
  /\ Shows(4)
  /\ LET available == UNION {x.rsrcs : x \in {y \in DayShown(Sel.d) : y.start = Sel.t}} \cap page.shown
     IN  /\ available # {}
         /\ \E r \in available \cup {ANY_RESOURCE} : Picks(Sel.t, r) /\ Apply("r", r)

OtherTime == (Shows(4) \/ Confirming) /\ Plainly /\ Apply("t", None)

(* StepDone after a taken slot: one of the alternatives.  They were computed *)
(* for the choice that was ordered and stay on the page until one is picked; *)
(* the start goes into whatever choice the address has by then.             *)
Space(s) == IF Pick(s.product) = "step1" THEN s.r ELSE None
PickFor(s, i) == PickOf(s, Start(i), Space(s))

ChooseAlternative ==
  /\ page.placed # None
  /\ Here.tok = None /\ Sel.product # None
  /\ \E i \in page.placed.alts :
       /\ hist' = [hist EXCEPT !.picked = @ \cup {PickFor(hist.answered, i)},
                               !.strayed = @ \cup ({PickFor(Sel, i)} \ {PickFor(hist.answered, i)})]
       /\ ApplyTo([page EXCEPT !.placed = None], "t", Start(i))

(* Back and forward within one life of the page: its own state stays. *)
Travel(to) ==
  /\ Moves /\ to \in DOMAIN entries
  /\ at' = to /\ page' = Refetch(page, ReadSelection(entries[to], page.shown))
  /\ UNCHANGED <<entries, order, server, hist>>

Back == Travel(at - 1)
Forward == Travel(at + 1)

(* A new life of the page, from the address alone. *)
Remount(signedIn) ==
  /\ page' = Mount(Here, signedIn, active)
  /\ hist' = [hist EXCEPT !.confirmed = 0]

Reload ==
  /\ Moves /\ order = None
  /\ Remount(page.signedIn) /\ UNCHANGED <<browser, order, server>>

-----------------------------------------------------------------------------
(* Slots asked for and answered.  A request that was dropped is not answered. *)

Answer ==
  /\ page.asked # None
  /\ page' = [page EXCEPT !.asked = None,
                          !.got = [key |-> page.key, q |-> page.asked,
                                   slots |-> SlotsOn(page.asked, page.asked.month)]]
  /\ UNCHANGED <<browser, order, server, moves, hist>>

AnswerFails ==
  /\ page.asked # None /\ Others
  /\ page' = [page EXCEPT !.asked = None]
  /\ UNCHANGED <<browser, order, bookings, active, tokens, moves, hist>>

Retry ==
  /\ Moves
  /\ Here.tok = None /\ page.key # None /\ page.asked = None /\ ~Fresh
  /\ page' = [page EXCEPT !.asked = QuestionOf(Sel, page.browsing)]
  /\ UNCHANGED <<browser, order, server, hist>>

-----------------------------------------------------------------------------
(* submit. *)

ResourceGone ==
  \E x \in DayShown(Sel.d) : x.start = Sel.t /\ Sel.r \notin {None, ANY_RESOURCE} \cup x.rsrcs

Submittable == Confirming /\ ~page.busy /\ ~ResourceGone

Submit ==
  /\ Submittable /\ page.signedIn /\ Moves
  /\ page' = [page EXCEPT !.busy = TRUE]
  /\ order' = [sel |-> Sel, rep |-> Here.rep, reply |-> None]
  /\ UNCHANGED <<browser, server, hist>>

(* createSelection: the choice is kept for the login, a person no longer on duty is not; *)
(* a product no longer listed is refused, and the page stays.                *)
SubmitToLogin ==
  /\ Submittable /\ ~page.signedIn /\ Moves
  /\ \/ /\ Sel.product \in Listed(active) /\ Len(tokens) < MaxTokens
        /\ tokens' = Append(tokens, [sel |-> [Sel EXCEPT !.r = IF @ \in active THEN @ ELSE None],
                                     live |-> TRUE])
        /\ page' = [page EXCEPT !.away = TRUE]
     \/ Sel.product \notin Listed(active) /\ UNCHANGED <<page, tokens>>
  /\ UNCHANGED <<browser, order, bookings, active, others, hist>>

Reply(kind, alts) == [kind |-> kind, alts |-> alts]

(* createReservation, or changeReservation when it replaces one. *)
ServeOrder ==
  /\ order # None /\ order.reply = None
  /\ LET o == order
         offers == OffersFor(o)
     IN  IF o.rep # None /\ (~bookings[o.rep].live \/ bookings[o.rep].product # o.sel.product)
         THEN order' = [o EXCEPT !.reply = Reply("REFUSED", {})] /\ UNCHANGED bookings
         ELSE IF offers.who = {}
         THEN order' = [o EXCEPT !.reply = Reply("TAKEN", offers.alts)] /\ UNCHANGED bookings
         ELSE \E r \in offers.who :
                LET kept == [n \in DOMAIN bookings |->
                               [bookings[n] EXCEPT !.live = @ /\ n # o.rep]]
                IN  /\ bookings' = Append(kept, [product |-> o.sel.product, r |-> r, t |-> o.sel.t.at,
                                                 dur |-> EffectiveDuration(o.sel), live |-> TRUE,
                                                 shown |-> o.sel.d])
                    /\ order' = [o EXCEPT !.reply = Reply("OK", {})]
  /\ UNCHANGED <<browser, page, active, tokens, moves, others, hist>>

(* The answer is shown, and a confirmed order closes the entry the browser is at. *)
AnswerOrder ==
  /\ order # None /\ order.reply # None
  /\ order' = None
  /\ LET confirmed == order.reply.kind = "OK"
         done == Address(order.sel, order.rep, None, "DONE")
         pg == [page EXCEPT !.busy = FALSE, !.placed = IF order.reply.kind = "REFUSED" THEN @ ELSE order.reply]
     IN  /\ entries' = IF confirmed THEN [entries EXCEPT ![at] = done] ELSE entries
         /\ page' = Refetch(pg, ReadSelection(entries'[at], page.shown))
         /\ hist' = [hist EXCEPT !.answered = IF order.reply.kind = "REFUSED" THEN @ ELSE order.sel,
                                 !.confirmed = IF confirmed THEN @ + 1 ELSE @]
  /\ UNCHANGED <<at, server, moves>>

(* The request or its answer is lost: an error, and the order may be sent again. *)
LoseOrder ==
  /\ order # None /\ Others
  /\ order' = None /\ page' = [page EXCEPT !.busy = FALSE]
  /\ UNCHANGED <<browser, bookings, active, tokens, moves, hist>>

(* Back from the login, signed in: a visit of its own, from the address the login was given. *)
LoginReturns ==
  /\ page.away
  /\ LET a == Address(NoChoice, Here.rep, Len(tokens), None)
     IN  entries' = <<a>> /\ at' = 1 /\ page' = Mount(a, TRUE, active)
  /\ hist' = [hist EXCEPT !.confirmed = 0]
  /\ UNCHANGED <<order, server, moves>>

Abandon ==
  /\ page.away /\ Remount(FALSE)
  /\ UNCHANGED <<browser, order, server, moves>>

(* loadSelection: a person no longer on duty becomes nobody; the page reads  *)
(* nobody, where persons are picked last, as anybody.                       *)
Restored(s) ==
  LET r == IF s.r \in active THEN s.r ELSE None
  IN  [s EXCEPT !.t = InUtc(@),
                !.r = IF r = None /\ Pick(s.product) = "step4" THEN ANY_RESOURCE ELSE r]

(* The address is replaced by the choice, or by the bare page if there is    *)
(* none: the token is too old or the product is no longer listed.           *)
Restore ==
  /\ Here.tok # None /\ Listed(page.shown) # {}
  /\ LET token == tokens[Here.tok]
         a == IF token.live /\ token.sel.product \in Listed(active)
              THEN Address(Restored(token.sel), Here.rep, None, None)
              ELSE Address(NoChoice, None, None, None)
     IN  /\ entries' = [entries EXCEPT ![at] = a]
         /\ page' = Refetch(page, ReadSelection(a, page.shown))
  /\ UNCHANGED <<at, order, server, moves, hist>>

-----------------------------------------------------------------------------
(* Everybody else. *)

Away == UNCHANGED <<browser, page, order, moves, hist>>

OtherBooks ==
  /\ Others /\ Away
  /\ \E r \in active, i \in UNION {StartsOf(d) : d \in Dates} :
       /\ FreeFor(r, i, 1, 1, None)
       /\ bookings' = Append(bookings, [product |-> None, r |-> r, t |-> i, dur |-> 1,
                                        live |-> TRUE, shown |-> DateOf(i)])
  /\ UNCHANGED <<active, tokens>>

ShopCancels ==
  /\ Others /\ Away
  /\ \E n \in DOMAIN bookings : bookings[n].live /\ bookings' = [bookings EXCEPT ![n].live = FALSE]
  /\ UNCHANGED <<active, tokens>>

OffDuty ==
  /\ Others /\ Away
  /\ \E r \in active : active' = active \ {r}
  /\ UNCHANGED <<bookings, tokens>>

TokenExpires ==
  /\ Others /\ Away
  /\ \E n \in DOMAIN tokens : tokens[n].live /\ tokens' = [tokens EXCEPT ![n].live = FALSE]
  /\ UNCHANGED <<bookings, active>>

(* The bounds are used up. *)
WidgetOver ==
  /\ moves = MaxMoves /\ ~page.away /\ order = None /\ page.asked = None
  /\ UNCHANGED widgetVars

Choose ==
  \/ ChooseProduct \/ OtherProduct \/ ChooseDuration \/ ChooseParty \/ ChooseSpace
  \/ TurnMonth \/ ChooseDate \/ OtherDate \/ ChooseTime \/ OtherTime \/ ChoosePerson
  \/ ChooseAlternative
Browse == Back \/ Forward \/ Reload \/ Retry
Send == Submit \/ SubmitToLogin \/ LoginReturns \/ Abandon
Receive == Answer \/ AnswerFails \/ ServeOrder \/ AnswerOrder \/ LoseOrder \/ Restore
Elsewhere == OtherBooks \/ ShopCancels \/ OffDuty \/ TokenExpires

WidgetNext == Choose \/ Browse \/ Send \/ Receive \/ Elsewhere \/ WidgetOver
WidgetSpec == WidgetInit /\ [][WidgetNext]_widgetVars

-----------------------------------------------------------------------------
(* Properties *)

(* The slots on the screen answer the present question: after any run of     *)
(* choices, months turned, travels and late answers, what the page shows     *)
(* was computed for the selection in the address.                           *)
ShownAnswersAsked == Fresh /\ Here.tok = None => page.got.q = QuestionOf(Sel, page.browsing)

(* A time, and a person of the fourth step, that a choice has. *)
TimeIn(S, s) == s.t # None => PickFor(s, s.t.at) \in S
PersonIn(S, s) ==
  s.t # None /\ Pick(s.product) = "step4" /\ s.r \notin {None, ANY_RESOURCE} => PickOf(s, s.t, s.r) \in S

Read == {ReadSelection(entries[n], page.shown) : n \in DOMAIN entries}
Kept == {ReadSelection(Restored(tokens[n].sel), page.shown) : n \in DOMAIN tokens}
Sent == IF order = None THEN {} ELSE {order.sel}

(* Nobody orders what he has not picked: the choice of every address of the  *)
(* history, of every token of the login as the page reads it and of the      *)
(* order under way has a person only if a list showed him under that         *)
(* product, duration, party and time, and a time only if it was picked under *)
(* that product, duration, party and space: from a list, or from the         *)
(* alternatives to an order of another choice, which the page goes on        *)
(* offering (BookingWidget.tsx:323).  And one life of the page confirms one  *)
(* order, whatever is pressed, travelled and answered (BookingWidget.tsx).   *)
OrderAsPicked ==
  /\ hist.confirmed <= 1
  /\ \A s \in Read \cup Kept \cup Sent :
       s.product # None => TimeIn(hist.picked \cup hist.strayed, s) /\ PersonIn(hist.picked, s)
=============================================================================
