--------------------------- MODULE StorefrontProofs ---------------------------
(***************************************************************************)
(* The booking widget, for every catalogue and every bound: the slots on   *)
(* the screen answer the question the address asks, and nobody orders what *)
(* he has not picked from a list.  The browser's history, the tokens of    *)
(* the login and the order under way are where a choice may be when it is  *)
(* not on the screen; the invariants say of each what the page will find   *)
(* in it.  And the shop behind it, for every form and calendar: a capacity *)
(* that is lowered holds what is booked, because the product's row is      *)
(* locked between the count and the write and no booking gets past it.     *)
(***************************************************************************)
EXTENDS Shop, Widget, RulesProofs, TLAPS

-----------------------------------------------------------------------------
(* The page and what it fetches. *)

PageFields == {"signedIn", "shown", "browsing", "key", "asked", "got", "placed", "busy", "away"}

(* What is on its way was asked by the present key, and an answer is filed   *)
(* under the key that asked it.                                             *)
AskedByKey(pg) == pg.asked # None => pg.asked = pg.key
FiledByKey(pg) == pg.got # None => pg.got.q = pg.got.key
Fetching(pg) == DOMAIN pg = PageFields /\ AskedByKey(pg) /\ FiledByKey(pg)

(* The key is that of the address the page is at. *)
Follows(pg, a) == pg.key = Key(ReadSelection(a, pg.shown), pg.browsing)

(* The browser is at one of the addresses of its history, all of them in S. *)
Traced(S) == entries \in Seq(S) /\ at \in 1..Len(entries)

FetchInv == (\E S : Traced(S)) /\ Fetching(page) /\ Follows(page, Here)

(* The effect on the key leaves everything else of the page alone. *)
LEMMA RefetchFollows ==
  ASSUME NEW pg, NEW s, NEW new, DOMAIN pg = PageFields, AskedByKey(pg), new = Refetch(pg, s)
  PROVE  /\ DOMAIN new = PageFields /\ AskedByKey(new) /\ new.key = Key(s, pg.browsing)
         /\ new.shown = pg.shown /\ new.browsing = pg.browsing /\ new.got = pg.got
         /\ new.placed = pg.placed /\ new.busy = pg.busy /\ new.away = pg.away
<1>1. CASE Key(s, pg.browsing) = pg.key BY <1>1 DEF Refetch
<1>2. CASE Key(s, pg.browsing) # pg.key
  <2>1. PICK key, asked : /\ key = Key(s, pg.browsing)
                          /\ asked = IF key = None THEN None ELSE QuestionOf(s, pg.browsing)
    OBVIOUS
  <2>2. new = [pg EXCEPT !.key = key, !.asked = asked] BY <1>2, <2>1 DEF Refetch
  <2>3. key # None => key = QuestionOf(s, pg.browsing) BY <2>1 DEF Key
  <2>4. /\ DOMAIN new = PageFields /\ new.key = key /\ new.asked = asked
        /\ new.shown = pg.shown /\ new.browsing = pg.browsing /\ new.got = pg.got
        /\ new.placed = pg.placed /\ new.busy = pg.busy /\ new.away = pg.away
    BY <2>2 DEF PageFields
  <2>5. AskedByKey(new) BY <2>1, <2>3, <2>4 DEF AskedByKey
  <2> QED BY <2>1, <2>4, <2>5
<1> QED BY <1>1, <1>2

LEMMA MountFollows ==
  ASSUME NEW a, NEW signedIn, NEW shown, NEW new, new = Mount(a, signedIn, shown)
  PROVE  Fetching(new) /\ Follows(new, a) /\ new.got = None /\ new.placed = None /\ new.away = FALSE
<1>1. PICK pg : pg = [signedIn |-> signedIn, shown |-> shown, browsing |-> None, key |-> None,
                      asked |-> None, got |-> None, placed |-> None, busy |-> FALSE, away |-> FALSE]
  OBVIOUS
<1>2. /\ DOMAIN pg = PageFields /\ AskedByKey(pg) /\ pg.got = None /\ pg.placed = None
      /\ pg.shown = shown /\ pg.away = FALSE
  BY <1>1 DEF PageFields, AskedByKey
<1>3. new = Refetch(pg, ReadSelection(a, shown)) BY <1>1 DEF Mount
<1> QED BY <1>2, <1>3, RefetchFollows DEF Fetching, Follows, FiledByKey

(* An entry is replaced where the browser is, or one is put after it.        *)
LEMMA OneEntry ==
  ASSUME NEW S, NEW list \in Seq(S), NEW k \in 1..Len(list), NEW a
  PROVE  /\ [list EXCEPT ![k] = a] \in Seq(S \cup {a}) /\ [list EXCEPT ![k] = a][k] = a
         /\ k \in 1..Len([list EXCEPT ![k] = a])
         /\ Append(SubSeq(list, 1, k), a) \in Seq(S \cup {a}) /\ Append(SubSeq(list, 1, k), a)[k + 1] = a
         /\ k + 1 \in 1..Len(Append(SubSeq(list, 1, k), a))
<1>1. Len(list) \in Nat /\ list \in [1..Len(list) -> S] OBVIOUS
<1>2. [list EXCEPT ![k] = a] \in [1..Len(list) -> S \cup {a}] /\ [list EXCEPT ![k] = a][k] = a BY <1>1
<1>3. [list EXCEPT ![k] = a] \in Seq(S \cup {a}) /\ Len([list EXCEPT ![k] = a]) = Len(list) BY <1>1, <1>2
<1>4. PICK part : part = SubSeq(list, 1, k) OBVIOUS
<1>5. part \in Seq(S) /\ Len(part) = k BY <1>1, <1>4
<1>6. part \in Seq(S \cup {a}) BY <1>5
<1>7. /\ Append(part, a) \in Seq(S \cup {a}) /\ Len(Append(part, a)) = k + 1 /\ Append(part, a)[k + 1] = a
  BY <1>5, <1>6
<1> QED BY <1>2, <1>3, <1>4, <1>7

(* A choice leads to one new address, where the page then is.                *)
Chosen(f, v) == Address(ChangeTo(Sel, f, v), Here.rep, None, None)

LEMMA ApplyTraces ==
  ASSUME NEW S, Traced(S), NEW pg, NEW f, NEW v, ApplyTo(pg, f, v)
  PROVE  /\ entries' \in Seq(S \cup {Chosen(f, v)}) /\ at' \in 1..Len(entries') /\ Here' = Chosen(f, v)
         /\ page' = Refetch(pg, ReadSelection(Chosen(f, v), pg.shown))
<1>1. PICK a : a = Chosen(f, v) OBVIOUS
<1>2. page' = Refetch(pg, ReadSelection(a, pg.shown)) BY <1>1 DEF ApplyTo, Chosen
<1>3. \/ entries' = Append(SubSeq(entries, 1, at), a) /\ at' = at + 1
      \/ entries' = [entries EXCEPT ![at] = a] /\ at' = at
  BY <1>1 DEF ApplyTo, Chosen
<1>4. entries' \in Seq(S \cup {a}) /\ at' \in 1..Len(entries') /\ entries'[at'] = a
  <2>1. entries \in Seq(S) /\ at \in 1..Len(entries) BY DEF Traced
  <2>2. CASE entries' = Append(SubSeq(entries, 1, at), a) /\ at' = at + 1 BY <2>1, <2>2, OneEntry
  <2>3. CASE entries' = [entries EXCEPT ![at] = a] /\ at' = at BY <2>1, <2>3, OneEntry
  <2> QED BY <1>3, <2>2, <2>3
<1> QED BY <1>1, <1>2, <1>4 DEF Here

(* The page is fetched anew for the address it comes to, or the address and  *)
(* the page's part in the question stay.                                    *)
LEMMA FetchesFor ==
  ASSUME NEW pg, DOMAIN pg = PageFields, AskedByKey(pg), FiledByKey(pg),
         NEW a, page' = Refetch(pg, ReadSelection(a, pg.shown))
  PROVE  Fetching(page') /\ Follows(page', a)
BY RefetchFollows DEF Fetching, Follows, FiledByKey

LEMMA SameQuestion ==
  ASSUME FetchInv, UNCHANGED browser, DOMAIN page' = PageFields, FiledByKey(page'), AskedByKey(page'),
         page'.key = page.key, page'.shown = page.shown, page'.browsing = page.browsing
  PROVE  FetchInv'
<1>1. Here' = Here BY DEF Here, browser
<1>2. (\E S : Traced(S)) => \E S : entries' \in Seq(S) /\ at' \in 1..Len(entries') BY DEF browser, Traced
<1> QED BY <1>1, <1>2 DEF FetchInv, Traced, Fetching, Follows, FiledByKey, AskedByKey

LEMMA FetchUntouched == ASSUME FetchInv, UNCHANGED <<browser, page>> PROVE FetchInv'
BY SameQuestion DEF FetchInv, Fetching, FiledByKey, AskedByKey

(* A choice. *)
LEMMA ChoiceFetches == ASSUME FetchInv, Choose PROVE FetchInv'
<1>1. ASSUME NEW pg, pg = page \/ pg = [page EXCEPT !.placed = None], NEW f, NEW v, ApplyTo(pg, f, v) PROVE FetchInv'
  <2>1. PICK S : Traced(S) BY DEF FetchInv
  <2>2. PICK a : a = Chosen(f, v) OBVIOUS
  <2>3. /\ entries' \in Seq(S \cup {a}) /\ at' \in 1..Len(entries') /\ Here' = a
        /\ page' = Refetch(pg, ReadSelection(a, pg.shown))
    BY <1>1, <2>1, <2>2, ApplyTraces
  <2>4. DOMAIN pg = PageFields /\ AskedByKey(pg) /\ FiledByKey(pg)
    <3>1. DOMAIN page = PageFields BY DEF FetchInv, Fetching
    <3>2. DOMAIN pg = PageFields /\ pg.asked = page.asked /\ pg.key = page.key /\ pg.got = page.got
      BY <1>1, <3>1 DEF PageFields
    <3> QED BY <3>2 DEF FetchInv, Fetching, AskedByKey, FiledByKey
  <2>5. Fetching(page') /\ Follows(page', a) BY <2>3, <2>4, FetchesFor
  <2> QED BY <2>3, <2>5 DEF FetchInv, Traced, Fetching, Follows, FiledByKey, AskedByKey
<1>2. ASSUME NEW f, NEW v, Apply(f, v) PROVE FetchInv' BY <1>1, <1>2 DEF Apply
<1>3. CASE TurnMonth
  <2>1. PICK m : page' = Refetch([page EXCEPT !.browsing = m], Sel) BY <1>3 DEF TurnMonth
  <2>2. UNCHANGED browser BY <1>3 DEF TurnMonth
  <2>3. PICK pg : pg = [page EXCEPT !.browsing = m] OBVIOUS
  <2>4. DOMAIN pg = PageFields /\ AskedByKey(pg) /\ FiledByKey(pg) /\ pg.shown = page.shown
    <3>1. DOMAIN page = PageFields BY DEF FetchInv, Fetching
    <3>2. /\ DOMAIN pg = PageFields /\ pg.asked = page.asked /\ pg.key = page.key /\ pg.got = page.got
          /\ pg.shown = page.shown
      BY <2>3, <3>1 DEF PageFields
    <3> QED BY <3>2 DEF FetchInv, Fetching, AskedByKey, FiledByKey
  <2>5. page' = Refetch(pg, ReadSelection(Here, pg.shown)) BY <2>1, <2>3, <2>4 DEF Sel
  <2>6. Fetching(page') /\ Follows(page', Here) BY <2>4, <2>5, FetchesFor
  <2>7. Here' = Here BY <2>2 DEF Here, browser
  <2>8. (\E S : Traced(S)) => \E S : entries' \in Seq(S) /\ at' \in 1..Len(entries') BY <2>2 DEF browser, Traced
  <2> QED BY <2>6, <2>7, <2>8 DEF FetchInv, Traced, Fetching, Follows, FiledByKey, AskedByKey
<1>4. CASE ChooseProduct \/ OtherProduct \/ ChooseDuration \/ ChooseParty \/ ChooseSpace
  BY <1>2, <1>4 DEF ChooseProduct, OtherProduct, ChooseDuration, ChooseParty, ChooseSpace
<1>5. CASE ChooseDate \/ OtherDate \/ ChooseTime \/ OtherTime \/ ChoosePerson
  BY <1>2, <1>5 DEF ChooseDate, OtherDate, ChooseTime, OtherTime, ChoosePerson
<1>6. CASE ChooseAlternative BY <1>1, <1>6 DEF ChooseAlternative
<1> QED BY <1>3, <1>4, <1>5, <1>6 DEF Choose

(* Another entry of the history, or another address at the place. *)
LEMMA MovesFetch ==
  ASSUME FetchInv, NEW a, \E S : entries' \in Seq(S) /\ at' \in 1..Len(entries'), Here' = a,
         Fetching(page'), Follows(page', a)
  PROVE  FetchInv'
BY DEF FetchInv, Traced, Fetching, Follows, FiledByKey, AskedByKey

LEMMA BrowseFetches == ASSUME FetchInv, Browse PROVE FetchInv'
<1>1. PICK S : Traced(S) BY DEF FetchInv
<1>2. DOMAIN page = PageFields /\ AskedByKey(page) /\ FiledByKey(page) BY DEF FetchInv, Fetching
<1>3. ASSUME NEW to, Travel(to) PROVE FetchInv'
  <2>1. entries' = entries /\ at' = to /\ to \in DOMAIN entries BY <1>3 DEF Travel
  <2>2. PICK a : a = entries[to] OBVIOUS
  <2>3. Fetching(page') /\ Follows(page', a) BY <1>2, <1>3, <2>2, FetchesFor DEF Travel
  <2>4. Here' = a BY <2>1, <2>2 DEF Here
  <2>5. entries' \in Seq(S) /\ at' \in 1..Len(entries') BY <1>1, <2>1 DEF Traced
  <2> QED BY <2>3, <2>4, <2>5, MovesFetch
<1>4. CASE Reload
  <2>1. Fetching(page') /\ Follows(page', Here) BY <1>4, MountFollows DEF Reload, Remount
  <2>2. UNCHANGED browser BY <1>4 DEF Reload
  <2>3. Here' = Here BY <2>2 DEF Here, browser
  <2>4. entries' \in Seq(S) /\ at' \in 1..Len(entries') BY <1>1, <2>2 DEF Traced, browser
  <2> QED BY <2>1, <2>3, <2>4, MovesFetch
<1>5. CASE Retry
  <2>1. page.key # None /\ page' = [page EXCEPT !.asked = QuestionOf(Sel, page.browsing)] /\ UNCHANGED browser
    BY <1>5 DEF Retry
  <2>2. page.key = QuestionOf(Sel, page.browsing) BY <2>1 DEF FetchInv, Follows, Sel, Key
  <2>3. PICK key : key = page.key OBVIOUS
  <2>4. page' = [page EXCEPT !.asked = key] BY <2>1, <2>2, <2>3
  <2>5. /\ DOMAIN page' = PageFields /\ page'.asked = key /\ page'.key = key /\ page'.got = page.got
        /\ page'.shown = page.shown /\ page'.browsing = page.browsing
    BY <1>2, <2>3, <2>4 DEF PageFields
  <2>6. AskedByKey(page') /\ FiledByKey(page') BY <1>2, <2>5 DEF AskedByKey, FiledByKey
  <2> QED BY <2>1, <2>3, <2>5, <2>6, SameQuestion
<1> QED BY <1>3, <1>4, <1>5 DEF Browse, Back, Forward

LEMMA SendFetches == ASSUME FetchInv, Send PROVE FetchInv'
<1>1. DOMAIN page = PageFields /\ AskedByKey(page) /\ FiledByKey(page) BY DEF FetchInv, Fetching
<1>2. CASE Submit \/ SubmitToLogin
  <2>1. page' = page \/ \E field \in {"busy", "away"} : page' = [page EXCEPT ![field] = TRUE]
    BY <1>2 DEF Submit, SubmitToLogin
  <2>2. UNCHANGED browser BY <1>2 DEF Submit, SubmitToLogin
  <2>3. /\ DOMAIN page' = PageFields /\ page'.asked = page.asked /\ page'.key = page.key /\ page'.got = page.got
        /\ page'.shown = page.shown /\ page'.browsing = page.browsing
    BY <1>1, <2>1 DEF PageFields
  <2>4. AskedByKey(page') /\ FiledByKey(page') BY <1>1, <2>3 DEF AskedByKey, FiledByKey
  <2> QED BY <2>2, <2>3, <2>4, SameQuestion
<1>3. CASE LoginReturns
  <2>1. PICK a : a = Address(NoChoice, Here.rep, Len(tokens), None) OBVIOUS
  <2>2. entries' = <<a>> /\ at' = 1 /\ page' = Mount(a, TRUE, active) BY <1>3, <2>1 DEF LoginReturns
  <2>3. Fetching(page') /\ Follows(page', a) BY <2>2, MountFollows
  <2>4. Here' = a /\ entries' \in Seq({a}) /\ at' \in 1..Len(entries') BY <2>2 DEF Here
  <2> QED BY <2>3, <2>4, MovesFetch
<1>4. CASE Abandon
  <2>1. Fetching(page') /\ Follows(page', Here) BY <1>4, MountFollows DEF Abandon, Remount
  <2>2. UNCHANGED browser BY <1>4 DEF Abandon
  <2>3. Here' = Here BY <2>2 DEF Here, browser
  <2>4. \E S : entries' \in Seq(S) /\ at' \in 1..Len(entries') BY <2>2 DEF FetchInv, Traced, browser
  <2> QED BY <2>1, <2>3, <2>4, MovesFetch
<1> QED BY <1>2, <1>3, <1>4 DEF Send

LEMMA ReceiveFetches == ASSUME FetchInv, Receive PROVE FetchInv'
<1>1. DOMAIN page = PageFields /\ AskedByKey(page) /\ FiledByKey(page) BY DEF FetchInv, Fetching
<1>2. CASE Answer
  <2>1. PICK got : /\ got.key = page.key /\ got.q = page.asked
                   /\ page' = [page EXCEPT !.asked = None, !.got = got]
    BY <1>2 DEF Answer
  <2>2. UNCHANGED browser /\ page.asked # None BY <1>2 DEF Answer
  <2>3. /\ DOMAIN page' = PageFields /\ page'.asked = None /\ page'.key = page.key /\ page'.got = got
        /\ page'.shown = page.shown /\ page'.browsing = page.browsing
    BY <1>1, <2>1 DEF PageFields
  <2>4. AskedByKey(page') /\ FiledByKey(page') BY <1>1, <2>1, <2>2, <2>3 DEF AskedByKey, FiledByKey
  <2> QED BY <2>2, <2>3, <2>4, SameQuestion
<1>3. CASE AnswerFails \/ LoseOrder
  <2>1. PICK field, val : /\ field \in {"asked", "busy"} /\ (field = "asked" => val = None)
                           /\ page' = [page EXCEPT ![field] = val]
    BY <1>3 DEF AnswerFails, LoseOrder
  <2>2. UNCHANGED browser BY <1>3 DEF AnswerFails, LoseOrder
  <2>3. /\ DOMAIN page' = PageFields /\ page'.asked \in {None, page.asked} /\ page'.key = page.key
        /\ page'.got = page.got /\ page'.shown = page.shown /\ page'.browsing = page.browsing
    BY <1>1, <2>1 DEF PageFields
  <2>4. AskedByKey(page') /\ FiledByKey(page') BY <1>1, <2>3 DEF AskedByKey, FiledByKey
  <2> QED BY <2>2, <2>3, <2>4, SameQuestion
<1>4. CASE ServeOrder BY <1>4, FetchUntouched DEF ServeOrder, browser
<1>5. CASE AnswerOrder
  <2>1. PICK S : Traced(S) BY DEF FetchInv
  <2>2. PICK busy, placed : page' = Refetch([page EXCEPT !.busy = busy, !.placed = placed], ReadSelection(entries'[at], page.shown))
    BY <1>5 DEF AnswerOrder
  <2>3. PICK pg : pg = [page EXCEPT !.busy = busy, !.placed = placed] OBVIOUS
  <2>4. /\ DOMAIN pg = PageFields /\ pg.asked = page.asked /\ pg.key = page.key /\ pg.got = page.got
        /\ pg.shown = page.shown
    BY <1>1, <2>3 DEF PageFields
  <2>5. AskedByKey(pg) /\ FiledByKey(pg) BY <1>1, <2>4 DEF AskedByKey, FiledByKey
  <2>6. PICK a : a = entries'[at] OBVIOUS
  <2>7. page' = Refetch(pg, ReadSelection(a, pg.shown)) BY <2>2, <2>3, <2>4, <2>6
  <2>8. Fetching(page') /\ Follows(page', a) BY <2>4, <2>5, <2>7, FetchesFor
  <2>9. at' = at BY <1>5 DEF AnswerOrder
  <2>10. Here' = a BY <2>6, <2>9 DEF Here
  <2>11. PICK e : entries' = entries \/ entries' = [entries EXCEPT ![at] = e] BY <1>5 DEF AnswerOrder
  <2>12. entries' \in Seq(S) \cup Seq(S \cup {e}) /\ at' \in 1..Len(entries') BY <2>1, <2>9, <2>11, OneEntry DEF Traced
  <2> QED BY <2>8, <2>10, <2>12, MovesFetch
<1>6. CASE Restore
  <2>1. PICK S : Traced(S) BY DEF FetchInv
  <2>2. PICK a : entries' = [entries EXCEPT ![at] = a] /\ page' = Refetch(page, ReadSelection(a, page.shown))
    BY <1>6 DEF Restore
  <2>3. Fetching(page') /\ Follows(page', a) BY <1>1, <2>2, FetchesFor
  <2>4. at' = at BY <1>6 DEF Restore
  <2>5. Here' = a /\ entries' \in Seq(S \cup {a}) /\ at' \in 1..Len(entries') BY <2>1, <2>2, <2>4, OneEntry DEF Here, Traced
  <2> QED BY <2>3, <2>5, MovesFetch
<1> QED BY <1>2, <1>3, <1>4, <1>5, <1>6 DEF Receive

LEMMA FetchStep == ASSUME FetchInv, [WidgetNext]_widgetVars PROVE FetchInv'
<1>1. CASE Choose BY <1>1, ChoiceFetches
<1>2. CASE Browse BY <1>2, BrowseFetches
<1>3. CASE Send BY <1>3, SendFetches
<1>4. CASE Receive BY <1>4, ReceiveFetches
<1>5. CASE Elsewhere
  BY <1>5, FetchUntouched DEF Elsewhere, OtherBooks, ShopCancels, OffDuty, TokenExpires, Away, browser
<1>6. CASE WidgetOver \/ UNCHANGED widgetVars BY <1>6, FetchUntouched DEF WidgetOver, widgetVars, browser
<1> QED BY <1>1, <1>2, <1>3, <1>4, <1>5, <1>6 DEF WidgetNext

LEMMA FetchBegins == WidgetInit => FetchInv
<1> SUFFICES ASSUME WidgetInit PROVE FetchInv OBVIOUS
<1>1. PICK a, signedIn : entries = <<a>> /\ at = 1 /\ page = Mount(a, signedIn, DOMAIN Seats) BY DEF WidgetInit
<1>2. Fetching(page) /\ Follows(page, a) BY <1>1, MountFollows
<1>3. Here = a /\ entries \in Seq({a}) /\ at \in 1..Len(entries) BY <1>1 DEF Here
<1> QED BY <1>2, <1>3 DEF FetchInv, Traced

(* What the page shows was asked for what the address says: a key is dropped *)
(* with its request, for all catalogues, histories and orders of answers     *)
(* (BookingWidget's effect on [key, url]).                                  *)
THEOREM AnswersAsked == WidgetSpec => []ShownAnswersAsked
<1>1. FetchInv => ShownAnswersAsked
  BY DEF FetchInv, Fetching, Follows, FiledByKey, ShownAnswersAsked, Fresh, Sel, Key
<1> QED BY <1>1, FetchBegins, FetchStep, PTL DEF WidgetSpec

-----------------------------------------------------------------------------
(* What is ordered was picked. *)

Fields == {"product", "dur", "party", "r", "d", "t"}
Timed(t) == DOMAIN t = {"at", "utc"}
Known(p) == p \in DOMAIN Catalogue \cup {None}

(* The times that lists and alternatives offered, and the people of lists:   *)
(* what was picked, with the alternatives that strayed to another choice.   *)
Memory == [times |-> hist.picked \cup hist.strayed, people |-> hist.picked]
Nobody == [times |-> {}, people |-> {}]
Within(m, more) == m.times \subseteq more.times /\ m.people \subseteq more.people

(* An address with a time has it from there: the person, too, where one is   *)
(* chosen last, and the space where it is chosen first.                     *)
FromLists(a, picked) ==
  a.product # None /\ a.t # None =>
    /\ Pick(a.product) # "step1" => PickOf(a, a.t, None) \in picked.times
    /\ Pick(a.product) = "step1" /\ a.r # None => PickOf(a, a.t, a.r) \in picked.times
    /\ Pick(a.product) = "step4" /\ a.r \notin {None, ANY_RESOURCE} => PickOf(a, a.t, a.r) \in picked.people

Good(a, picked) == Known(a.product) /\ (a.t # None => Timed(a.t)) /\ FromLists(a, picked)

(* What the page reads in an address. *)
LEMMA ReadFields ==
  ASSUME NEW a, NEW shown, NEW s, s = ReadSelection(a, shown)
  PROVE  /\ DOMAIN s = Fields /\ s.product \in {None, a.product}
         /\ s.t # None => /\ s.product # None /\ s.t = a.t /\ s.party = a.party /\ s.dur # None
                          /\ EffectiveDuration(s) = EffectiveDuration(a)
         /\ s.product # None /\ Pick(s.product) = "none" => s.r = None
         /\ s.product # None /\ Pick(s.product) = "step4" => /\ s.r \in {None, ANY_RESOURCE, a.r}
                                                             /\ s.t = None => s.r = None
         /\ s.t # None /\ Pick(s.product) = "step1" => s.r # None /\ s.r = a.r
<1>1. CASE a.product \notin Listed(shown)
  <2>1. s = NoChoice BY <1>1 DEF ReadSelection
  <2> QED BY <2>1 DEF NoChoice, Fields
<1>2. CASE a.product \in Listed(shown)
  <2>1. PICK p : p = a.product OBVIOUS
  <2>2. PICK dur : dur = IF a.dur \in Catalogue[p].durations THEN a.dur
                         ELSE IF NeedsDuration(p) THEN None ELSE Default(p)
    OBVIOUS
  <2>3. PICK r : r = IF Pick(p) = "none" THEN None
                     ELSE IF a.r = ANY_RESOURCE /\ Pick(p) = "step4" THEN ANY_RESOURCE
                     ELSE IF a.r \in Catalogue[p].resources \cap shown THEN a.r ELSE None
    OBVIOUS
  <2>4. PICK d : d = IF dur # None /\ (Pick(p) = "step1" => r # None) THEN a.d ELSE None OBVIOUS
  <2>5. PICK t : t = IF d # None THEN a.t ELSE None OBVIOUS
  <2>6. s = [product |-> p, dur |-> dur, party |-> a.party,
             r |-> IF Pick(p) = "step4" /\ t = None THEN None ELSE r, d |-> d, t |-> t]
    BY <1>2, <2>1, <2>2, <2>3, <2>4, <2>5, Zenon DEF ReadSelection
  <2>7. /\ DOMAIN s = Fields /\ s.product = p /\ s.dur = dur /\ s.party = a.party /\ s.t = t
        /\ s.r = IF Pick(p) = "step4" /\ t = None THEN None ELSE r
    BY <2>6 DEF Fields
  <2>8. t # None => dur # None /\ d # None /\ t = a.t /\ (Pick(p) = "step1" => r # None) BY <2>4, <2>5
  <2>9. dur # None => EffectiveDuration(s) = EffectiveDuration(a)
    BY <2>1, <2>2, <2>7 DEF EffectiveDuration
  <2>10. p # None BY <1>2, <2>1, WidgetAssumption DEF Listed
  <2> QED BY <1>2, <2>1, <2>3, <2>7, <2>8, <2>9, <2>10
<1> QED BY <1>1, <1>2

(* A good address is read as a good choice, and what is read was picked. *)
LEMMA ReadGood ==
  ASSUME NEW a, NEW picked, Good(a, picked), NEW shown, NEW s, s = ReadSelection(a, shown)
  PROVE  DOMAIN s = Fields /\ Good(s, picked)
<1>1. DOMAIN s = Fields /\ Known(s.product) BY ReadFields DEF Good, Known
<1>2. s.t # None => Timed(s.t) BY ReadFields DEF Good
<1>3. FromLists(s, picked)
  <2> SUFFICES ASSUME s.product # None, s.t # None PROVE FromLists(s, picked) BY DEF FromLists
  <2>1. /\ s.product = a.product /\ s.t = a.t /\ s.party = a.party
        /\ EffectiveDuration(s) = EffectiveDuration(a)
    BY ReadFields
  <2>2. \A r : PickOf(s, s.t, r) = PickOf(a, a.t, r) BY <2>1 DEF PickOf
  <2>3. Pick(s.product) \in {"step1", "step4"} => s.r \in {None, ANY_RESOURCE, a.r} /\ (Pick(s.product) = "step1" => s.r = a.r)
    BY ReadFields
  <2> QED BY <2>1, <2>2, <2>3 DEF FromLists, Good
<1> QED BY <1>1, <1>2, <1>3 DEF Good

(* A space, where one is chosen first, is chosen before the time. *)
Spaced(s) == s.t # None /\ Pick(s.product) = "step1" => s.r # None

LEMMA ReadSpaced == ASSUME NEW a, NEW shown PROVE Spaced(ReadSelection(a, shown))
BY ReadFields DEF Spaced

LEMMA GoodIsPicked ==
  ASSUME NEW s, Good(s, Memory), Spaced(s), s.product # None
  PROVE  TimeIn(hist.picked \cup hist.strayed, s) /\ PersonIn(hist.picked, s)
<1>1. Memory.times = hist.picked \cup hist.strayed /\ Memory.people = hist.picked BY DEF Memory
<1>2. ASSUME s.t # None PROVE PickFor(s, s.t.at) \in Memory.times
  <2>1. PICK r : r = Space(s) OBVIOUS
  <2>2. PickFor(s, s.t.at) = PickOf(s, s.t, r) BY <2>1 DEF PickFor, PickOf, Start
  <2>3. CASE Pick(s.product) = "step1" BY <1>2, <2>1, <2>2, <2>3 DEF Good, FromLists, Spaced, Space
  <2>4. CASE Pick(s.product) # "step1" BY <1>2, <2>1, <2>2, <2>4 DEF Good, FromLists, Space
  <2> QED BY <2>3, <2>4
<1>3. ASSUME s.t # None, Pick(s.product) = "step4", s.r \notin {None, ANY_RESOURCE}
      PROVE  PickOf(s, s.t, s.r) \in Memory.people
  BY <1>3 DEF Good, FromLists
<1> QED BY <1>1, <1>2, <1>3 DEF TimeIn, PersonIn

(* More picked, the same address in another place, an address without time.  *)
LEMMA GoodGrows ==
  ASSUME NEW a, NEW picked, NEW more, Good(a, picked), Within(picked, more) PROVE Good(a, more)
BY DEF Good, FromLists, Within

LEMMA GoodUntimed ==
  ASSUME NEW a, NEW picked, Known(a.product), a.t = None PROVE Good(a, picked)
BY DEF Good, FromLists

(* The time in another form, the person dropped. *)
LEMMA GoodDropped ==
  ASSUME NEW a, NEW picked, Good(a, picked), NEW b,
         b.product = a.product, b.dur = a.dur, b.party = a.party,
         b.t # None => a.t # None /\ Timed(b.t) /\ b.t.at = a.t.at,
         b.r \in {a.r, None} \/ (b.r = ANY_RESOURCE /\ Pick(b.product) = "step4")
  PROVE  Good(b, picked)
<1>1. Known(b.product) BY DEF Good
<1>2. FromLists(b, picked)
  <2> SUFFICES ASSUME b.product # None, b.t # None PROVE FromLists(b, picked) BY DEF FromLists
  <2>1. \A r : PickOf(b, b.t, r) = PickOf(a, a.t, r) BY DEF PickOf, EffectiveDuration
  <2> QED BY <2>1 DEF FromLists, Good
<1> QED BY <1>1, <1>2 DEF Good

LEMMA AddressFields ==
  ASSUME NEW s, DOMAIN s = Fields, NEW rep, NEW tok, NEW done, NEW a, a = Address(s, rep, tok, done)
  PROVE  /\ a.product = s.product /\ a.dur = s.dur /\ a.party = s.party /\ a.r = s.r /\ a.d = s.d /\ a.t = s.t
         /\ a.rep = rep /\ a.tok = tok /\ a.done = done
BY DEF Address

LEMMA AddressGood ==
  ASSUME NEW s, DOMAIN s = Fields, NEW picked, Good(s, picked), NEW rep, NEW tok, NEW done
  PROVE  Good(Address(s, rep, tok, done), picked) /\ Address(s, rep, tok, done).tok = tok
<1>1. PICK a : a = Address(s, rep, tok, done) OBVIOUS
<1>2. a.product = s.product /\ a.dur = s.dur /\ a.party = s.party /\ a.r = s.r /\ a.t = s.t /\ a.tok = tok
  BY <1>1, AddressFields
<1>3. \A r : PickOf(a, a.t, r) = PickOf(s, s.t, r) BY <1>2 DEF PickOf, EffectiveDuration
<1>4. Good(a, picked) BY <1>2, <1>3 DEF Good, FromLists
<1> QED BY <1>1, <1>2, <1>4

-----------------------------------------------------------------------------
(* A choice takes with it what it makes void. *)

LEMMA InputChanged ==
  ASSUME NEW s, DOMAIN s = Fields, NEW picked, Good(s, picked), NEW f \in {"product", "dur", "party", "d"}, NEW v,
         f = "product" => Known(v), NEW new, new = ChangeTo(s, f, v)
  PROVE  DOMAIN new = Fields /\ Good(new, picked)
<1>1. PICK next : next = [s EXCEPT ![f] = v] OBVIOUS
<1>2. DOMAIN next = Fields /\ next[f] = v /\ \A g \in Fields \ {f} : next[g] = s[g] BY <1>1 DEF Fields
<1>3. Known(next.product) BY <1>2 DEF Fields, Good
<1>4. CASE v = s[f]
  <2>1. new = next BY <1>1, <1>4 DEF ChangeTo, Invalidates
  <2>2. \A g \in Fields : next[g] = s[g] BY <1>2, <1>4
  <2>3. next.product = s.product /\ next.dur = s.dur /\ next.party = s.party /\ next.r = s.r /\ next.t = s.t
    BY <2>2 DEF Fields
  <2>4. \A r : PickOf(next, next.t, r) = PickOf(s, s.t, r) BY <2>3 DEF PickOf, EffectiveDuration
  <2> QED BY <1>2, <2>1, <2>3, <2>4 DEF Good, FromLists
<1>5. CASE v # s[f]
  <2>1. PICK r : new = [next EXCEPT !.d = None, !.t = None, !.r = r] \/ new = [next EXCEPT !.t = None, !.r = r]
    BY <1>1, <1>5 DEF ChangeTo, Invalidates
  <2>2. DOMAIN new = Fields /\ new.t = None /\ new.product = next.product BY <1>2, <2>1 DEF Fields
  <2> QED BY <1>3, <2>2, GoodUntimed
<1> QED BY <1>4, <1>5

LEMMA TimeChanged ==
  ASSUME NEW s, DOMAIN s = Fields, NEW picked, Good(s, picked), NEW v, v # None => Timed(v),
         v # None => PickOf(s, v, IF s.product # None /\ Pick(s.product) = "step1" THEN s.r ELSE None) \in picked.times,
         NEW new, new = ChangeTo(s, "t", v)
  PROVE  DOMAIN new = Fields /\ Good(new, picked)
<1>1. PICK next : next = [s EXCEPT !["t"] = v] OBVIOUS
<1>2. /\ DOMAIN next = Fields /\ next.t = v /\ next.product = s.product /\ next.dur = s.dur
      /\ next.party = s.party /\ next.r = s.r /\ next.d = s.d
  BY <1>1 DEF Fields
<1>3. new = IF v # s.t THEN [next EXCEPT !.r = PersonAfter(next)] ELSE next
  BY <1>1 DEF ChangeTo, Invalidates
<1>4. CASE v = s.t
  <2>1. \A r : PickOf(next, next.t, r) = PickOf(s, s.t, r) BY <1>2, <1>4 DEF PickOf, EffectiveDuration
  <2> QED BY <1>2, <1>3, <1>4, <2>1 DEF Good, FromLists
<1>5. CASE v # s.t
  <2>1. PICK r : r = PersonAfter(next) OBVIOUS
  <2>2. /\ DOMAIN new = Fields /\ new.t = v /\ new.product = s.product /\ new.dur = s.dur
        /\ new.party = s.party /\ new.r = r
    BY <1>2, <1>3, <1>5, <2>1 DEF Fields
  <2>3. \A x : PickOf(new, new.t, x) = PickOf(s, v, x) BY <2>2 DEF PickOf, EffectiveDuration
  <2>4. Pick(s.product) = "step4" /\ s.product # None => r = None BY <1>2, <2>1 DEF PersonAfter
  <2>5. Pick(s.product) = "step1" => r = s.r BY <1>2, <2>1 DEF PersonAfter
  <2> QED BY <2>2, <2>3, <2>4, <2>5 DEF Good, FromLists
<1> QED BY <1>4, <1>5

LEMMA PersonChanged ==
  ASSUME NEW s, DOMAIN s = Fields, NEW picked, Good(s, picked), NEW v, NEW new, new = ChangeTo(s, "r", v),
         \/ s.t = None
         \/ Pick(s.product) # "step1" /\ PickOf(s, s.t, v) \in picked.people
  PROVE  DOMAIN new = Fields /\ Good(new, picked)
<1>1. new = [s EXCEPT !["r"] = v] BY DEF ChangeTo, Invalidates
<1>2. /\ DOMAIN new = Fields /\ new.t = s.t /\ new.product = s.product /\ new.dur = s.dur
      /\ new.party = s.party /\ new.r = v
  BY <1>1 DEF Fields
<1>3. \A x : PickOf(new, new.t, x) = PickOf(s, s.t, x) BY <1>2 DEF PickOf, EffectiveDuration
<1> QED BY <1>2, <1>3 DEF Good, FromLists

(* What the login brings back. *)
LEMMA RestoredGood ==
  ASSUME NEW s, DOMAIN s = Fields, NEW picked, Good(s, picked), s.t # None, NEW new, new = Restored(s)
  PROVE  DOMAIN new = Fields /\ Good(new, picked)
<1>1. PICK duty : duty = IF s.r \in active THEN s.r ELSE None OBVIOUS
<1>2. PICK t, r : t = InUtc(s.t) /\ r = IF duty = None /\ Pick(s.product) = "step4" THEN ANY_RESOURCE ELSE duty
  OBVIOUS
<1>3. Timed(t) /\ t.at = s.t.at BY <1>2 DEF Good, Timed, InUtc
<1>4. new = [s EXCEPT !.t = t, !.r = r] BY <1>1, <1>2 DEF Restored
<1>5. /\ DOMAIN new = Fields /\ new.t = t /\ new.product = s.product /\ new.dur = s.dur
      /\ new.party = s.party /\ new.r = r
  BY <1>4 DEF Fields
<1>6. r \in {s.r, None} \/ (r = ANY_RESOURCE /\ Pick(s.product) = "step4") BY <1>1, <1>2
<1>7. \A x : PickOf(new, new.t, x) = PickOf(s, s.t, x) BY <1>3, <1>5 DEF PickOf, EffectiveDuration
<1> QED BY <1>3, <1>5, <1>6, <1>7 DEF Good, FromLists

-----------------------------------------------------------------------------
(* The history, the tokens, the order and the page. *)

Recorded == DOMAIN hist = {"picked", "strayed", "answered", "confirmed"}
Histories(list, place, toks, picked) ==
  \E S : /\ list \in Seq(S) /\ place \in 1..Len(list)
         /\ \A a \in S : Good(a, picked) /\ (a.tok # None => a.tok \in 1..Len(toks))
Saved(toks, picked) ==
  \E S : toks \in Seq(S) /\ \A k \in S : /\ DOMAIN k = {"sel", "live"} /\ DOMAIN k.sel = Fields
                                         /\ k.sel.t # None /\ Good(k.sel, picked)
Lists(pg) == pg.got # None => \A x \in pg.got.slots : Timed(x.start)

(* While an order is under way the page is busy and there, and shows no      *)
(* result: one that shows a confirmation does not send again.               *)
Sending(o, pg, picked) ==
  o # None => /\ DOMAIN o = {"sel", "rep", "reply"} /\ DOMAIN o.sel = Fields /\ Good(o.sel, picked) /\ Spaced(o.sel)
              /\ pg.busy = TRUE /\ pg.away = FALSE /\ pg.placed = None
              /\ o.reply # None /\ o.reply.kind = "OK" => o.reply.alts = {}
Once(pg, confirmed) == confirmed = 0 \/ (confirmed = 1 /\ pg.placed # None /\ pg.placed.alts = {})
LeftFor(pg, toks) == pg.away = FALSE \/ (pg.away = TRUE /\ Len(toks) > 0)

PickInv ==
  /\ FetchInv /\ Recorded
  /\ Histories(entries, at, tokens, Memory) /\ Saved(tokens, Memory) /\ Lists(page)
  /\ Sending(order, page, Memory) /\ Once(page, hist.confirmed) /\ LeftFor(page, tokens)

(* A page with the same lists, result and whereabouts. *)
LEMMA SamePage ==
  ASSUME NEW pg, NEW new, new.got = pg.got, new.placed = pg.placed, new.busy = pg.busy, new.away = pg.away,
         NEW o, NEW picked, NEW n, NEW toks
  PROVE  /\ Lists(pg) => Lists(new) /\ (Sending(o, pg, picked) => Sending(o, new, picked))
         /\ Once(pg, n) => Once(new, n) /\ (LeftFor(pg, toks) => LeftFor(new, toks))
BY DEF Lists, Sending, Once, LeftFor

(* More has been picked. *)
LEMMA MorePicked ==
  ASSUME NEW picked, NEW more, Within(picked, more), NEW list, NEW place, NEW toks, NEW o, NEW pg
  PROVE  /\ Histories(list, place, toks, picked) => Histories(list, place, toks, more)
         /\ Saved(toks, picked) => Saved(toks, more)
         /\ Sending(o, pg, picked) => Sending(o, pg, more)
<1>1. \A a : Good(a, picked) => Good(a, more) BY GoodGrows
<1>2. Histories(list, place, toks, picked) => Histories(list, place, toks, more) BY <1>1 DEF Histories
<1>3. Saved(toks, picked) => Saved(toks, more) BY <1>1 DEF Saved
<1>4. Sending(o, pg, picked) => Sending(o, pg, more) BY <1>1 DEF Sending
<1> QED BY <1>2, <1>3, <1>4

(* A history of one address, and no token yet. *)
LEMMA OneAddress ==
  ASSUME NEW a, NEW toks, NEW picked, Good(a, picked), a.tok # None => a.tok \in 1..Len(toks)
  PROVE  Histories(<<a>>, 1, toks, picked)
<1>1. PICK S : S = {a} OBVIOUS
<1>2. <<a>> \in Seq(S) /\ 1 \in 1..Len(<<a>>) BY <1>1
<1>3. \A b \in S : Good(b, picked) /\ (b.tok # None => b.tok \in 1..Len(toks)) BY <1>1
<1> QED BY <1>2, <1>3 DEF Histories

LEMMA NothingSaved == ASSUME NEW picked PROVE Saved(<<>>, picked)
<1>1. PICK S : S = {} OBVIOUS
<1>2. <<>> \in Seq(S) OBVIOUS
<1>3. \A k \in S : DOMAIN k = {"sel", "live"} /\ DOMAIN k.sel = Fields /\ k.sel.t # None /\ Good(k.sel, picked)
  BY <1>1
<1> QED BY <1>2, <1>3 DEF Saved

(* A good address comes into the history. *)
LEMMA EntryAdded ==
  ASSUME NEW list, NEW place, NEW toks, NEW picked, Histories(list, place, toks, picked),
         NEW a, Good(a, picked), a.tok # None => a.tok \in 1..Len(toks)
  PROVE  /\ Histories([list EXCEPT ![place] = a], place, toks, picked)
         /\ Histories(Append(SubSeq(list, 1, place), a), place + 1, toks, picked)
<1>1. PICK S : /\ list \in Seq(S) /\ place \in 1..Len(list)
               /\ \A b \in S : Good(b, picked) /\ (b.tok # None => b.tok \in 1..Len(toks))
  BY DEF Histories
<1>2. \A b \in S \cup {a} : Good(b, picked) /\ (b.tok # None => b.tok \in 1..Len(toks)) BY <1>1
<1>3. /\ [list EXCEPT ![place] = a] \in Seq(S \cup {a}) /\ place \in 1..Len([list EXCEPT ![place] = a])
      /\ Append(SubSeq(list, 1, place), a) \in Seq(S \cup {a})
      /\ place + 1 \in 1..Len(Append(SubSeq(list, 1, place), a))
  BY <1>1, OneEntry
<1> QED BY <1>2, <1>3 DEF Histories

(* What the page reads where it is. *)
LEMMA HereGood ==
  ASSUME PickInv
  PROVE  /\ Good(Here, Memory) /\ (Here.tok # None => Here.tok \in 1..Len(tokens))
         /\ DOMAIN Sel = Fields /\ Good(Sel, Memory)
<1>1. PICK S : /\ entries \in Seq(S) /\ at \in 1..Len(entries)
               /\ \A b \in S : Good(b, Memory) /\ (b.tok # None => b.tok \in 1..Len(tokens))
  BY DEF PickInv, Histories
<1>2. Here \in S BY <1>1 DEF Here
<1>3. PICK s : s = Sel OBVIOUS
<1>4. DOMAIN s = Fields /\ Good(s, Memory) BY <1>1, <1>2, <1>3, ReadGood DEF Sel
<1> QED BY <1>1, <1>2, <1>3, <1>4

(* The steps say what has been chosen. *)
LEMMA StepSays ==
  ASSUME NEW a, NEW shown, NEW s, s = ReadSelection(a, shown)
  PROVE  /\ StepOf(s) = 1 => s.t = None
         /\ StepOf(s) = 3 => s.t = None /\ s.product # None
         /\ StepOf(s) = 4 => s.t # None /\ s.product # None /\ Pick(s.product) = "step4"
         /\ StepOf(s) = 5 => s.t # None /\ s.product # None
BY ReadFields DEF StepOf

(* A choice that leads to a good address, with what was picked for it.       *)
LEMMA ApplyPicks ==
  ASSUME PickInv, FetchInv', Recorded', NEW pg,
         pg = page \/ (/\ pg = [page EXCEPT !.placed = None]
                       /\ page.placed # None /\ page.placed.alts # {}),
         NEW f, NEW v, ApplyTo(pg, f, v),
         NEW next, next = ChangeTo(Sel, f, v), DOMAIN next = Fields, Good(next, Memory'),
         Within(Memory, Memory'), hist.confirmed' = hist.confirmed
  PROVE  PickInv'
<1>1. PICK a : a = Chosen(f, v) OBVIOUS
<1>2. Good(a, Memory') /\ a.tok = None
  BY <1>1, AddressGood DEF Chosen
<1>3. Histories(entries, at, tokens, Memory') /\ Saved(tokens, Memory') /\ Sending(order, page, Memory')
  BY MorePicked DEF PickInv
<1>4. \/ entries' = Append(SubSeq(entries, 1, at), a) /\ at' = at + 1
      \/ entries' = [entries EXCEPT ![at] = a] /\ at' = at
  BY <1>1 DEF ApplyTo, Chosen
<1>5. Histories(entries', at', tokens, Memory')
  <2>1. PICK picked : picked = Memory' OBVIOUS
  <2>2. /\ Histories([entries EXCEPT ![at] = a], at, tokens, picked)
        /\ Histories(Append(SubSeq(entries, 1, at), a), at + 1, tokens, picked)
    BY <1>2, <1>3, <2>1, EntryAdded
  <2> QED BY <1>4, <2>1, <2>2
<1>6. DOMAIN page = PageFields /\ AskedByKey(page) BY DEF PickInv, FetchInv, Fetching
<1>7. /\ DOMAIN pg = PageFields /\ pg.got = page.got /\ pg.busy = page.busy /\ pg.away = page.away
      /\ pg.asked = page.asked /\ pg.key = page.key
  BY <1>6 DEF PageFields
<1>8. AskedByKey(pg) BY <1>6, <1>7 DEF AskedByKey
<1>9. /\ page'.got = page.got /\ page'.busy = page.busy /\ page'.away = page.away /\ page'.placed = pg.placed
  BY <1>7, <1>8, RefetchFollows DEF ApplyTo
<1>10. UNCHANGED <<order, tokens>> BY DEF ApplyTo, server
<1>11. Lists(page') /\ LeftFor(page', tokens) BY <1>9 DEF PickInv, Lists, LeftFor
<1>12. Sending(order, page', Memory') /\ Once(page', hist.confirmed)
  <2>1. CASE pg = page BY <1>3, <1>9, <2>1 DEF PickInv, Sending, Once
  <2>2. CASE pg # page
    <3>1. page.placed # None /\ page.placed.alts # {} BY <2>2
    <3>2. order = None /\ hist.confirmed = 0 BY <3>1 DEF PickInv, Sending, Once
    <3> QED BY <3>2 DEF Sending, Once
  <2> QED BY <2>1, <2>2
<1> QED BY <1>3, <1>5, <1>10, <1>11, <1>12 DEF PickInv, Recorded, Memory

(* What is picked from a list is there for good, and so is an alternative.  *)
LEMMA PicksMore ==
  ASSUME Recorded, NEW start, NEW r, Picks(start, r)
  PROVE  /\ Recorded' /\ hist.confirmed' = hist.confirmed /\ Within(Memory, Memory')
         /\ PickOf(Sel, start, r) \in Memory'.times /\ PickOf(Sel, start, r) \in Memory'.people
BY DEF Recorded, Picks, Memory, Within

LEMMA AlternativesMore ==
  ASSUME Recorded, NEW i,
         hist' = [hist EXCEPT !.picked = @ \cup {PickFor(hist.answered, i)},
                              !.strayed = @ \cup ({PickFor(Sel, i)} \ {PickFor(hist.answered, i)})]
  PROVE  /\ Recorded' /\ hist.confirmed' = hist.confirmed /\ Within(Memory, Memory')
         /\ PickFor(Sel, i) \in Memory'.times
BY DEF Recorded, Memory, Within

(* A choice of an input, of which nothing is picked. *)
LEMMA InputPicks ==
  ASSUME PickInv, FetchInv', UNCHANGED hist, NEW f \in {"product", "dur", "party", "d"}, NEW v,
         f = "product" => Known(v), Apply(f, v)
  PROVE  PickInv'
<1>1. PICK next : next = ChangeTo(Sel, f, v) OBVIOUS
<1>2. DOMAIN next = Fields /\ Good(next, Memory) BY <1>1, HereGood, InputChanged
<1>3. Recorded' /\ Memory' = Memory /\ Within(Memory, Memory') /\ hist.confirmed' = hist.confirmed
  BY DEF PickInv, Recorded, Memory, Within
<1>4. ApplyTo(page, f, v) BY DEF Apply
<1> QED BY <1>1, <1>2, <1>3, <1>4, ApplyPicks

LEMMA ListTimed == ASSUME PickInv, NEW d, NEW x \in DayShown(d) PROVE Timed(x.start)
BY DEF PickInv, Lists, DayShown, Fresh

LEMMA ChoicePicks == ASSUME PickInv, FetchInv', Choose PROVE PickInv'
<1>1. CASE ChooseProduct
  <2>1. PICK p \in DOMAIN Catalogue : Apply("product", p) BY <1>1 DEF ChooseProduct, Listed
  <2> QED BY <1>1, <2>1, InputPicks DEF ChooseProduct, Plainly, Known
<1>2. CASE OtherProduct BY <1>2, InputPicks DEF OtherProduct, Plainly, Known
<1>3. CASE ChooseDuration \/ ChooseParty \/ ChooseDate \/ OtherDate
  BY <1>3, InputPicks DEF ChooseDuration, ChooseParty, ChooseDate, OtherDate, Plainly
<1>4. CASE ChooseSpace
  <2>1. PICK r : Apply("r", r) BY <1>4 DEF ChooseSpace
  <2>2. Sel.t = None BY <1>4, StepSays DEF ChooseSpace, Shows, Step, Sel
  <2>3. PICK next : next = ChangeTo(Sel, "r", r) OBVIOUS
  <2>4. DOMAIN next = Fields /\ Good(next, Memory) BY <2>2, <2>3, HereGood, PersonChanged
  <2>5. Recorded' /\ Memory' = Memory /\ Within(Memory, Memory') /\ hist.confirmed' = hist.confirmed
    BY <1>4 DEF PickInv, Recorded, Memory, Within, ChooseSpace, Plainly
  <2>6. ApplyTo(page, "r", r) BY <2>1 DEF Apply
  <2> QED BY <2>3, <2>4, <2>5, <2>6, ApplyPicks
<1>5. CASE TurnMonth
  <2>1. UNCHANGED <<browser, order, tokens, hist>> BY <1>5 DEF TurnMonth, server
  <2>2. PICK m : page' = Refetch([page EXCEPT !.browsing = m], Sel) BY <1>5 DEF TurnMonth
  <2>3. DOMAIN page = PageFields /\ AskedByKey(page) BY DEF PickInv, FetchInv, Fetching
  <2>4. PICK pg : pg = [page EXCEPT !.browsing = m] OBVIOUS
  <2>5. /\ DOMAIN pg = PageFields /\ pg.got = page.got /\ pg.busy = page.busy /\ pg.away = page.away
        /\ pg.asked = page.asked /\ pg.key = page.key /\ pg.placed = page.placed
    BY <2>3, <2>4 DEF PageFields
  <2>6. AskedByKey(pg) BY <2>3, <2>5 DEF AskedByKey
  <2>7. page'.got = page.got /\ page'.busy = page.busy /\ page'.away = page.away /\ page'.placed = page.placed
    <3>1. page' = Refetch(pg, Sel) BY <2>2, <2>4
    <3> QED BY <2>5, <2>6, <3>1, RefetchFollows
  <2> QED BY <2>1, <2>7, SamePage DEF PickInv, Recorded, Memory, browser
<1>6. CASE ChooseTime
  <2>1. PICK slot \in DayShown(Sel.d) : Picks(slot.start, Sel.r) /\ Apply("t", slot.start) BY <1>6 DEF ChooseTime
  <2>2. Sel.t = None /\ Sel.product # None BY <1>6, StepSays DEF ChooseTime, Shows, Step, Sel
  <2>3. Timed(slot.start) BY <2>1, ListTimed
  <2>4. Sel.product \in DOMAIN Catalogue BY <2>2, HereGood DEF Good, Known
  <2>5. Pick(Sel.product) \in {"none", "step1", "step4"} BY <2>4, WidgetAssumption DEF Pick
  <2>6. Pick(Sel.product) # "step1" => Sel.r = None BY <2>2, <2>5, ReadFields DEF Sel
  <2>7. /\ Recorded' /\ hist.confirmed' = hist.confirmed
        /\ Within(Memory, Memory') /\ PickOf(Sel, slot.start, Sel.r) \in Memory'.times
    BY <2>1, PicksMore DEF PickInv
  <2>8. Good(Sel, Memory') BY <2>7, HereGood, GoodGrows
  <2>9. PICK next : next = ChangeTo(Sel, "t", slot.start) OBVIOUS
  <2>10. PickOf(Sel, slot.start, IF Sel.product # None /\ Pick(Sel.product) = "step1" THEN Sel.r ELSE None) \in Memory'.times
    BY <2>2, <2>6, <2>7
  <2>11. DOMAIN next = Fields /\ Good(next, Memory') BY <2>3, <2>8, <2>9, <2>10, HereGood, TimeChanged
  <2>12. ApplyTo(page, "t", slot.start) BY <2>1 DEF Apply
  <2> QED BY <2>7, <2>9, <2>11, <2>12, ApplyPicks
<1>7. CASE OtherTime
  <2>1. PICK next : next = ChangeTo(Sel, "t", None) OBVIOUS
  <2>2. DOMAIN next = Fields /\ Good(next, Memory) BY <2>1, HereGood, TimeChanged
  <2>3. Recorded' /\ Memory' = Memory /\ Within(Memory, Memory') /\ hist.confirmed' = hist.confirmed
    BY <1>7 DEF PickInv, Recorded, Memory, Within, OtherTime, Plainly
  <2>4. ApplyTo(page, "t", None) BY <1>7 DEF OtherTime, Apply
  <2> QED BY <2>1, <2>2, <2>3, <2>4, ApplyPicks
<1>8. CASE ChoosePerson
  <2>1. PICK r : Picks(Sel.t, r) /\ Apply("r", r) BY <1>8 DEF ChoosePerson
  <2>2. Sel.t # None /\ Sel.product # None /\ Pick(Sel.product) = "step4"
    BY <1>8, StepSays DEF ChoosePerson, Shows, Step, Sel
  <2>3. /\ Recorded' /\ hist.confirmed' = hist.confirmed /\ Within(Memory, Memory')
        /\ PickOf(Sel, Sel.t, r) \in Memory'.people
    BY <2>1, PicksMore DEF PickInv
  <2>4. Good(Sel, Memory') BY <2>3, HereGood, GoodGrows
  <2>5. PICK next : next = ChangeTo(Sel, "r", r) OBVIOUS
  <2>6. DOMAIN next = Fields /\ Good(next, Memory') BY <2>2, <2>3, <2>4, <2>5, HereGood, PersonChanged
  <2>7. ApplyTo(page, "r", r) BY <2>1 DEF Apply
  <2> QED BY <2>3, <2>5, <2>6, <2>7, ApplyPicks
<1>9. CASE ChooseAlternative
  <2>1. PICK i \in page.placed.alts :
          /\ hist' = [hist EXCEPT !.picked = @ \cup {PickFor(hist.answered, i)},
                                  !.strayed = @ \cup ({PickFor(Sel, i)} \ {PickFor(hist.answered, i)})]
          /\ ApplyTo([page EXCEPT !.placed = None], "t", Start(i))
    BY <1>9 DEF ChooseAlternative
  <2>2. Sel.product # None /\ page.placed # None BY <1>9 DEF ChooseAlternative
  <2>3. PICK start : start = Start(i) OBVIOUS
  <2>4. Timed(start) BY <2>3 DEF Start, Timed
  <2>5. /\ Recorded' /\ hist.confirmed' = hist.confirmed /\ Within(Memory, Memory')
        /\ PickFor(Sel, i) \in Memory'.times
    BY <2>1, AlternativesMore DEF PickInv
  <2>6. Good(Sel, Memory') BY <2>5, HereGood, GoodGrows
  <2>7. PICK next : next = ChangeTo(Sel, "t", start) OBVIOUS
  <2>8. PickOf(Sel, start, IF Sel.product # None /\ Pick(Sel.product) = "step1" THEN Sel.r ELSE None) \in Memory'.times
    BY <2>2, <2>3, <2>5 DEF PickFor, Space
  <2>9. DOMAIN next = Fields /\ Good(next, Memory') BY <2>4, <2>6, <2>7, <2>8, HereGood, TimeChanged
  <2>10. PICK pg : pg = [page EXCEPT !.placed = None] OBVIOUS
  <2>11. ApplyTo(pg, "t", start) /\ page.placed.alts # {} BY <2>1, <2>3, <2>10
  <2> QED BY <2>2, <2>5, <2>7, <2>9, <2>10, <2>11, ApplyPicks
<1> QED BY <1>1, <1>2, <1>3, <1>4, <1>5, <1>6, <1>7, <1>8, <1>9 DEF Choose

(* A new life of the page while nothing is under way. *)
LEMMA NewLife ==
  ASSUME PickInv, FetchInv', order = None, UNCHANGED <<order, tokens>>,
         NEW a, NEW signedIn, NEW shown, page' = Mount(a, signedIn, shown),
         hist' = [hist EXCEPT !.confirmed = 0], Histories(entries', at', tokens, Memory)
  PROVE  PickInv'
<1>1. page'.got = None /\ page'.away = FALSE BY MountFollows
<1>2. Recorded' /\ Memory' = Memory /\ hist.confirmed' = 0 BY DEF PickInv, Recorded, Memory
<1>3. /\ Lists(page') /\ LeftFor(page', tokens) /\ Sending(order, page', Memory) /\ Once(page', 0)
  BY <1>1 DEF Lists, LeftFor, Sending, Once
<1> QED BY <1>2, <1>3 DEF PickInv, Recorded, Memory

(* Nobody who is away, or about to leave, has an order under way.            *)
LEMMA AwayIdle == ASSUME PickInv, page.away \/ ~page.busy PROVE order = None
<1>1. order # None => page.busy = TRUE /\ page.away = FALSE BY DEF PickInv, Sending
<1> QED BY <1>1, Zenon

LEMMA BrowsePicks == ASSUME PickInv, FetchInv', Browse PROVE PickInv'
<1>1. DOMAIN page = PageFields /\ AskedByKey(page) BY DEF PickInv, FetchInv, Fetching
<1>2. ASSUME NEW to, Travel(to) PROVE PickInv'
  <2>1. page' = Refetch(page, ReadSelection(entries[to], page.shown)) BY <1>2 DEF Travel
  <2>2. page'.got = page.got /\ page'.busy = page.busy /\ page'.away = page.away /\ page'.placed = page.placed
    BY <1>1, <2>1, RefetchFollows
  <2>3. UNCHANGED <<entries, order, tokens, hist>> /\ at' = to /\ to \in DOMAIN entries BY <1>2 DEF Travel, server
  <2>4. Histories(entries, to, tokens, Memory) BY <2>3 DEF PickInv, Histories
  <2> QED BY <2>2, <2>3, <2>4, SamePage DEF PickInv, Recorded, Memory
<1>3. CASE Reload
  <2>1. UNCHANGED <<entries, at, order, tokens>> /\ order = None BY <1>3 DEF Reload, server, browser
  <2>2. page' = Mount(Here, page.signedIn, active) /\ hist' = [hist EXCEPT !.confirmed = 0]
    BY <1>3 DEF Reload, Remount
  <2>3. Histories(entries', at', tokens, Memory) BY <2>1 DEF PickInv
  <2> QED BY <2>1, <2>2, <2>3, NewLife
<1>4. CASE Retry
  <2>1. PICK q : page' = [page EXCEPT !.asked = q] BY <1>4 DEF Retry
  <2>2. page'.got = page.got /\ page'.busy = page.busy /\ page'.away = page.away /\ page'.placed = page.placed
    BY <1>1, <2>1 DEF PageFields
  <2>3. UNCHANGED <<entries, at, order, tokens, hist>> BY <1>4 DEF Retry, server, browser
  <2> QED BY <2>2, <2>3, SamePage DEF PickInv, Recorded, Memory
<1> QED BY <1>2, <1>3, <1>4 DEF Browse, Back, Forward

LEMMA SubmitPicks == ASSUME PickInv, FetchInv', Submit PROVE PickInv'
<1>1. DOMAIN page = PageFields BY DEF PickInv, FetchInv, Fetching
<1>2. /\ UNCHANGED <<entries, at, tokens, hist>> /\ page.placed = None /\ ~page.away
      /\ page' = [page EXCEPT !.busy = TRUE]
      /\ order' = [sel |-> Sel, rep |-> Here.rep, reply |-> None]
  BY DEF Submit, Submittable, Confirming, Moves, CanMove, browser, server
<1>3. /\ page'.got = page.got /\ page'.busy = TRUE /\ page'.away = page.away /\ page'.placed = page.placed
  BY <1>1, <1>2 DEF PageFields
<1>4. page.away = FALSE BY <1>2, Zenon DEF PickInv, LeftFor
<1>5. DOMAIN order' = {"sel", "rep", "reply"} /\ order'.sel = Sel /\ order'.reply = None BY <1>2
<1>6. Sending(order', page', Memory)
  <2>1. Spaced(Sel) BY ReadSpaced DEF Sel
  <2> QED BY <1>2, <1>3, <1>4, <1>5, <2>1, HereGood DEF Sending
<1>7. Lists(page') /\ Once(page', hist.confirmed) /\ LeftFor(page', tokens) BY <1>3 DEF PickInv, Lists, Once, LeftFor
<1> QED BY <1>2, <1>6, <1>7 DEF PickInv, Recorded, Memory

(* The token keeps what was picked, a person off duty apart. *)
LEMMA LoginPicks ==
  ASSUME PickInv, FetchInv', SubmitToLogin, Sel.product \in Listed(active) PROVE PickInv'
<1>1. DOMAIN page = PageFields BY DEF PickInv, FetchInv, Fetching
<1>2. UNCHANGED <<entries, at, order, hist>> /\ page' = [page EXCEPT !.away = TRUE] /\ order = None
  BY AwayIdle DEF SubmitToLogin, Submittable, browser
<1>3. page'.got = page.got /\ page'.away = TRUE /\ page'.placed = page.placed BY <1>1, <1>2 DEF PageFields
<1>4. PICK r : /\ r \in {Sel.r, None}
               /\ tokens' = Append(tokens, [sel |-> [Sel EXCEPT !.r = r], live |-> TRUE])
  <2>1. PICK r : r = IF Sel.r \in active THEN Sel.r ELSE None OBVIOUS
  <2>2. r \in {Sel.r, None} BY <2>1
  <2> QED BY <2>1, <2>2 DEF SubmitToLogin
<1>5. Sel.t # None BY StepSays DEF SubmitToLogin, Submittable, Confirming, Shows, Step, Sel
<1>6. PICK s : s = [Sel EXCEPT !.r = r] OBVIOUS
<1>7. /\ DOMAIN s = Fields /\ s.product = Sel.product /\ s.dur = Sel.dur /\ s.party = Sel.party
      /\ s.t = Sel.t /\ s.r = r
  BY <1>6, HereGood DEF Fields
<1>8. \A x : PickOf(s, s.t, x) = PickOf(Sel, Sel.t, x) BY <1>7 DEF PickOf, EffectiveDuration
<1>9. Good(s, Memory) BY <1>4, <1>7, <1>8, HereGood DEF Good, FromLists
<1>10. PICK k : k = [sel |-> s, live |-> TRUE] OBVIOUS
<1>11. DOMAIN k = {"sel", "live"} /\ k.sel = s BY <1>10
<1>12. PICK T : tokens \in Seq(T) /\ \A x \in T : /\ DOMAIN x = {"sel", "live"} /\ DOMAIN x.sel = Fields
                                                  /\ x.sel.t # None /\ Good(x.sel, Memory)
  BY DEF PickInv, Saved
<1>13. tokens' = Append(tokens, k) BY <1>4, <1>6, <1>10
<1>14. tokens \in Seq(T \cup {k}) BY <1>12
<1>15. tokens' \in Seq(T \cup {k}) /\ Len(tokens') = Len(tokens) + 1 /\ Len(tokens) \in Nat BY <1>12, <1>13, <1>14
<1>16. Saved(tokens', Memory) BY <1>5, <1>7, <1>9, <1>11, <1>12, <1>15 DEF Saved
<1>17. Histories(entries, at, tokens', Memory)
  <2>1. PICK S : /\ entries \in Seq(S) /\ at \in 1..Len(entries)
                 /\ \A b \in S : Good(b, Memory) /\ (b.tok # None => b.tok \in 1..Len(tokens))
    BY DEF PickInv, Histories
  <2>2. \A n : n \in 1..Len(tokens) => n \in 1..Len(tokens') BY <1>15
  <2> QED BY <2>1, <2>2 DEF Histories
<1>18. Lists(page') /\ Once(page', hist.confirmed) /\ LeftFor(page', tokens') /\ Sending(order, page', Memory)
  BY <1>2, <1>3, <1>15 DEF PickInv, Lists, Once, LeftFor, Sending
<1> QED BY <1>2, <1>16, <1>17, <1>18 DEF PickInv, Recorded, Memory

LEMMA SendPicks == ASSUME PickInv, FetchInv', Send PROVE PickInv'
<1>1. CASE Submit BY <1>1, SubmitPicks
<1>2. CASE SubmitToLogin
  <2>1. CASE Sel.product \in Listed(active) BY <1>2, <2>1, LoginPicks
  <2>2. CASE Sel.product \notin Listed(active)
    <3>1. UNCHANGED <<entries, at, page, order, tokens, hist>> BY <1>2, <2>2 DEF SubmitToLogin, browser
    <3> QED BY <3>1 DEF PickInv, Recorded, Memory
  <2> QED BY <2>1, <2>2
<1>3. CASE LoginReturns
  <2>1. page.away /\ UNCHANGED <<order, tokens>> /\ hist' = [hist EXCEPT !.confirmed = 0]
    BY <1>3 DEF LoginReturns, server
  <2>2. order = None BY <2>1, AwayIdle
  <2>3. PICK a : a = Address(NoChoice, Here.rep, Len(tokens), None) OBVIOUS
  <2>4. entries' = <<a>> /\ at' = 1 /\ page' = Mount(a, TRUE, active) BY <1>3, <2>3 DEF LoginReturns
  <2>5. page.away = TRUE /\ Len(tokens) > 0 BY <2>1, Zenon DEF PickInv, LeftFor
  <2>6. Len(tokens) \in Nat BY DEF PickInv, Saved
  <2>7. DOMAIN NoChoice = Fields /\ NoChoice.product = None /\ NoChoice.t = None BY DEF NoChoice, Fields
  <2>8. Good(NoChoice, Memory) BY <2>7, GoodUntimed DEF Known
  <2>9. Good(a, Memory) /\ a.tok = Len(tokens) BY <2>3, <2>7, <2>8, AddressGood
  <2>11. Histories(<<a>>, 1, tokens, Memory)
    <3>1. Len(tokens) \in 1..Len(tokens) BY <2>5, <2>6
    <3> QED BY <2>9, <3>1, OneAddress
  <2> QED BY <2>1, <2>2, <2>4, <2>11, NewLife
<1>4. CASE Abandon
  <2>1. page.away /\ UNCHANGED <<entries, at, order, tokens>> BY <1>4 DEF Abandon, server, browser
  <2>2. page' = Mount(Here, FALSE, active) /\ hist' = [hist EXCEPT !.confirmed = 0]
    BY <1>4 DEF Abandon, Remount
  <2>3. Histories(entries', at', tokens, Memory) BY <2>1 DEF PickInv
  <2> QED BY <2>1, <2>2, <2>3, AwayIdle, NewLife
<1> QED BY <1>1, <1>2, <1>3, <1>4 DEF Send

LEMMA AnswerOrderPicks == ASSUME PickInv, FetchInv', AnswerOrder PROVE PickInv'
<1>1. DOMAIN page = PageFields /\ AskedByKey(page) BY DEF PickInv, FetchInv, Fetching
<1>2. /\ DOMAIN order = {"sel", "rep", "reply"} /\ DOMAIN order.sel = Fields /\ Good(order.sel, Memory)
      /\ page.placed = None /\ page.away = FALSE /\ order.reply # None
      /\ order.reply.kind = "OK" => order.reply.alts = {}
  BY DEF AnswerOrder, PickInv, Sending
<1>3. hist.confirmed = 0 BY <1>2 DEF PickInv, Once
<1>4. order' = None /\ at' = at /\ UNCHANGED tokens BY DEF AnswerOrder, server
<1>5. PICK done : done = Address(order.sel, order.rep, None, "DONE") OBVIOUS
<1>6. entries' = IF order.reply.kind = "OK" THEN [entries EXCEPT ![at] = done] ELSE entries
  BY <1>5 DEF AnswerOrder
<1>7. Good(done, Memory) /\ done.tok = None BY <1>2, <1>5, AddressGood
<1>8. Histories(entries', at, tokens, Memory)
  <2>1. Histories(entries, at, tokens, Memory) BY DEF PickInv
  <2>2. Histories([entries EXCEPT ![at] = done], at, tokens, Memory) BY <1>7, <2>1, EntryAdded
  <2> QED BY <1>6, <2>1, <2>2
<1>9. PICK placed : placed = IF order.reply.kind = "REFUSED" THEN page.placed ELSE order.reply OBVIOUS
<1>10. PICK pg : pg = [page EXCEPT !.busy = FALSE, !.placed = placed] OBVIOUS
<1>11. page' = Refetch(pg, ReadSelection(entries'[at], page.shown)) BY <1>9, <1>10 DEF AnswerOrder
<1>12. /\ DOMAIN pg = PageFields /\ pg.got = page.got /\ pg.away = page.away /\ pg.placed = placed
       /\ pg.asked = page.asked /\ pg.key = page.key
  BY <1>1, <1>10 DEF PageFields
<1>13. AskedByKey(pg) BY <1>1, <1>12 DEF AskedByKey
<1>14. page'.got = page.got /\ page'.away = page.away /\ page'.placed = placed
  BY <1>11, <1>12, <1>13, RefetchFollows
<1>15. PICK sel : hist' = [hist EXCEPT !.answered = sel,
                                      !.confirmed = IF order.reply.kind = "OK" THEN @ + 1 ELSE @]
  BY DEF AnswerOrder
<1>16. /\ Recorded' /\ Memory' = Memory
       /\ hist.confirmed' = IF order.reply.kind = "OK" THEN 1 ELSE 0
  BY <1>3, <1>15 DEF PickInv, Recorded, Memory
<1>17. Once(page', hist.confirmed') BY <1>2, <1>9, <1>14, <1>16 DEF Once
<1>18. Lists(page') /\ LeftFor(page', tokens) /\ Sending(order', page', Memory)
  BY <1>4, <1>14 DEF PickInv, Lists, LeftFor, Sending
<1> QED BY <1>4, <1>8, <1>16, <1>17, <1>18 DEF PickInv

LEMMA ServePicks == ASSUME PickInv, FetchInv', ServeOrder PROVE PickInv'
<1>1. UNCHANGED <<entries, at, page, tokens, hist>> /\ order # None BY DEF ServeOrder, browser
<1>2. PICK reply : order' = [order EXCEPT !.reply = reply] /\ (reply.kind = "OK" => reply.alts = {})
  <2>1. PICK reply : /\ order' = [order EXCEPT !.reply = reply]
                     /\ \/ \E kind \in {"REFUSED", "OK"} : reply = Reply(kind, {})
                        \/ \E alts : reply = Reply("TAKEN", alts)
    BY DEF ServeOrder
  <2>2. reply.kind = "OK" => reply.alts = {} BY <2>1 DEF Reply
  <2> QED BY <2>1, <2>2
<1>3. DOMAIN order = {"sel", "rep", "reply"} BY <1>1 DEF PickInv, Sending
<1>4. DOMAIN order' = {"sel", "rep", "reply"} /\ order'.sel = order.sel /\ order'.reply = reply BY <1>2, <1>3
<1>5. Sending(order', page, Memory) BY <1>1, <1>2, <1>4 DEF PickInv, Sending
<1> QED BY <1>1, <1>5 DEF PickInv, Recorded, Memory

LEMMA RestorePicks == ASSUME PickInv, FetchInv', Restore PROVE PickInv'
<1>1. DOMAIN page = PageFields /\ AskedByKey(page) BY DEF PickInv, FetchInv, Fetching
<1>2. UNCHANGED <<at, order, tokens, hist>> /\ Here.tok # None BY DEF Restore, server
<1>3. PICK T : tokens \in Seq(T) /\ \A x \in T : /\ DOMAIN x = {"sel", "live"} /\ DOMAIN x.sel = Fields
                                                 /\ x.sel.t # None /\ Good(x.sel, Memory)
  BY DEF PickInv, Saved
<1>4. tokens[Here.tok] \in T BY <1>2, <1>3, HereGood
<1>5. PICK k \in T : k = tokens[Here.tok] BY <1>4
<1>6. PICK s : s = Restored(k.sel) OBVIOUS
<1>7. DOMAIN s = Fields /\ Good(s, Memory) BY <1>3, <1>5, <1>6, RestoredGood
<1>8. DOMAIN NoChoice = Fields /\ NoChoice.product = None /\ NoChoice.t = None BY DEF NoChoice, Fields
<1>9. Good(NoChoice, Memory) BY <1>8, GoodUntimed DEF Known
<1>10. PICK a : a = IF k.live /\ k.sel.product \in Listed(active) THEN Address(s, Here.rep, None, None) ELSE Address(NoChoice, None, None, None) OBVIOUS
<1>11. Good(a, Memory) /\ a.tok = None BY <1>7, <1>8, <1>9, <1>10, AddressGood
<1>12. entries' = [entries EXCEPT ![at] = a] /\ page' = Refetch(page, ReadSelection(a, page.shown))
  BY <1>5, <1>6, <1>10 DEF Restore
<1>13. page'.got = page.got /\ page'.busy = page.busy /\ page'.away = page.away /\ page'.placed = page.placed
  BY <1>1, <1>12, RefetchFollows
<1>14. Histories(entries', at, tokens, Memory) BY <1>11, <1>12, EntryAdded DEF PickInv
<1> QED BY <1>2, <1>13, <1>14, SamePage DEF PickInv, Recorded, Memory

LEMMA ReceivePicks == ASSUME PickInv, FetchInv', Receive PROVE PickInv'
<1>1. DOMAIN page = PageFields BY DEF PickInv, FetchInv, Fetching
<1>2. CASE Answer
  <2>1. UNCHANGED <<entries, at, order, tokens, hist>> BY <1>2 DEF Answer, server, browser
  <2>2. PICK got : /\ got.slots = SlotsOn(page.asked, page.asked.month)
                   /\ page' = [page EXCEPT !.asked = None, !.got = got]
    BY <1>2 DEF Answer
  <2>3. page'.got = got /\ page'.busy = page.busy /\ page'.away = page.away /\ page'.placed = page.placed
    BY <1>1, <2>2 DEF PageFields
  <2>4. \A x \in got.slots : Timed(x.start) BY <2>2 DEF SlotsOn, Start, Timed
  <2>5. Lists(page') BY <2>3, <2>4 DEF Lists
  <2>6. Sending(order, page', Memory) /\ Once(page', hist.confirmed) /\ LeftFor(page', tokens)
    BY <2>3 DEF PickInv, Sending, Once, LeftFor
  <2> QED BY <2>1, <2>5, <2>6 DEF PickInv, Recorded, Memory
<1>3. CASE AnswerFails
  <2>1. UNCHANGED <<entries, at, order, tokens, hist>> /\ page' = [page EXCEPT !.asked = None]
    BY <1>3 DEF AnswerFails, browser
  <2>2. page'.got = page.got /\ page'.busy = page.busy /\ page'.away = page.away /\ page'.placed = page.placed
    BY <1>1, <2>1 DEF PageFields
  <2>3. Lists(page') /\ Sending(order, page', Memory) /\ Once(page', hist.confirmed) /\ LeftFor(page', tokens)
    BY <2>2, SamePage DEF PickInv
  <2> QED BY <2>1, <2>3 DEF PickInv, Recorded, Memory
<1>4. CASE LoseOrder
  <2>1. UNCHANGED <<entries, at, tokens, hist>> /\ order' = None /\ page' = [page EXCEPT !.busy = FALSE]
    BY <1>4 DEF LoseOrder, browser
  <2>2. page'.got = page.got /\ page'.away = page.away /\ page'.placed = page.placed BY <1>1, <2>1 DEF PageFields
  <2>3. Lists(page') /\ Once(page', hist.confirmed) /\ LeftFor(page', tokens) /\ Sending(order', page', Memory)
    BY <2>1, <2>2 DEF PickInv, Lists, Once, LeftFor, Sending
  <2> QED BY <2>1, <2>3 DEF PickInv, Recorded, Memory
<1> QED BY <1>2, <1>3, <1>4, AnswerOrderPicks, ServePicks, RestorePicks DEF Receive

LEMMA ElsewherePicks == ASSUME PickInv, FetchInv', Elsewhere PROVE PickInv'
<1>1. UNCHANGED <<entries, at, page, order, hist>>
  BY DEF Elsewhere, OtherBooks, ShopCancels, OffDuty, TokenExpires, Away, browser
<1>2. CASE UNCHANGED tokens BY <1>1, <1>2 DEF PickInv, Recorded, Memory
<1>3. CASE TokenExpires
  <2>1. PICK n \in DOMAIN tokens : tokens' = [tokens EXCEPT ![n].live = FALSE] BY <1>3 DEF TokenExpires
  <2>2. PICK T : tokens \in Seq(T) /\ \A x \in T : /\ DOMAIN x = {"sel", "live"} /\ DOMAIN x.sel = Fields
                                                   /\ x.sel.t # None /\ Good(x.sel, Memory)
    BY DEF PickInv, Saved
  <2>3. PICK k : k = [tokens[n] EXCEPT !.live = FALSE] OBVIOUS
  <2>4. n \in 1..Len(tokens) /\ tokens[n] \in T BY <2>1, <2>2
  <2>5. DOMAIN k = {"sel", "live"} /\ k.sel = tokens[n].sel BY <2>2, <2>3, <2>4
  <2>6. tokens' = [tokens EXCEPT ![n] = k] BY <2>1, <2>3
  <2>7. tokens' \in Seq(T \cup {k}) /\ Len(tokens') = Len(tokens) BY <2>2, <2>4, <2>6
  <2>8. Saved(tokens', Memory) BY <2>2, <2>4, <2>5, <2>7 DEF Saved
  <2>9. Histories(entries, at, tokens', Memory) /\ LeftFor(page, tokens') BY <2>7 DEF PickInv, Histories, LeftFor
  <2> QED BY <1>1, <2>8, <2>9 DEF PickInv, Recorded, Memory
<1> QED BY <1>2, <1>3 DEF Elsewhere, OtherBooks, ShopCancels, OffDuty

(* Nobody orders what he has not picked, and one life of the page confirms   *)
(* one order, for all catalogues, histories travelled, logins, duties of the *)
(* staff and answers lost (applyTo, createSelection, BookingWidget.tsx).     *)
THEOREM OrdersArePicked == WidgetSpec => []OrderAsPicked
<1>1. WidgetInit => PickInv
  <2> SUFFICES ASSUME WidgetInit PROVE PickInv OBVIOUS
  <2>1. PICK p \in DOMAIN Catalogue : \E rep, signedIn :
          /\ entries = <<Address([NoChoice EXCEPT !.product = p], rep, None, None)>> /\ at = 1
          /\ page = Mount(Address([NoChoice EXCEPT !.product = p], rep, None, None), signedIn, DOMAIN Seats)
    BY DEF WidgetInit
  <2>2. order = None /\ tokens = <<>> /\ hist = [picked |-> {}, strayed |-> {}, answered |-> NoChoice, confirmed |-> 0] BY DEF WidgetInit
  <2>3. PICK s : s = [NoChoice EXCEPT !.product = p] OBVIOUS
  <2>4. DOMAIN s = Fields /\ s.product = p /\ s.t = None BY <2>3 DEF NoChoice, Fields
  <2>5. Good(s, Nobody) BY <2>4, GoodUntimed DEF Known
  <2>6. PICK rep, signedIn : /\ entries = <<Address(s, rep, None, None)>> /\ at = 1
                             /\ page = Mount(Address(s, rep, None, None), signedIn, DOMAIN Seats)
    BY <2>1, <2>3
  <2>7. PICK a : a = Address(s, rep, None, None) OBVIOUS
  <2>8. Good(a, Nobody) /\ a.tok = None BY <2>4, <2>5, <2>7, AddressGood
  <2>11. Histories(<<a>>, 1, tokens, Nobody) BY <2>8, OneAddress
  <2>12. page.got = None /\ page.away = FALSE BY <2>6, MountFollows
  <2>14. Saved(tokens, Nobody) BY <2>2, NothingSaved
  <2>15. Lists(page) /\ LeftFor(page, tokens) /\ Sending(order, page, Nobody) /\ Once(page, 0)
    BY <2>2, <2>12 DEF Lists, LeftFor, Sending, Once
  <2>16. Recorded /\ Memory = Nobody /\ hist.confirmed = 0 BY <2>2 DEF Recorded, Memory, Nobody
  <2> QED BY <2>6, <2>7, <2>11, <2>14, <2>15, <2>16, FetchBegins DEF PickInv
<1>2. PickInv /\ [WidgetNext]_widgetVars => PickInv'
  <2> SUFFICES ASSUME PickInv, [WidgetNext]_widgetVars PROVE PickInv' OBVIOUS
  <2>1. FetchInv' BY FetchStep DEF PickInv
  <2>2. CASE WidgetOver \/ UNCHANGED widgetVars BY <2>1, <2>2 DEF WidgetOver, widgetVars, PickInv, Recorded, Memory
  <2> QED BY <2>1, <2>2, ChoicePicks, BrowsePicks, SendPicks, ReceivePicks, ElsewherePicks DEF WidgetNext
<1>3. PickInv => OrderAsPicked
  <2> SUFFICES ASSUME PickInv PROVE OrderAsPicked OBVIOUS
  <2>1. \A n \in DOMAIN entries : Good(entries[n], Memory) BY DEF PickInv, Histories
  <2>2. hist.confirmed <= 1 BY DEF PickInv, Once
  <2>3. ASSUME NEW s \in Read PROVE Good(s, Memory) /\ Spaced(s)
    <3>1. PICK n \in DOMAIN entries : s = ReadSelection(entries[n], page.shown) BY DEF Read
    <3> QED BY <2>1, <3>1, ReadGood, ReadSpaced
  <2>4. ASSUME NEW s \in Kept PROVE Good(s, Memory) /\ Spaced(s)
    <3>1. PICK n \in DOMAIN tokens : s = ReadSelection(Restored(tokens[n].sel), page.shown) BY DEF Kept
    <3>2. PICK T : tokens \in Seq(T) /\ \A x \in T : /\ DOMAIN x = {"sel", "live"} /\ DOMAIN x.sel = Fields
                                                     /\ x.sel.t # None /\ Good(x.sel, Memory)
      BY DEF PickInv, Saved
    <3>3. tokens[n] \in T BY <3>2
    <3>4. Good(Restored(tokens[n].sel), Memory) BY <3>2, <3>3, RestoredGood
    <3> QED BY <3>1, <3>4, ReadGood, ReadSpaced
  <2>5. ASSUME NEW s \in Sent PROVE Good(s, Memory) /\ Spaced(s)
    BY <2>5 DEF Sent, PickInv, Sending
  <2> QED BY <2>2, <2>3, <2>4, <2>5, GoodIsPicked DEF OrderAsPicked
<1> QED BY <1>1, <1>2, <1>3, PTL DEF WidgetSpec

-----------------------------------------------------------------------------(* A peak and the moments it is the peak of. *)

(* A finite set of integers has the greatest element that Max chooses: the   *)
(* one above which the fewest lie.                                          *)
LEMMA GreatestOf ==
  ASSUME NEW S \in SUBSET Int, S # {}, IsFiniteSet(S)
  PROVE  Max(S) \in S /\ \A y \in S : y <= Max(S)
<1> DEFINE above(x) == {y \in S : y > x}
           T == {Cardinality(above(x)) : x \in S}
<1>1. ASSUME NEW x \in S PROVE IsFiniteSet(above(x)) /\ Cardinality(above(x)) \in Nat
  <2>1. above(x) \subseteq S OBVIOUS
  <2> HIDE DEF above
  <2> QED BY <2>1, FS_Subset, FS_CardinalityType
<1>2. T \subseteq Nat /\ T # {}
  <2> HIDE DEF above
  <2> QED BY <1>1
<1>3. IsWellFoundedOn(OpToRel(<, Nat), Nat) BY NatLessThanWellFounded
<1>4. PICK a \in T : \A b \in T : ~(<<b, a>> \in OpToRel(<, Nat))
  <2> HIDE DEF T
  <2> QED BY <1>2, <1>3, WFMin
<1>5. PICK x \in S : a = Cardinality(above(x)) OBVIOUS
<1>6. \A y \in S : x >= y
  <2> SUFFICES ASSUME NEW y \in S, y > x PROVE FALSE OBVIOUS
  <2>1. above(y) \subseteq above(x) /\ y \in above(x) /\ y \notin above(y)
    <3>1. x \in Int /\ y \in Int /\ \A z \in S : z \in Int OBVIOUS
    <3>2. ASSUME NEW z \in S, z > y PROVE z > x
      <4>1. z \in Int BY <3>1
      <4> QED BY <3>1, <3>2, <4>1
    <3>3. ~(y > y) BY <3>1
    <3> QED BY <3>2, <3>3
  <2>2. Cardinality(above(y)) \in T /\ Cardinality(above(y)) \in Nat /\ a \in Nat
    <3> HIDE DEF above
    <3> QED BY <1>1, <1>2
  <2>3. Cardinality(above(y)) < a
    <3> HIDE DEF above, T
    <3>1. Cardinality(above(y)) <= Cardinality(above(x)) /\
          (Cardinality(above(y)) = Cardinality(above(x)) => above(y) = above(x))
      BY <2>1, <1>1, FS_Subset
    <3>2. above(y) # above(x) BY <2>1
    <3> QED BY <3>1, <3>2, <1>5, <1>1
  <2>4. <<Cardinality(above(y)), a>> \in OpToRel(<, Nat)
    <3> HIDE DEF above, T
    <3> QED BY <2>2, <2>3 DEF OpToRel
  <2> QED BY <2>2, <2>4, <1>4
<1> QED BY <1>6 DEF Max

(* The least one, likewise. *)
LEMMA LeastOf ==
  ASSUME NEW S \in SUBSET Int, S # {}, IsFiniteSet(S)
  PROVE  Min(S) \in S /\ \A y \in S : Min(S) <= y
<1> DEFINE N == {0 - x : x \in S}
           f == [x \in S |-> 0 - x]
<1>1. f \in Surjection(S, N) BY DEF Surjection
<1>2. N \in SUBSET Int /\ N # {}
  <2>1. \A x \in S : 0 - x \in Int OBVIOUS
  <2>2. N # {} OBVIOUS
  <2> QED BY <2>1, <2>2
<1>3. IsFiniteSet(N)
  <2> HIDE DEF f, N
  <2> QED BY <1>1, FS_Surjection
<1>4. Max(N) \in N /\ \A y \in N : y <= Max(N)
  <2> HIDE DEF N
  <2> QED BY <1>2, <1>3, GreatestOf
<1>5. PICK x \in S : Max(N) = 0 - x BY <1>4
<1>6. \A y \in S : x <= y
  <2> SUFFICES ASSUME NEW y \in S PROVE x <= y OBVIOUS
  <2>1. 0 - y \in N OBVIOUS
  <2>2. 0 - y <= 0 - x
    <3> HIDE DEF N
    <3> QED BY <2>1, <1>4, <1>5
  <2> QED BY <2>2
<1> QED BY <1>6 DEF Min

(* No moment has more people than the peak of a range all rows lie in: the   *)
(* last of those present to come finds the others still there.              *)
LEMMA PeakBounds ==
  ASSUME NEW range, NEW t, NEW ids, IsFiniteSet(ids), Typed(t, ids), range.lo \in Int,
         \A i \in ids : Overlaps(t[i], range) /\ range.lo <= t[i].lo,
         NEW v \in Int
  PROVE  Cardinality(Heads(t, PresentAt(t, ids, v))) <= PeakOccupancy(range, t, ids)
<1> DEFINE P == PresentAt(t, ids, v)
           S == {t[i].lo : i \in P}
           f == [i \in P |-> t[i].lo]
           peak == PeakOccupancy(range, t, ids)
<1>1. P \subseteq ids /\ \A i \in P : t[i].lo <= v /\ v < t[i].hi BY DEF PresentAt
<1>2. IsFiniteSet(P)
  <2> HIDE DEF P
  <2> QED BY <1>1, FS_Subset
<1>3. \A i \in ids : t[i].party \in Nat /\ t[i].lo \in Int /\ t[i].hi \in Int BY DEF Typed
<1>4. CASE P = {}
  <2>1. peak \in Nat BY PeakIsMost
  <2>2. Heads(t, P) = {} BY <1>4 DEF Heads
  <2>3. Cardinality(Heads(t, P)) = 0 BY <2>2, FS_EmptySet
  <2> HIDE DEF peak, P
  <2>4. 0 <= peak BY <2>1
  <2> QED BY <2>3, <2>4 DEF peak, P
<1>5. CASE P # {}
  <2>1. f \in Surjection(P, S) BY DEF Surjection
  <2>2. IsFiniteSet(S)
    <3> HIDE DEF f, S, P
    <3> QED BY <1>2, <2>1, FS_Surjection
  <2>3. S \in SUBSET Int /\ S # {} BY <1>1, <1>3, <1>5
  <2>4. Max(S) \in S /\ \A y \in S : y <= Max(S)
    <3> HIDE DEF S
    <3> QED BY <2>2, <2>3, GreatestOf
  <2>5. PICK m \in P : Max(S) = t[m].lo BY <2>4
  <2> DEFINE q == t[m].lo
             there == {i \in ids : Overlaps(t[i], range) /\ t[i].lo <= q /\ q < t[i].hi}
  <2>6. m \in ids /\ q \in Int /\ q <= v BY <1>1, <1>3
  <2>7. P \subseteq there
    <3> SUFFICES ASSUME NEW i \in P PROVE i \in there OBVIOUS
    <3>1. t[i].lo \in S OBVIOUS
    <3>2. t[i].lo <= q
      <4> HIDE DEF S, P
      <4> QED BY <3>1, <2>4, <2>5
    <3>3. q < t[i].hi BY <1>1, <1>3, <2>6
    <3> QED BY <3>2, <3>3, <1>1
  <2>8. /\ Cardinality(Heads(t, there)) <= peak
        /\ peak \in Nat
    BY <2>6, PeakIsMost
  <2>9. there \subseteq ids OBVIOUS
  <2> HIDE DEF there, P, peak
  <2>10. IsFiniteSet(there) BY <2>9, FS_Subset
  <2>11. Cardinality(Heads(t, P)) <= Cardinality(Heads(t, there)) BY <2>7, <2>9, <2>10, <1>3, HeadsSubset
  <2>12. Cardinality(Heads(t, P)) \in Nat /\ Cardinality(Heads(t, there)) \in Nat
    BY <1>1, <1>2, <1>3, <2>9, <2>10, HeadsFinite
  <2> QED BY <2>8, <2>11, <2>12 DEF P, peak
<1> QED BY <1>4, <1>5

(* Counted by the team, one head for each row. *)
LEMMA TeamHeads ==
  ASSUME NEW t, NEW ids, IsFiniteSet(ids), \A i \in ids : t[i].party = 1
  PROVE  Cardinality(Heads(t, ids)) = Cardinality(ids)
<1>1. 1..1 = {1} OBVIOUS
<1>2. Heads(t, ids) = ids \X {1} BY <1>1 DEF Heads
<1>3. IsFiniteSet({1}) /\ Cardinality({1}) = 1 BY FS_Singleton
<1>4. Cardinality(ids \X {1}) = Cardinality(ids) * Cardinality({1}) BY <1>3, FS_Product
<1>5. Cardinality(ids) \in Nat BY FS_CardinalityType
<1> QED BY <1>2, <1>3, <1>4, <1>5

-----------------------------------------------------------------------------
(* What the shop keeps. *)

GoodProduct(f) ==
  /\ {"status", "perSlot"} \subseteq DOMAIN f /\ f.status # "NONE"
  /\ {f.perSlot, f.duration} \subseteq Nat \ {0} /\ {f.before, f.after} \subseteq Nat

GoodRow(b) ==
  /\ {"status", "product", "rsrc", "start", "lo", "hi", "party"} \subseteq DOMAIN b
  /\ {b.start, b.lo, b.hi} \subseteq Int /\ b.lo < b.hi /\ b.party \in Nat \ {0}

(* What a call carries from its reads to its writes. *)
GoodCall(call) ==
  /\ call.k \in {"PRODUCT", "CREATE"} => GoodProduct(call.next)
  /\ call.k \in {"PRODUCT", "CREATE", "REMOVE", "LIMITED"} => call.product \in Products
  /\ call.k = "HOURS" => "k" \in DOMAIN call
  /\ call.k = "PRODUCT" => {"k", "product", "next"} \subseteq DOMAIN call
  /\ call.k = "LIMITED" => call.status # "NONE"
  /\ call.k = "PLACE" => GoodProduct(call.as) /\ call.q.at \in Int /\ call.q.party \in Nat \ {0}

(* The row of a product is locked by one call, and it is there; a product is *)
(* created where there is none, once.                                       *)
Holding(call) == call.k \in {"PRODUCT", "REMOVE"}

Apart(a, b) ==
  /\ Holding(a) /\ Holding(b) => a.product # b.product
  /\ a.k = "CREATE" /\ b.k = "CREATE" => a.product # b.product

Standing(call) ==
  /\ Holding(call) => product[call.product].status # "NONE"
  /\ call.k = "CREATE" => product[call.product].status = "NONE"

(* The lower capacity of an update holds what is booked, until it is written. *)
Holds(call) ==
  \A p \in Products, n \in Nat :
    /\ call.k = "PRODUCT" /\ call.product = p /\ call.next.perSlot = n
    /\ n < product[p].perSlot
    => \A r \in DOMAIN Resources, v \in Int : HoldsAt(p, n, r, v)

TableGood == IsFiniteSet(DOMAIN table) /\ \A i \in DOMAIN table : GoodRow(table[i])
ShelfGood == DOMAIN product = Products /\ \A p \in Products : Exists(p) => GoodProduct(product[p])

ShopInv ==
  /\ now \in Int /\ TableGood /\ ShelfGood
  /\ DOMAIN calls = Callers
  /\ \A c \in Callers : GoodCall(calls[c]) /\ Standing(calls[c]) /\ Holds(calls[c])
  /\ \A c \in Callers : \A d \in Callers \ {c} : Apart(calls[c], calls[d])

(* Two calls that differ at most in whether they were alone. *)
SameCall(a, b) ==
  /\ a.k = b.k
  /\ a.k = "PRODUCT" => /\ a.product = b.product /\ a.next = b.next
                        /\ {"k", "product", "next"} \subseteq DOMAIN a
  /\ a.k = "HOURS" => "k" \in DOMAIN a
  /\ a.k \notin {"HOURS", "PRODUCT"} => a = b

LEMMA SeenSame ==
  ASSUME ShopInv, NEW c \in Callers, NEW call, calls' = SeenBy(c, call)
  PROVE  /\ DOMAIN calls' = Callers /\ calls'[c] = call
         /\ \A d \in Callers \ {c} : SameCall(calls'[d], calls[d])
<1>1. DOMAIN calls' = Callers /\ calls'[c] = call BY DEF SeenBy
<1>2. ASSUME NEW d \in Callers \ {c} PROVE SameCall(calls'[d], calls[d])
  <2>1. calls'[d] = IF ChangesHours(calls[d]) THEN [calls[d] EXCEPT !.alone = FALSE] ELSE calls[d]
    BY DEF SeenBy
  <2>2. GoodCall(calls[d]) BY DEF ShopInv
  <2> QED BY <2>1, <2>2 DEF ChangesHours, SameCall, GoodCall
<1> QED BY <1>1, <1>2

LEMMA BeginSame ==
  ASSUME ShopInv, NEW c \in Callers, NEW call, calls' = [calls EXCEPT ![c] = call]
  PROVE  /\ DOMAIN calls' = Callers /\ calls'[c] = call
         /\ \A d \in Callers \ {c} : SameCall(calls'[d], calls[d])
<1>1. DOMAIN calls' = Callers /\ calls'[c] = call BY DEF ShopInv
<1>2. ASSUME NEW d \in Callers \ {c} PROVE calls'[d] = calls[d] BY DEF ShopInv
<1>3. \A d \in Callers : GoodCall(calls[d]) BY DEF ShopInv
<1> QED BY <1>1, <1>2, <1>3 DEF SameCall, GoodCall

(* A call that has not changed beside its being alone is as it was. *)
LEMMA SameGood ==
  ASSUME NEW a, NEW b, SameCall(b, a), GoodCall(a)
  PROVE  /\ GoodCall(b) /\ (Holding(b) <=> Holding(a)) /\ b.k = a.k
         /\ b.k \in {"PRODUCT", "REMOVE", "CREATE"} => b.product = a.product
         /\ b.k = "PRODUCT" => b.next = a.next
BY DEF SameCall, GoodCall, Holding

LEMMA SameApart ==
  ASSUME NEW a, NEW b, SameCall(b, a), GoodCall(a), NEW call, Apart(call, a)
  PROVE  Apart(call, b) /\ Apart(b, call)
<1>1. (Holding(b) <=> Holding(a)) /\ b.k = a.k BY SameGood
<1>2. b.k \in {"PRODUCT", "REMOVE", "CREATE"} => b.product = a.product BY SameGood
<1> QED BY <1>1, <1>2 DEF Apart, Holding

-----------------------------------------------------------------------------
(* Steps of calls that leave products and bookings alone. *)

LEMMA CallStep ==
  ASSUME ShopInv, UNCHANGED <<now, product, table>>, NEW c \in Callers,
         DOMAIN calls' = Callers,
         \A d \in Callers \ {c} : SameCall(calls'[d], calls[d]),
         NEW call, calls'[c] = call,
         GoodCall(call), Standing(call), Holds(call),
         \A d \in Callers \ {c} : Apart(call, calls[d])
  PROVE  ShopInv'
<1>1. now' \in Int /\ TableGood' /\ ShelfGood' BY DEF ShopInv, TableGood, ShelfGood, Exists
<1>2. \A d \in Callers \ {c} : GoodCall(calls[d]) /\ Standing(calls[d]) /\ Holds(calls[d])
  BY DEF ShopInv
<1>3. ASSUME NEW x, Standing(x), Holds(x) PROVE Standing(x)' /\ Holds(x)'
  BY <1>3 DEF Standing, Holds, Exists, HoldsAt, ThereAt, FutureOf, LiveOf, Live
<1>4. ASSUME NEW d \in Callers
      PROVE  (GoodCall(calls[d]) /\ Standing(calls[d]) /\ Holds(calls[d]))'
  <2>1. PICK b : b = calls'[d] OBVIOUS
  <2>2. GoodCall(b) /\ Standing(b) /\ Holds(b)
    <3>1. CASE d = c BY <2>1, <3>1
    <3>2. CASE d # c
      <4>1. PICK a : a = calls[d] OBVIOUS
      <4>2. SameCall(b, a) /\ GoodCall(a) /\ Standing(a) /\ Holds(a) BY <2>1, <3>2, <4>1, <1>2
      <4> QED BY <4>2, SameGood DEF Standing, Holds, Holding
    <3> QED BY <3>1, <3>2
  <2>3. GoodCall(calls[d])' BY <2>1, <2>2 DEF GoodCall, GoodProduct
  <2>4. Standing(b)' /\ Holds(b)' BY <2>2, <1>3
  <2>5. Standing(calls[d])' BY <2>1, <2>4 DEF Standing, Holding
  <2>6. Holds(calls[d])' BY <2>1, <2>4 DEF Holds
  <2> QED BY <2>3, <2>5, <2>6
<1>5. ASSUME NEW d \in Callers, NEW e \in Callers \ {d} PROVE Apart(calls'[d], calls'[e])
  <2>1. CASE d = c
    <3>1. PICK a, b : a = calls[e] /\ b = calls'[e] OBVIOUS
    <3>2. SameCall(b, a) /\ GoodCall(a) /\ Apart(call, a) BY <2>1, <3>1, <1>2
    <3>3. Apart(call, b) BY <3>2, SameGood, SameApart
    <3> QED BY <2>1, <3>1, <3>3
  <2>2. CASE e = c
    <3>1. PICK a, b : a = calls[d] /\ b = calls'[d] OBVIOUS
    <3>2. SameCall(b, a) /\ GoodCall(a) /\ Apart(call, a) BY <2>2, <3>1, <1>2
    <3>3. Apart(b, call) BY <3>2, SameGood, SameApart
    <3> QED BY <2>2, <3>1, <3>3
  <2>3. CASE d # c /\ e # c
    <3>1. PICK a, b : a = calls[d] /\ b = calls'[d] OBVIOUS
    <3>2. PICK x, y : x = calls[e] /\ y = calls'[e] OBVIOUS
    <3>3. Apart(a, x) BY <3>1, <3>2 DEF ShopInv
    <3>4. SameCall(b, a) /\ GoodCall(a) /\ SameCall(y, x) /\ GoodCall(x) BY <2>3, <3>1, <3>2, <1>2
    <3>5. Apart(a, y) /\ Apart(y, a) BY <3>3, <3>4, SameApart
    <3>6. Apart(b, y) BY <3>4, <3>5, SameApart
    <3> QED BY <3>1, <3>2, <3>6
  <2> QED BY <2>1, <2>2, <2>3
<1>6. \A d \in Callers : \A e \in Callers \ {d} : Apart(calls[d], calls[e])' BY <1>5 DEF Apart, Holding
<1> QED BY <1>1, <1>4, <1>6 DEF ShopInv

-----------------------------------------------------------------------------
(* What updateProduct finds of the bookings. *)

LEMMA FutureGood ==
  ASSUME ShopInv, NEW p
  PROVE  /\ FutureOf(p) \subseteq DOMAIN table /\ IsFiniteSet(FutureOf(p))
         /\ \A i \in FutureOf(p) : GoodRow(table[i])
<1>1. FutureOf(p) \subseteq DOMAIN table BY DEF FutureOf, LiveOf, Live
<1>2. IsFiniteSet(DOMAIN table) /\ \A i \in DOMAIN table : GoodRow(table[i]) BY DEF ShopInv, TableGood
<1> QED BY <1>1, <1>2, FS_Subset

(* Where nobody is booked any capacity holds. *)
LEMMA NobodyHolds ==
  ASSUME NEW p, NEW n \in Nat \ {0}, NEW r, NEW v, ThereAt(p, r, v) = {}
  PROVE  HoldsAt(p, n, r, v)
<1>1. Heads(table, {}) = {} BY DEF Heads
<1>2. Cardinality({}) = 0 BY FS_EmptySet
<1> QED BY <1>1, <1>2 DEF HoldsAt

LEMMA LoweredHolds ==
  ASSUME ShopInv, NEW p \in Products, NEW form, GoodProduct(form), GoodProduct(product[p]),
         ShapeAllowed(p, form), form.perSlot < product[p].perSlot,
         NEW r \in DOMAIN Resources, NEW v \in Int
  PROVE  HoldsAt(p, form.perSlot, r, v)
<1> DEFINE n == form.perSlot
           future == FutureOf(p)
           there == ThereAt(p, r, v)
<1>1. n \in Nat \ {0} /\ product[p].perSlot \in Nat /\ n # product[p].perSlot BY DEF GoodProduct
<1>2. Shape(form) # Shape(product[p])
  <2>1. Shape(form).perSlot = form.perSlot BY DEF Shape, GoodProduct
  <2>2. Shape(product[p]).perSlot = product[p].perSlot BY DEF Shape, GoodProduct
  <2> QED BY <2>1, <2>2, <1>1
<1>3. CASE future = {}
  <2>1. there = {} BY <1>3 DEF ThereAt
  <2> QED BY <2>1, <1>1, NobodyHolds
<1>4. CASE PeakFuture(p, n = 1) <= n
  <2> DEFINE t == [i \in future |-> IF n = 1 THEN [table[i] EXCEPT !.party = 1] ELSE table[i]]
             on(x) == {i \in future : table[i].rsrc = x}
             span(x) == [lo |-> Min({t[i].lo : i \in on(x)}), hi |-> Max({t[i].hi : i \in on(x)})]
             taken == {x \in DOMAIN Resources : on(x) # {}}
             peaks == {PeakOccupancy(span(x), t, on(x)) : x \in taken}
             peak == Max({0} \cup peaks)
  <2>1. peak <= n BY <1>4 DEF PeakFuture
  <2>2. IsFiniteSet(future) /\ \A i \in future : GoodRow(table[i]) BY FutureGood
  <2>3. ASSUME NEW i \in future
        PROVE  /\ t[i].lo = table[i].lo /\ t[i].hi = table[i].hi
               /\ t[i].party = IF n = 1 THEN 1 ELSE table[i].party
               /\ t[i].lo \in Int /\ t[i].hi \in Int /\ t[i].lo < t[i].hi /\ t[i].party \in Nat \ {0}
    BY <2>2 DEF GoodRow
  <2> HIDE DEF t, future
  <2>4. ASSUME NEW x
        PROVE  IsFiniteSet(on(x)) /\ Typed(t, on(x)) /\ on(x) \subseteq future
    <3>1. on(x) \subseteq future OBVIOUS
    <3>2. IsFiniteSet(on(x))
      <4> HIDE DEF on
      <4> QED BY <3>1, <2>2, FS_Subset
    <3> QED BY <3>1, <3>2, <2>3 DEF Typed
  <2> HIDE DEF on
  <2>5. ASSUME NEW x, on(x) # {}
        PROVE  /\ span(x).lo \in Int
               /\ \A i \in on(x) : Overlaps(t[i], span(x)) /\ span(x).lo <= t[i].lo
    <3> DEFINE L == {t[i].lo : i \in on(x)}
               H == {t[i].hi : i \in on(x)}
               f == [i \in on(x) |-> t[i].lo]
               g == [i \in on(x) |-> t[i].hi]
    <3>1. f \in Surjection(on(x), L) /\ g \in Surjection(on(x), H) BY DEF Surjection
    <3>2. L \in SUBSET Int /\ L # {} /\ H \in SUBSET Int /\ H # {} BY <2>3, <2>4, <2>5
    <3>3. IsFiniteSet(L) /\ IsFiniteSet(H)
      <4> HIDE DEF f, g, L, H
      <4> QED BY <3>1, <2>4, FS_Surjection
    <3>4. /\ Min(L) \in L /\ \A y \in L : Min(L) <= y
          /\ Max(H) \in H /\ \A y \in H : y <= Max(H)
      <4> HIDE DEF L, H
      <4> QED BY <3>2, <3>3, LeastOf, GreatestOf
    <3>5. span(x).lo = Min(L) /\ span(x).hi = Max(H) OBVIOUS
    <3>6. ASSUME NEW i \in on(x) PROVE t[i].lo \in L /\ t[i].hi \in H OBVIOUS
    <3> HIDE DEF L, H, span
    <3>7. Min(L) \in Int /\ Max(H) \in Int BY <3>2, <3>4
    <3>8. ASSUME NEW i \in on(x) PROVE Overlaps(t[i], span(x)) /\ span(x).lo <= t[i].lo
      <4>1. i \in future BY <2>4
      <4>2. t[i].lo \in Int /\ t[i].hi \in Int /\ t[i].lo < t[i].hi BY <4>1, <2>3
      <4>3. Min(L) <= t[i].lo /\ t[i].hi <= Max(H) BY <3>4, <3>6
      <4> QED BY <3>5, <3>7, <4>2, <4>3 DEF Overlaps
    <3> QED BY <3>5, <3>7, <3>8
  <2> HIDE DEF span
  <2>6. \A x \in taken : PeakOccupancy(span(x), t, on(x)) \in Nat BY <2>4, <2>5, PeakIsMost
  <2>7. IsFiniteSet(peaks)
    <3> DEFINE f == [x \in taken |-> PeakOccupancy(span(x), t, on(x))]
    <3>1. f \in Surjection(taken, peaks) BY DEF Surjection
    <3>2. taken \subseteq DOMAIN Resources /\ IsFiniteSet(DOMAIN Resources) BY ShopAssumption
    <3> HIDE DEF f, taken, peaks
    <3> QED BY <3>1, <3>2, FS_Subset, FS_Surjection
  <2>8. {0} \cup peaks \in SUBSET Int /\ {0} \cup peaks # {} /\ IsFiniteSet({0} \cup peaks)
    <3>1. peaks \subseteq Int BY <2>6
    <3> HIDE DEF peaks
    <3>2. IsFiniteSet({0}) BY FS_Singleton
    <3>3. IsFiniteSet({0} \cup peaks) BY <3>2, <2>7, FS_Union
    <3> QED BY <3>1, <3>3
  <2>9. peak \in Int /\ \A y \in peaks : y <= peak
    <3> HIDE DEF peaks
    <3> QED BY <2>8, GreatestOf
  <2>10. there \subseteq on(r) /\ there = PresentAt(t, on(r), v)
    BY <2>3 DEF ThereAt, PresentAt, on, future
  <2>11. CASE on(r) = {} BY <2>10, <2>11, <1>1, NobodyHolds
  <2>12. CASE on(r) # {}
    <3>1. r \in taken BY <2>12
    <3>2. PeakOccupancy(span(r), t, on(r)) <= peak
      <4> HIDE DEF peak
      <4> QED BY <3>1, <2>9
    <3>3. Cardinality(Heads(t, there)) <= PeakOccupancy(span(r), t, on(r))
      BY <2>4, <2>5, <2>10, <2>12, PeakBounds
    <3>4. IsFiniteSet(there) /\ there \subseteq future
      <4> HIDE DEF there
      <4> QED BY <2>4, <2>10, FS_Subset
    <3>5. Cardinality(Heads(t, there)) \in Nat
      <4> HIDE DEF there
      <4> QED BY <3>4, <2>3, HeadsFinite
    <3>6. PeakOccupancy(span(r), t, on(r)) \in Nat BY <3>1, <2>6
    <3>7. Cardinality(Heads(t, there)) <= n
      <4> HIDE DEF peak, there
      <4> QED BY <3>2, <3>3, <3>5, <3>6, <2>1, <2>9, <1>1
    <3>8. CASE n = 1
      <4>1. Cardinality(Heads(t, there)) = Cardinality(there)
        <5> HIDE DEF there
        <5> QED BY <3>4, <3>8, <2>3, TeamHeads
      <4> QED BY <4>1, <3>7, <3>8 DEF HoldsAt
    <3>9. CASE n # 1
      <4>1. Heads(t, there) = Heads(table, there)
        <5> HIDE DEF there
        <5> QED BY <3>4, <3>9, <2>3 DEF Heads
      <4> QED BY <4>1, <3>7, <3>9 DEF HoldsAt
    <3> QED BY <3>8, <3>9
  <2> QED BY <2>11, <2>12
<1> QED BY <1>2, <1>3, <1>4 DEF ShapeAllowed

-----------------------------------------------------------------------------
(* The steps that read. *)

(* A call that waits for nothing asks nothing of the others. *)
LEMMA QuietCall ==
  ASSUME NEW call, call.k \notin {"PRODUCT", "CREATE", "REMOVE"}
  PROVE  Standing(call) /\ Holds(call) /\ \A other : Apart(call, other)
BY DEF Standing, Holds, Apart, Holding

LEMMA QuietStep ==
  ASSUME ShopInv, UNCHANGED <<now, product, table>>, NEW c \in Callers, NEW call, GoodCall(call),
         call.k \notin {"PRODUCT", "CREATE", "REMOVE"},
         calls' = [calls EXCEPT ![c] = call] \/ calls' = SeenBy(c, call)
  PROVE  ShopInv'
BY QuietCall, SeenSame, BeginSame, CallStep

LEMMA FormGood == ASSUME NEW f \in ProductForms \cup {InitProduct} PROVE GoodProduct(f)
BY ShopAssumption DEF GoodProduct

LEMMA ProductCheckKeeps ==
  ASSUME ShopInv, NEW c \in Callers, NEW p \in Products, NEW form \in ProductForms,
         ProductCheck(c, p, form)
  PROVE  ShopInv'
<1> DEFINE call == [k |-> "PRODUCT", product |-> p, next |-> form, alone |-> Alone(c)]
<1>1. calls' = SeenBy(c, call) /\ UNCHANGED <<now, product, table>> BY DEF ProductCheck
<1>2. GoodProduct(form) BY FormGood
<1>3. GoodCall(call) BY <1>2 DEF GoodCall
<1>4. Standing(call) BY DEF ProductCheck, Exists, Standing
<1>5. Holds(call)
  <2>1. GoodProduct(product[p]) /\ ShapeAllowed(p, form) BY DEF ShopInv, ShelfGood, ProductCheck
  <2>2. form.perSlot < product[p].perSlot =>
          \A r \in DOMAIN Resources, v \in Int : HoldsAt(p, form.perSlot, r, v)
    BY <2>1, <1>2, LoweredHolds
  <2> QED BY <2>2 DEF Holds
<1>6. ASSUME NEW d \in Callers \ {c} PROVE Apart(call, calls[d])
  <2>1. {p} \cap LockedBy(d) = {} BY DEF ProductCheck, Free
  <2> QED BY <2>1 DEF Apart, Holding, LockedBy
<1> HIDE DEF call
<1> QED BY <1>1, <1>3, <1>4, <1>5, <1>6, SeenSame, CallStep

LEMMA CreateCheckKeeps ==
  ASSUME ShopInv, NEW c \in Callers, NEW p \in Products, NEW form \in ProductForms,
         CreateCheck(c, p, form)
  PROVE  ShopInv'
<1> DEFINE call == [k |-> "CREATE", product |-> p, next |-> form]
<1>1. calls' = [calls EXCEPT ![c] = call] /\ UNCHANGED <<now, product, table>> BY DEF CreateCheck, Begin
<1>2. GoodCall(call) BY FormGood DEF GoodCall
<1>3. Standing(call) /\ Holds(call) BY DEF CreateCheck, Exists, Standing, Holding, Holds
<1>4. \A d \in Callers \ {c} : Apart(call, calls[d]) BY DEF CreateCheck, Apart, Holding
<1> HIDE DEF call
<1> QED BY <1>1, <1>2, <1>3, <1>4, BeginSame, CallStep

LEMMA RemoveCheckKeeps ==
  ASSUME ShopInv, NEW c \in Callers, NEW p \in Products, RemoveCheck(c, p)
  PROVE  ShopInv'
<1> PICK call : /\ call = [k |-> "REMOVE", product |-> p,
                           booked |-> \E i \in DOMAIN table : table[i].product = p]
                /\ calls' = [calls EXCEPT ![c] = call]
  BY DEF RemoveCheck, Begin
<1>1. call.k = "REMOVE" /\ call.product = p OBVIOUS
<1>2. UNCHANGED <<now, product, table>> BY DEF RemoveCheck, Begin
<1>3. GoodCall(call) BY <1>1 DEF GoodCall
<1>4. Standing(call) /\ Holds(call) BY <1>1 DEF RemoveCheck, Exists, Standing, Holding, Holds
<1>5. ASSUME NEW d \in Callers \ {c} PROVE Apart(call, calls[d])
  <2>1. {p} \cap LockedBy(d) = {} BY DEF RemoveCheck, Free
  <2> QED BY <2>1, <1>1 DEF Apart, Holding, LockedBy
<1> QED BY <1>2, <1>3, <1>4, <1>5, BeginSame, CallStep

(* Every check keeps the invariant. *)
LEMMA ChecksKeep == ASSUME ShopInv, NEW c \in Callers, Check(c) PROVE ShopInv'
<1>1. ASSUME NEW next, HoursCheck(c, next) PROVE ShopInv'
  <2> PICK call : call = [k |-> "HOURS", next |-> next, alone |-> Alone(c)] /\ calls' = SeenBy(c, call)
    BY <1>1 DEF HoursCheck
  <2>1. call.k = "HOURS" /\ GoodCall(call) BY DEF GoodCall
  <2>2. UNCHANGED <<now, product, table>> BY <1>1 DEF HoursCheck
  <2> QED BY <2>1, <2>2, QuietStep
<1>2. ASSUME NEW p \in Products, NEW s \in {"ACTIVE", "HIDDEN"}, LimitedCheck(c, p, s) PROVE ShopInv'
  <2> PICK call : /\ call = [k |-> "LIMITED", product |-> p, status |-> s]
                  /\ calls' = [calls EXCEPT ![c] = call]
    BY <1>2 DEF LimitedCheck, Begin
  <2>1. call.k = "LIMITED" /\ GoodCall(call) BY DEF GoodCall
  <2>2. UNCHANGED <<now, product, table>> BY <1>2 DEF LimitedCheck, Begin
  <2> QED BY <2>1, <2>2, QuietStep
<1>3. ASSUME NEW rs, NEW days, NEW d, PatternCheck(c, rs, days, d) PROVE ShopInv'
  <2> PICK call : /\ call = [k |-> "PATTERN", rsrcs |-> rs, days |-> days, from |-> d]
                  /\ calls' = [calls EXCEPT ![c] = call]
    BY <1>3 DEF PatternCheck, Begin
  <2>1. call.k = "PATTERN" /\ GoodCall(call) BY DEF GoodCall
  <2>2. UNCHANGED <<now, product, table>> BY <1>3 DEF PatternCheck, Begin
  <2> QED BY <2>1, <2>2, QuietStep
<1>4. ASSUME NEW h, NEW keep, HolidayCheck(c, h, keep) PROVE ShopInv'
  <2> PICK call : call = [k |-> "HOLIDAY", h |-> h] /\ calls' = [calls EXCEPT ![c] = call]
    BY <1>4 DEF HolidayCheck, Begin
  <2>1. call.k = "HOLIDAY" /\ GoodCall(call) BY DEF GoodCall
  <2>2. UNCHANGED <<now, product, table>> BY <1>4 DEF HolidayCheck, Begin
  <2> QED BY <2>1, <2>2, QuietStep
<1>5. ASSUME NEW p \in Products, NEW time \in Starts, NEW party \in Parties,
             PlaceVerify(c, p, time, party)
      PROVE  ShopInv'
  <2> PICK day, rs :
        /\ calls' = [calls EXCEPT ![c] =
                      [k |-> "PLACE", q |-> [product |-> p, at |-> time, party |-> party],
                       day |-> day, rsrcs |-> rs, as |-> product[p], under |-> hours]]
        /\ UNCHANGED <<now, product, table>>
    BY <1>5 DEF PlaceVerify, Begin
  <2> PICK call : /\ call = [k |-> "PLACE", q |-> [product |-> p, at |-> time, party |-> party],
                             day |-> day, rsrcs |-> rs, as |-> product[p], under |-> hours]
                  /\ calls' = [calls EXCEPT ![c] = call]
    OBVIOUS
  <2>1. GoodProduct(product[p]) BY <1>5 DEF PlaceVerify, ShopInv, ShelfGood, Exists
  <2>2. time \in Int /\ party \in Nat \ {0} BY ShopAssumption
  <2>3. call.k = "PLACE" /\ GoodCall(call) BY <2>1, <2>2 DEF GoodCall
  <2> QED BY <2>3, QuietStep
<1> QED BY <1>1, <1>2, <1>3, <1>4, <1>5, ProductCheckKeeps, CreateCheckKeeps, RemoveCheckKeeps DEF Check

-----------------------------------------------------------------------------
(* The steps that write products. *)

(* Product p is replaced by f: whoever has its row locked is the writer, or  *)
(* only the status changes of a product that stays.                         *)
LEMMA ProductStep ==
  ASSUME ShopInv, UNCHANGED <<now, table>>, NEW p \in Products, NEW f,
         product' = [product EXCEPT ![p] = f],
         f.status # "NONE" => GoodProduct(f),
         DOMAIN calls' = Callers, \A d \in Callers : calls'[d] \in {Idle, calls[d]},
         \/ \A d \in Callers : calls'[d] # Idle /\ calls[d].k \in {"PRODUCT", "REMOVE", "CREATE"} =>
               calls[d].product # p
         \/ product[p].status # "NONE" /\ f.status # "NONE" /\ f.perSlot = product[p].perSlot
  PROVE  ShopInv'
<1>1. now' \in Int /\ TableGood' BY DEF ShopInv, TableGood
<1>2. DOMAIN product = Products /\ \A x \in Products : Exists(x) => GoodProduct(product[x])
  BY DEF ShopInv, ShelfGood
<1>3. /\ DOMAIN product' = Products /\ product'[p] = f
      /\ \A x \in Products : x # p => product'[x] = product[x]
  BY <1>2
<1>4. ShelfGood'
  <2>1. \A x \in Products : product'[x].status # "NONE" => GoodProduct(product'[x])
    BY <1>2, <1>3 DEF Exists
  <2> QED BY <2>1, <1>3 DEF ShelfGood, Exists, GoodProduct
<1>6. ASSUME NEW x, NEW n, NEW r, NEW v, HoldsAt(x, n, r, v) PROVE HoldsAt(x, n, r, v)'
  BY <1>6 DEF HoldsAt, ThereAt, FutureOf, LiveOf, Live
<1>7. ASSUME NEW d \in Callers PROVE (GoodCall(calls[d]) /\ Standing(calls[d]) /\ Holds(calls[d]))'
  <2>1. CASE calls'[d] = Idle
    BY <2>1 DEF Idle, GoodCall, Standing, Holds, Holding
  <2>2. CASE calls'[d] # Idle
    <3>1. PICK a : a = calls[d] /\ a = calls'[d] BY <2>2
    <3>2. GoodCall(a) /\ Standing(a) /\ Holds(a) BY <3>1 DEF ShopInv
    <3>3. GoodCall(calls[d])' BY <3>1, <3>2 DEF GoodCall, GoodProduct
    <3>4. a.k \in {"PRODUCT", "REMOVE", "CREATE"} =>
            /\ a.product \in Products
            /\ \/ product'[a.product] = product[a.product]
               \/ /\ product[a.product].status # "NONE" /\ product'[a.product].status # "NONE"
                  /\ product'[a.product].perSlot = product[a.product].perSlot
      <4>1. a.k \in {"PRODUCT", "REMOVE", "CREATE"} => a.product \in Products BY <3>2 DEF GoodCall
      <4> QED BY <4>1, <2>2, <3>1, <1>3
    <3>5. Standing(calls[d])' BY <3>1, <3>2, <3>4 DEF Standing, Holding
    <3>6. Holds(calls[d])' BY <3>1, <3>2, <3>4, <1>6 DEF Holds
    <3> QED BY <3>3, <3>5, <3>6
  <2> QED BY <2>1, <2>2
<1>8. \A d \in Callers : \A e \in Callers \ {d} : Apart(calls[d], calls[e])'
  BY DEF ShopInv, Apart, Holding, Idle
<1> QED BY <1>1, <1>4, <1>7, <1>8 DEF ShopInv

(* Nobody else has locked a product that a call holds, or creates it. *)
LEMMA HolderAlone ==
  ASSUME ShopInv, NEW c \in Callers, calls[c].k \in {"PRODUCT", "REMOVE", "CREATE"},
         NEW d \in Callers \ {c}, calls[d].k \in {"PRODUCT", "REMOVE", "CREATE"}
  PROVE  calls[d].product # calls[c].product
<1>1. Apart(calls[c], calls[d]) /\ Standing(calls[c]) /\ Standing(calls[d]) BY DEF ShopInv
<1> QED BY <1>1 DEF Apart, Standing, Holding

LEMMA EndedCalls ==
  ASSUME ShopInv, NEW c \in Callers, calls' = [calls EXCEPT ![c] = Idle]
  PROVE  /\ DOMAIN calls' = Callers /\ calls'[c] = Idle
         /\ \A d \in Callers : calls'[d] \in {Idle, calls[d]}
BY DEF ShopInv

LEMMA WriteOwn ==
  ASSUME ShopInv, NEW c \in Callers, NEW call, call = calls[c],
         call.k \in {"PRODUCT", "REMOVE", "CREATE"},
         NEW f, f.status # "NONE" => GoodProduct(f),
         product' = [product EXCEPT ![call.product] = f], End(c), UNCHANGED table
  PROVE  ShopInv'
<1>1. PICK p : p = call.product OBVIOUS
<1>2. p \in Products BY <1>1 DEF ShopInv, GoodCall
<1>3. calls' = [calls EXCEPT ![c] = Idle] /\ UNCHANGED <<now, table>> BY DEF End
<1>4. \A d \in Callers :
        calls'[d] # Idle /\ calls[d].k \in {"PRODUCT", "REMOVE", "CREATE"} => calls[d].product # p
  BY <1>1, <1>3, HolderAlone, EndedCalls
<1>5. product' = [product EXCEPT ![p] = f] BY <1>1
<1> QED BY <1>2, <1>3, <1>4, <1>5, ProductStep, EndedCalls

(* A status given to a product that is there. *)
LEMMA StatusGood ==
  ASSUME NEW f, GoodProduct(f), NEW s, s # "NONE", NEW g, g = [f EXCEPT !.status = s]
  PROVE  GoodProduct(g) /\ g.status = s /\ g.perSlot = f.perSlot
BY DEF GoodProduct

LEMMA RemoveWriteKeeps == ASSUME ShopInv, NEW c \in Callers, RemoveWrite(c) PROVE ShopInv'
<1>1. PICK call : call = calls[c] OBVIOUS
<1>2. call.k \in {"PRODUCT", "REMOVE", "CREATE"} /\ End(c) /\ UNCHANGED table
  BY <1>1 DEF RemoveWrite
<1>3. PICK p : p = call.product OBVIOUS
<1>4. p \in Products /\ product[p].status # "NONE"
  BY <1>1, <1>3 DEF RemoveWrite, ShopInv, GoodCall, Standing, Holding
<1>5. GoodProduct(product[p]) BY <1>4 DEF ShopInv, ShelfGood, Exists
<1>6. CASE calls[c].booked
  <2>1. PICK g : g = [product[p] EXCEPT !.status = "ARCHIVED"] OBVIOUS
  <2>2. g.status # "NONE" => GoodProduct(g) BY <2>1, <1>5, StatusGood
  <2>3. product' = [product EXCEPT ![call.product] = g] BY <2>1, <1>1, <1>3, <1>6 DEF RemoveWrite
  <2> QED BY <2>2, <2>3, <1>1, <1>2, WriteOwn
<1>7. CASE ~calls[c].booked
  <2>1. PICK g : g = NoProduct OBVIOUS
  <2>2. product' = [product EXCEPT ![call.product] = g] BY <2>1, <1>1, <1>7 DEF RemoveWrite
  <2>3. g.status # "NONE" => GoodProduct(g) BY <2>1 DEF NoProduct
  <2> QED BY <2>2, <2>3, <1>1, <1>2, WriteOwn
<1> QED BY <1>6, <1>7

LEMMA EndKeeps ==
  ASSUME ShopInv, NEW c \in Callers, End(c), UNCHANGED <<product, table>>
  PROVE  ShopInv'
<1>1. PICK call : call = Idle /\ calls' = [calls EXCEPT ![c] = call] BY DEF End
<1>2. call.k = "NONE" /\ GoodCall(call) BY <1>1 DEF Idle, GoodCall
<1>3. UNCHANGED <<now, product, table>> BY DEF End
<1> QED BY <1>1, <1>2, <1>3, QuietStep

LEMMA LimitedWriteKeeps == ASSUME ShopInv, NEW c \in Callers, LimitedWrite(c) PROVE ShopInv'
<1>1. PICK p : p = calls[c].product OBVIOUS
<1>2. PICK s : s = calls[c].status OBVIOUS
<1>3. p \in Products /\ s # "NONE" BY <1>1, <1>2 DEF LimitedWrite, ShopInv, GoodCall
<1>4. calls' = [calls EXCEPT ![c] = Idle] /\ UNCHANGED <<now, table>> BY DEF LimitedWrite, End
<1>5. CASE Toggles(p)
  <2>1. product[p].status # "NONE" BY <1>5 DEF Toggles
  <2>2. GoodProduct(product[p]) BY <2>1, <1>3 DEF ShopInv, ShelfGood, Exists
  <2>3. PICK g : g = [product[p] EXCEPT !.status = s] OBVIOUS
  <2>4. GoodProduct(g) /\ g.status = s /\ g.perSlot = product[p].perSlot BY <2>2, <2>3, <1>3, StatusGood
  <2>5. product' = [product EXCEPT ![p] = g] BY <2>3, <1>1, <1>2, <1>5 DEF LimitedWrite
  <2> QED BY <2>1, <2>4, <2>5, <1>3, <1>4, ProductStep, EndedCalls
<1>6. CASE ~Toggles(p)
  <2>1. UNCHANGED product BY <1>1, <1>6 DEF LimitedWrite
  <2> QED BY <2>1, EndKeeps DEF LimitedWrite
<1> QED BY <1>5, <1>6

LEMMA SetStatusKeeps ==
  ASSUME ShopInv, NEW p \in Products, NEW s \in {"DRAFT", "ACTIVE", "HIDDEN"}, SetStatus(p, s)
  PROVE  ShopInv'
<1>1. product[p].status # "NONE" /\ UNCHANGED <<now, table, calls>> BY DEF SetStatus
<1>2. GoodProduct(product[p]) BY <1>1 DEF ShopInv, ShelfGood, Exists
<1>3. PICK g : g = [product[p] EXCEPT !.status = s] OBVIOUS
<1>4. GoodProduct(g) /\ g.status = s /\ g.perSlot = product[p].perSlot BY <1>2, <1>3, StatusGood
<1>5. product' = [product EXCEPT ![p] = g] BY <1>3 DEF SetStatus
<1>6. DOMAIN calls' = Callers BY <1>1 DEF ShopInv
<1> QED BY <1>1, <1>4, <1>5, <1>6, ProductStep

-----------------------------------------------------------------------------
(* The steps of bookings and of the clock. *)

(* What is booked to come on the products of calls under way only shrinks. *)
LEMMA BookingStep ==
  ASSUME ShopInv, UNCHANGED product, now' \in Int, TableGood',
         DOMAIN calls' = Callers, \A d \in Callers : calls'[d] \in {Idle, calls[d]},
         \A p \in Products : \A i \in FutureOf(p)' :
           (\E d \in Callers : calls'[d].k = "PRODUCT" /\ calls'[d].product = p) =>
             /\ i \in FutureOf(p)
             /\ table'[i].rsrc = table[i].rsrc /\ table'[i].lo = table[i].lo
             /\ table'[i].hi = table[i].hi /\ table'[i].party = table[i].party
  PROVE  ShopInv'
<1>1. ShelfGood' BY DEF ShopInv, ShelfGood, Exists
<1>3. \A d \in Callers : \A e \in Callers \ {d} : Apart(calls[d], calls[e])'
  BY DEF ShopInv, Apart, Holding, Idle
<1>4. ASSUME NEW d \in Callers PROVE (GoodCall(calls[d]) /\ Standing(calls[d]) /\ Holds(calls[d]))'
  <2>1. CASE calls'[d] = Idle
    BY <2>1 DEF Idle, GoodCall, Standing, Holds, Holding
  <2>2. CASE calls'[d] # Idle
    <3>1. PICK a : a = calls[d] /\ a = calls'[d] BY <2>2
    <3>2. GoodCall(a) /\ Standing(a) /\ Holds(a) BY <3>1 DEF ShopInv
    <3>3. GoodCall(calls[d])' BY <3>1, <3>2 DEF GoodCall, GoodProduct
    <3>4. Standing(calls[d])' BY <3>1, <3>2 DEF Standing, Holding
    <3>5. ASSUME NEW p \in Products, NEW n \in Nat, a.k = "PRODUCT", a.product = p, a.next.perSlot = n,
                 NEW r, NEW v, HoldsAt(p, n, r, v)
          PROVE  HoldsAt(p, n, r, v)'
      <4>1. PICK S, T : S = ThereAt(p, r, v) /\ T = ThereAt(p, r, v)' OBVIOUS
      <4>2. \A i \in FutureOf(p)' :
              /\ i \in FutureOf(p)
              /\ table'[i].rsrc = table[i].rsrc /\ table'[i].lo = table[i].lo
              /\ table'[i].hi = table[i].hi /\ table'[i].party = table[i].party
        BY <3>1, <3>5
      <4>3. T \subseteq S /\ \A i \in T : table'[i].party = table[i].party
        BY <4>1, <4>2 DEF ThereAt
      <4>4. S \subseteq FutureOf(p) BY <4>1 DEF ThereAt
      <4>5. IsFiniteSet(S) /\ \A i \in S : table[i].party \in Nat
        BY <4>4, FutureGood, FS_Subset DEF GoodRow
      <4>6. IsFiniteSet(T) /\ Cardinality(T) <= Cardinality(S) /\ Cardinality(T) \in Nat
            /\ Cardinality(S) \in Nat
        BY <4>3, <4>5, FS_Subset, FS_CardinalityType
      <4>7. PICK u : u = table' OBVIOUS
      <4>8. Cardinality(Heads(u, T)) <= Cardinality(Heads(table, S))
        BY <4>3, <4>5, <4>7, HeadsSubset
      <4>9. \A i \in T : u[i].party \in Nat BY <4>3, <4>5, <4>7
      <4>10. Cardinality(Heads(u, T)) \in Nat /\ Cardinality(Heads(table, S)) \in Nat
        BY <4>5, <4>6, <4>9, HeadsFinite
      <4>11. CASE n = 1
        <5>1. Cardinality(S) <= 1 BY <3>5, <4>1, <4>11 DEF HoldsAt
        <5>2. Cardinality(T) <= 1 BY <5>1, <4>6
        <5> QED BY <5>2, <4>1, <4>11 DEF HoldsAt
      <4>12. CASE n # 1
        <5>1. Cardinality(Heads(table, S)) <= n BY <3>5, <4>1, <4>12 DEF HoldsAt
        <5>2. Cardinality(Heads(u, T)) <= n BY <5>1, <4>8, <4>10
        <5> QED BY <5>2, <4>1, <4>7, <4>12 DEF HoldsAt
      <4> QED BY <4>11, <4>12
    <3>6. Holds(calls[d])' BY <3>1, <3>2, <3>5 DEF Holds
    <3> QED BY <3>3, <3>4, <3>6
  <2> QED BY <2>1, <2>2
<1> QED BY <1>1, <1>3, <1>4 DEF ShopInv

LEMMA TickKeeps == ASSUME ShopInv, Tick PROVE ShopInv'
<1>1. PICK t \in Clock : t > now /\ now' = t BY DEF Tick
<1>2. now \in Int /\ t \in Int BY ShopAssumption DEF ShopInv
<1>3. TableGood' BY DEF ShopInv, TableGood, Tick
<1>4. ASSUME NEW p, NEW i \in FutureOf(p)' PROVE i \in FutureOf(p)
  <2>1. i \in LiveOf(p) /\ table[i].start > t BY <1>1 DEF FutureOf, LiveOf, Live, Tick
  <2>2. table[i].start \in Int BY <2>1 DEF LiveOf, Live, ShopInv, TableGood, GoodRow
  <2> QED BY <2>1, <2>2, <1>1, <1>2 DEF FutureOf
<1>5. UNCHANGED <<product, table, calls>> BY DEF Tick
<1>6. DOMAIN calls' = Callers BY <1>5 DEF ShopInv
<1> QED BY <1>1, <1>2, <1>3, <1>4, <1>5, <1>6, BookingStep

LEMMA CancelKeeps ==
  ASSUME ShopInv, NEW i \in DOMAIN table, Cancel(i)
  PROVE  ShopInv'
<1>1. table' = [table EXCEPT ![i].status = "CANCELED_BY_USER"] BY DEF Cancel
<1>2. UNCHANGED <<now, product, calls>> BY DEF Cancel
<1>3. IsFiniteSet(DOMAIN table) /\ \A x \in DOMAIN table : GoodRow(table[x]) BY DEF ShopInv, TableGood
<1>4. DOMAIN table' = DOMAIN table BY <1>1
<1>5. ASSUME NEW x \in DOMAIN table
      PROVE  /\ GoodRow(table'[x])
             /\ table'[x].product = table[x].product /\ table'[x].rsrc = table[x].rsrc
             /\ table'[x].start = table[x].start /\ table'[x].lo = table[x].lo
             /\ table'[x].hi = table[x].hi /\ table'[x].party = table[x].party
             /\ table'[x].status \in Occupying => table[x].status \in Occupying
  <2>1. GoodRow(table[x]) BY <1>3
  <2>2. CASE x = i
    <3>1. table'[x] = [table[x] EXCEPT !.status = "CANCELED_BY_USER"] BY <1>1, <2>2
    <3> QED BY <2>1, <3>1 DEF GoodRow, Occupying
  <2>3. CASE x # i
    <3>1. table'[x] = table[x] BY <1>1, <2>3
    <3> QED BY <2>1, <3>1 DEF GoodRow
  <2> QED BY <2>2, <2>3
<1>6. TableGood' BY <1>3, <1>4, <1>5 DEF TableGood, GoodRow
<1>7. ASSUME NEW p, NEW x \in FutureOf(p)'
      PROVE  /\ x \in FutureOf(p)
             /\ table'[x].rsrc = table[x].rsrc /\ table'[x].lo = table[x].lo
             /\ table'[x].hi = table[x].hi /\ table'[x].party = table[x].party
  BY <1>2, <1>4, <1>5 DEF FutureOf, LiveOf, Live
<1>8. DOMAIN calls' = Callers /\ now' \in Int BY <1>2 DEF ShopInv
<1> QED BY <1>2, <1>6, <1>7, <1>8, BookingStep

LEMMA PlaceInsertKeeps == ASSUME ShopInv, NEW c \in Callers, PlaceInsert(c) PROVE ShopInv'
<1>1. PICK q : q = calls[c].q.product OBVIOUS
<1>2. calls[c].k = "PLACE" /\ calls' = [calls EXCEPT ![c] = Idle] /\ UNCHANGED <<now, product>>
  BY DEF PlaceInsert, End
<1>3. PICK r, id, row : /\ ~InsertWaits(c, r) /\ row = RowOf(calls[c], r)
                        /\ table' = [i \in DOMAIN table \cup {id} |-> IF i = id THEN row ELSE table[i]]
  BY DEF PlaceInsert
<1>4. GoodRow(row) /\ row.product = q
  <2>1. PICK call : call = calls[c] OBVIOUS
  <2>2. GoodCall(call) /\ call.k = "PLACE" BY <2>1, <1>2 DEF ShopInv
  <2>3. PICK a, f, party : a = call.q.at /\ f = call.as /\ party = call.q.party OBVIOUS
  <2>4. a \in Int /\ party \in Nat \ {0} /\ f.duration \in Nat \ {0} /\ f.before \in Nat /\ f.after \in Nat
    BY <2>2, <2>3 DEF GoodCall, GoodProduct
  <2>5. row = [status |-> "CONFIRMED", product |-> q, rsrc |-> r, day |-> call.day,
               start |-> a, end |-> a + f.duration, lo |-> a - f.before,
               hi |-> a + f.duration + f.after, party |-> party, fixed |-> f.mode = "FIXED"]
    BY <1>1, <1>3, <2>1, <2>3 DEF RowOf
  <2>6. a - f.before < a + f.duration + f.after BY <2>4
  <2>7. {a, a - f.before, a + f.duration + f.after} \subseteq Int BY <2>4
  <2>8. /\ row.start = a /\ row.lo = a - f.before /\ row.hi = a + f.duration + f.after
        /\ row.party = party /\ row.product = q
        /\ {"status", "product", "rsrc", "start", "lo", "hi", "party"} \subseteq DOMAIN row
    BY <2>5
  <2> QED BY <2>4, <2>6, <2>7, <2>8 DEF GoodRow
<1>5. IsFiniteSet(DOMAIN table) /\ \A x \in DOMAIN table : GoodRow(table[x]) BY DEF ShopInv, TableGood
<1>6. /\ DOMAIN table' = DOMAIN table \cup {id}
      /\ \A x \in DOMAIN table' : table'[x] = IF x = id THEN row ELSE table[x]
  BY <1>3
<1>7. TableGood'
  <2>1. IsFiniteSet(DOMAIN table \cup {id}) BY <1>5, FS_AddElement
  <2>2. \A x \in DOMAIN table' : GoodRow(table'[x]) BY <1>4, <1>5, <1>6
  <2> QED BY <2>1, <2>2, <1>6 DEF TableGood, GoodRow
<1>8. ASSUME NEW p \in Products, NEW x \in FutureOf(p)',
             NEW d \in Callers, calls'[d].k = "PRODUCT", calls'[d].product = p
      PROVE  /\ x \in FutureOf(p)
             /\ table'[x].rsrc = table[x].rsrc /\ table'[x].lo = table[x].lo
             /\ table'[x].hi = table[x].hi /\ table'[x].party = table[x].party
  <2>1. calls'[d] = calls[d] /\ d # c BY <1>2, <1>8 DEF ShopInv, Idle
  <2>2. p # q
    <3>1. {q} \cap LockedBy(d) = {} BY <1>1, <1>3, <2>1 DEF InsertWaits, Free
    <3>2. LockedBy(d) = {p} BY <2>1, <1>8 DEF LockedBy
    <3> QED BY <3>1, <3>2
  <2>3. x \in DOMAIN table' /\ table'[x].product = p BY DEF FutureOf, LiveOf, Live
  <2>4. x \in DOMAIN table /\ table'[x] = table[x] BY <2>2, <2>3, <1>4, <1>6
  <2> QED BY <2>4, <1>2 DEF FutureOf, LiveOf, Live
<1>9. now' \in Int BY <1>2 DEF ShopInv
<1> QED BY <1>2, <1>7, <1>8, <1>9, BookingStep, EndedCalls

-----------------------------------------------------------------------------
(* Together. *)

LEMMA WritesKeep == ASSUME ShopInv, NEW c \in Callers, Write(c) PROVE ShopInv'
<1>1. CASE HoursWrite(c) \/ PatternWrite(c) \/ HolidayWrite(c) \/ PlaceRefused(c)
  BY <1>1, EndKeeps DEF HoursWrite, PatternWrite, HolidayWrite, PlaceRefused
<1>2. CASE ProductWrite(c) \/ CreateWrite(c)
  <2>1. PICK call, f : call = calls[c] /\ f = call.next OBVIOUS
  <2>2. call.k \in {"PRODUCT", "REMOVE", "CREATE"} /\ GoodProduct(f)
    BY <2>1, <1>2 DEF ProductWrite, CreateWrite, ShopInv, GoodCall
  <2>3. product' = [product EXCEPT ![call.product] = f] /\ End(c) /\ UNCHANGED table
    BY <2>1, <1>2 DEF ProductWrite, CreateWrite
  <2> QED BY <2>1, <2>2, <2>3, WriteOwn
<1> QED BY <1>1, <1>2, LimitedWriteKeeps, RemoveWriteKeeps, PlaceInsertKeeps DEF Write

LEMMA ShopBegins == Init => ShopInv
<1> SUFFICES ASSUME Init PROVE ShopInv OBVIOUS
<1>1. now \in Int BY DEF Init
<1>2. TableGood
  <2>1. table = <<>> BY DEF Init
  <2>2. DOMAIN table = {} BY <2>1
  <2> QED BY <2>2, FS_EmptySet DEF TableGood
<1>3. ShelfGood
  <2>1. product \in [Products -> {InitProduct, NoProduct}] BY DEF Init
  <2>2. NoProduct.status = "NONE" BY DEF NoProduct
  <2>3. GoodProduct(InitProduct) BY FormGood
  <2> QED BY <2>1, <2>2, <2>3 DEF ShelfGood, Exists
<1>4. DOMAIN calls = Callers /\ \A c \in Callers : calls[c].k = "NONE" BY DEF Init, Idle
<1>5. \A c \in Callers : GoodCall(calls[c]) /\ Standing(calls[c]) /\ Holds(calls[c])
  BY <1>4 DEF GoodCall, Standing, Holds, Holding
<1>6. \A c \in Callers : \A d \in Callers \ {c} : Apart(calls[c], calls[d])
  BY <1>4 DEF Apart, Holding
<1> QED BY <1>1, <1>2, <1>3, <1>4, <1>5, <1>6 DEF ShopInv

LEMMA ShopStuttering == ASSUME ShopInv, UNCHANGED <<now, product, table, calls>> PROVE ShopInv'
<1>1. now' \in Int /\ TableGood' /\ ShelfGood' BY DEF ShopInv, TableGood, ShelfGood, Exists
<1>2. \A d \in Callers : (GoodCall(calls[d]) /\ Standing(calls[d]) /\ Holds(calls[d]))'
  BY DEF ShopInv, GoodCall, GoodProduct, Standing, Holding, Holds, HoldsAt, ThereAt, FutureOf, LiveOf, Live
<1>3. \A d \in Callers : \A e \in Callers \ {d} : Apart(calls[d], calls[e])'
  BY DEF ShopInv, Apart, Holding
<1> QED BY <1>1, <1>2, <1>3 DEF ShopInv

LEMMA ShopStep == ASSUME ShopInv, [Next]_vars PROVE ShopInv'
<1>1. CASE UNCHANGED vars BY <1>1, ShopStuttering DEF vars
<1>2. ASSUME NEW h, HolidayDelete(h) PROVE ShopInv' BY <1>2, ShopStuttering DEF HolidayDelete
<1>3. CASE Finished BY <1>3, <1>1 DEF Finished
<1> QED BY <1>1, <1>2, <1>3, ChecksKeep, WritesKeep, SetStatusKeeps, CancelKeeps, TickKeeps DEF Next

(* Only updateProduct lowers a capacity, and what it lowers it to holds. *)
LEMMA LoweringHolds ==
  ASSUME ShopInv, [Next]_vars, NEW p \in Products, Exists(p), product'[p].status # "NONE",
         product'[p].perSlot < product[p].perSlot, NEW r \in DOMAIN Resources, NEW v \in Int
  PROVE  HoldsAt(p, product'[p].perSlot, r, v)
<1>1. GoodProduct(product[p]) /\ DOMAIN product = Products BY DEF ShopInv, ShelfGood
<1>2. product[p].perSlot \in Nat BY <1>1 DEF GoodProduct
<1>3. product'[p].perSlot # product[p].perSlot BY <1>2
<1>4. product[p].status # "NONE" BY DEF Exists
<1>5. CASE \E c \in Callers : ProductWrite(c) /\ calls[c].product = p
  <2>1. PICK c \in Callers : ProductWrite(c) /\ calls[c].product = p BY <1>5
  <2>2. PICK call, n : call = calls[c] /\ n = call.next.perSlot OBVIOUS
  <2>3. call.k = "PRODUCT" /\ call.product = p /\ product'[p].perSlot = n
    BY <2>1, <2>2, <1>1 DEF ProductWrite
  <2>4. GoodCall(call) /\ Holds(call) BY <2>2 DEF ShopInv
  <2>5. n \in Nat BY <2>2, <2>3, <2>4 DEF GoodCall, GoodProduct
  <2>6. HoldsAt(p, n, r, v) BY <2>2, <2>3, <2>4, <2>5 DEF Holds
  <2> QED BY <2>3, <2>6
<1>6. CASE \E c \in Callers : ProductWrite(c) /\ calls[c].product # p
  BY <1>1, <1>3, <1>6 DEF ProductWrite
<1>7. CASE \E c \in Callers : CreateWrite(c)
  <2>1. PICK c \in Callers : CreateWrite(c) BY <1>7
  <2>2. Standing(calls[c]) BY DEF ShopInv
  <2>3. calls[c].product # p BY <2>1, <2>2, <1>4 DEF CreateWrite, Standing
  <2> QED BY <2>1, <2>3, <1>1, <1>3 DEF CreateWrite
<1>8. CASE \E c \in Callers : LimitedWrite(c)
  <2>1. PICK c \in Callers : LimitedWrite(c) BY <1>8
  <2>2. PICK x, s : x = calls[c].product /\ s = calls[c].status OBVIOUS
  <2>3. product' = product \/ product' = [product EXCEPT ![x].status = s]
    BY <2>1, <2>2 DEF LimitedWrite
  <2> QED BY <2>3, <1>1, <1>3 DEF GoodProduct
<1>9. CASE \E c \in Callers : RemoveWrite(c)
  <2>1. PICK c \in Callers : RemoveWrite(c) BY <1>9
  <2>2. PICK x : x = calls[c].product OBVIOUS
  <2>3. \/ product' = [product EXCEPT ![x].status = "ARCHIVED"]
        \/ product' = [product EXCEPT ![x] = NoProduct]
    BY <2>1, <2>2 DEF RemoveWrite
  <2>4. x = p => product' # [product EXCEPT ![x] = NoProduct] BY <1>1 DEF NoProduct
  <2> QED BY <2>3, <2>4, <1>1, <1>3 DEF GoodProduct
<1>10. CASE \E x \in Products, s \in {"DRAFT", "ACTIVE", "HIDDEN"} : SetStatus(x, s)
  BY <1>10, <1>1, <1>3 DEF SetStatus, GoodProduct
<1>11. CASE UNCHANGED product BY <1>11, <1>3
<1>12. ASSUME NEW c \in Callers, Check(c) PROVE UNCHANGED product
  BY <1>12 DEF Check, HoursCheck, ProductCheck, CreateCheck, LimitedCheck, RemoveCheck, PatternCheck,
       HolidayCheck, PlaceVerify, Begin
<1>13. ASSUME NEW c \in Callers, Write(c)
       PROVE  \/ ProductWrite(c) \/ CreateWrite(c) \/ LimitedWrite(c) \/ RemoveWrite(c)
              \/ UNCHANGED product
  BY <1>13 DEF Write, HoursWrite, PatternWrite, HolidayWrite, PlaceInsert, PlaceRefused
<1>14. ASSUME \/ UNCHANGED vars \/ Tick \/ Finished
              \/ \E h \in hols : HolidayDelete(h)
              \/ \E i \in DOMAIN table : Cancel(i)
       PROVE  UNCHANGED product
  BY <1>14 DEF vars, Tick, Finished, HolidayDelete, Cancel
<1> QED BY <1>5, <1>6, <1>7, <1>8, <1>9, <1>10, <1>11, <1>12, <1>13, <1>14 DEF Next

(* A product's capacity is never lowered below what is booked at one moment  *)
(* on one of its resources, however customers, owners and the clock come     *)
(* between updateProduct's count and its write (products.ts).               *)
THEOREM LoweringHeld == Spec => LoweringFits
<1>1. Init => ShopInv BY ShopBegins
<1>2. ShopInv /\ [Next]_vars => ShopInv' BY ShopStep
<1>3. ShopInv /\ [Next]_vars =>
        \A p \in Products :
          /\ Exists(p) /\ product'[p].status # "NONE"
          /\ product'[p].perSlot < product[p].perSlot
          => \A r \in DOMAIN Resources, v \in 0..(MaxTime + 2 * DayLen) :
               HoldsAt(p, product'[p].perSlot, r, v)
  BY LoweringHolds
<1> QED BY <1>1, <1>2, <1>3, PTL DEF Spec, LoweringFits
=============================================================================
