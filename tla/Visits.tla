------------------------------- MODULE Visits -------------------------------
(***************************************************************************)
(* What is told about a visit and said after it: the notices of            *)
(* src/features/booking/notify.ts and src/features/notification (history,  *)
(* daily limit, mail with retries, hourly reminder, inbox and its nightly  *)
(* clean-up) and the reviews of src/features/review.                       *)
(*                                                                         *)
(* A job is a call of notifyReservation or of sendReminders; the notify    *)
(* calls it makes are its sends: decide, insert the row, try the mail,     *)
(* mark the row.  Every statement is a step, so jobs interleave, the       *)
(* process can crash between two of them, and time passes meanwhile.       *)
(*                                                                         *)
(* The reservation itself is reduced to the transitions that are told      *)
(* (module Booking has all of them).  All rows belong to one business.     *)
(* A walk-in is never told anything and never reviewed.                    *)
(* Time is in parts of an hour; a day is a whole number of hours.          *)
(* Bounds: MaxTime, MaxCalls transitions, ticks and forms, MaxCrashes.      *)
(***************************************************************************)
EXTENDS Integers, Sequences, FiniteSets, FiniteSetsExt, SequencesExt

CONSTANTS
  Resv, WalkIns,    \* reservations, and those made at the counter
  Handlers,         \* members who handle them, in the order they are told
  Tokens,           \* roles with a push subscription
  Starts,           \* possible starts of a visit
  Prefs,            \* possible notification settings of the customers
  Events,           \* the transitions that happen
  Jobs,             \* background calls in progress
  Writers,          \* review forms and reply forms being sent
  Hour, Day, Keep,  \* length of an hour, a day, and the life of a notice
  ReviewWindow, EditWindow,
  DailyLimit,       \* mails a business may send in a day
  ListLimit,        \* reservations one tick takes
  MailConcurrency,  \* mails of a tick sent at once
  Attempts,         \* tries of one mail
  PurgeLimit,       \* notices one nightly run deletes
  Overlap,          \* a tick may start while another one runs
  FirstTime, MaxTime, MaxCalls, MaxCrashes

TransitionsTold ==
  {"REQUESTED", "CONFIRMED", "REJECTED", "EXPIRED", "CANCELED_BY_USER", "CANCELED_BY_BIZ"}
Channels == {"inApp", "push", "email"}

ASSUME TimeAssumption ==
  /\ Hour \in Nat \ {0} /\ Day \in Nat \ {0} /\ Day % Hour = 0 /\ Keep \in Nat /\ Keep > Hour
  /\ Starts \subseteq Nat /\ FirstTime \in Nat /\ MaxTime \in Nat
ASSUME SizesAssumption ==
  /\ IsFiniteSet(Resv) /\ WalkIns \subseteq Resv /\ Events \subseteq TransitionsTold /\ Prefs \subseteq SUBSET Channels
  /\ {MailConcurrency, Attempts, PurgeLimit, ListLimit} \subseteq Nat \ {0}
  /\ Handlers \in Seq(ToSet(Handlers)) /\ Overlap \in BOOLEAN

VARIABLES
  clock,
  visit,    \* the reservation: status, start, and the time it was confirmed
  pref,     \* notification_preferences of the customers
  note,     \* notifications
  job,      \* background calls
  review,   \* reviews, by reservation
  reply,    \* review_replies
  report,   \* reservations whose review has been reported
  write,    \* createReview and upsertReply calls in progress
  hist      \* history: what properties compare with

visitVars == <<clock, visit, pref, note, job, review, reply, report, write, hist>>
reviewVars == <<review, reply, report, write>>

\* A transition, a tick or a form; their number is bounded.
Called == hist.calls < MaxCalls /\ hist' = [hist EXCEPT !.calls = @ + 1]

Idle == [kind |-> "idle", now |-> 0, queue |-> <<>>, running |-> {}]
NoReview == [status |-> "NONE", touched |-> FALSE, at |-> 0]
NoWrite == [pc |-> "idle", resv |-> 0]

-----------------------------------------------------------------------------
(* Who is told, and how *)

\* CUSTOMER_MAIL_ON: a customer is not told of what they did themselves.
MailsCustomer(e) == e # "CANCELED_BY_USER"

\* The shop is told only what it does not know yet.
TellsShop(e) == e \in {"REQUESTED", "EXPIRED", "CANCELED_BY_USER"}

\* Only the mails of customers have a template.
HasTemplate(to) == to = "customer"

\* The channels of events.ts; every event here is in the inbox.
WantsPush(e) == e \notin {"REJECTED", "EXPIRED"}
WantsEmail(e) == e # "CANCELED_BY_USER"

PrefOf(to) == IF to = "customer" THEN pref ELSE Channels

DayOf(t) == t \div Day

\* sentTodayFor: rows of today that went out.  The condition on the push channel is
\* not restricted to the business and the day, but no row is ever sent by push.
SentToday(now) == {n \in note : n.email = "SENT" /\ DayOf(n.at) >= DayOf(now)}

OverLimit(now) == Cardinality(SentToday(now)) >= DailyLimit

\* A mail is meant: by its own right, or in place of a push without a subscription.
MeansMail(s) ==
  /\ "email" \in PrefOf(s.to)
  /\ WantsEmail(s.event) \/ (WantsPush(s.event) /\ "push" \in PrefOf(s.to) /\ s.to \notin Tokens)

\* decideChannels.  Every group here is transactional, so the inbox cannot be turned off;
\* the limit only stops what leaves the system.
DecideChannels(s, now) == [inApp |-> TRUE, email |-> MeansMail(s) /\ ~OverLimit(now)]

-----------------------------------------------------------------------------
(* Jobs and their sends *)

NewSend(to, e, r) == [to |-> to, event |-> e, resv |-> r, pc |-> "decide", inApp |-> FALSE,
                      email |-> "-", note |-> 0, tries |-> 0]

Width(k) == IF k = "tick" THEN MailConcurrency ELSE 1

\* The next sends of a job start when all of the last ones are done (inBatches; the
\* recipients of a transition are told one after the other).
Settle(jb) ==
  IF jb.running # {} THEN jb
  ELSE IF jb.queue = <<>> THEN Idle
  ELSE LET n == Min({Width(jb.kind), Len(jb.queue)})
       IN  [jb EXCEPT !.running = ToSet(SubSeq(jb.queue, 1, n)), !.queue = SubSeq(jb.queue, n + 1, Len(jb.queue))]

Begin(k, now, sends) == Settle([kind |-> k, now |-> now, queue |-> sends, running |-> {}])

Goes(j, s, t) == job' = [job EXCEPT ![j].running = (@ \ {s}) \cup {t}]
Done(j, s) == job' = [job EXCEPT ![j] = Settle([job[j] EXCEPT !.running = @ \ {s}])]

-----------------------------------------------------------------------------
(* A reservation changes and the call that tells of it begins *)

Before(e) ==
  CASE e = "REQUESTED" -> {"NONE"}
    [] e = "CONFIRMED" -> {"NONE", "REQUESTED"}
    [] e \in {"REJECTED", "EXPIRED"} -> {"REQUESTED"}
    [] e = "CANCELED_BY_USER" -> {"REQUESTED", "CONFIRMED"}
    [] e = "CANCELED_BY_BIZ" -> {"CONFIRMED"}

After(e) == IF e \in {"REQUESTED", "CONFIRMED"} THEN e ELSE "ENDED"

\* The recipients of a transition, the customer first.
Recipients(e, r) ==
  IF r \in WalkIns THEN <<>>
  ELSE (IF MailsCustomer(e) THEN <<NewSend("customer", e, r)>> ELSE <<>>)
       \o (IF TellsShop(e) THEN [i \in DOMAIN Handlers |-> NewSend(Handlers[i], e, r)] ELSE <<>>)

\* notifyReservation after a committed transition.
Transition(j, r, e) ==
  /\ job[j].kind = "idle"
  /\ e \in Events /\ visit[r].status \in Before(e) /\ clock < visit[r].start
  /\ visit' = [visit EXCEPT ![r].status = After(e),
                            ![r].confirmed = IF e = "CONFIRMED" THEN clock ELSE @]
  /\ job' = [job EXCEPT ![j] = Begin("event", clock, Recipients(e, r))]
  /\ Called
  /\ UNCHANGED <<clock, pref, note, reviewVars>>

\* The visit took place.
Complete(r) ==
  /\ visit[r].status = "CONFIRMED" /\ clock >= visit[r].start
  /\ visit' = [visit EXCEPT ![r].status = "COMPLETED"]
  /\ UNCHANGED <<clock, pref, note, job, reviewVars, hist>>

-----------------------------------------------------------------------------
(* sendReminders, called by the hourly tick *)

(* Mutant: only a reminder whose mail went out counts. *)
RemindedByMail(r) ==
  \E n \in note : n.to = "customer" /\ n.event = "REMINDER" /\ n.resv = r /\ n.email = "SENT"

Reminded(r) == \E n \in note : n.to = "customer" /\ n.event = "REMINDER" /\ n.resv = r

InWindow(t, now) == now + Day <= t /\ t < now + Day + Hour

Due(now) ==
  {r \in Resv \ WalkIns :
     visit[r].status = "CONFIRMED" /\ InWindow(visit[r].start, now) /\ ~Reminded(r)}

Taken(due) == SubSeq(due, 1, Min({ListLimit, Len(due)}))
RemindersOf(rs) == [i \in DOMAIN rs |-> NewSend("customer", "REMINDER", rs[i])]

\* The list, the earliest first; the calls come from the hourly schedule, its retries
\* and by hand.
Tick(j) ==
  /\ job[j].kind = "idle" /\ hist.calls < MaxCalls
  /\ Overlap \/ \A k \in Jobs : job[k].kind # "tick"
  /\ \E due \in SetToSeqs(Due(clock)) :
       /\ \A i, k \in DOMAIN due : i < k => visit[due[i]].start <= visit[due[k]].start
       /\ job' = [job EXCEPT ![j] = Begin("tick", clock, RemindersOf(Taken(due)))]
  /\ hist' = [hist EXCEPT !.calls = @ + 1,
                          !.onTime = IF clock % Hour = 0 THEN TRUE ELSE @]
  /\ UNCHANGED <<clock, visit, pref, note, reviewVars>>

-----------------------------------------------------------------------------
(* notify *)

\* The settings, the subscription and the rows of today are read.
Decide(j, s) ==
  LET d == DecideChannels(s, IF job[j].kind = "tick" THEN job[j].now ELSE clock)
      sends == d.email /\ HasTemplate(s.to)
  IN
  /\ s.pc = "decide"
  /\ IF d.inApp \/ d.email
       THEN Goes(j, s, [s EXCEPT !.pc = "insert", !.inApp = d.inApp,
                                 !.email = IF sends THEN "SENT" ELSE IF d.email THEN "SKIPPED" ELSE "-"])
       ELSE Done(j, s)
  /\ UNCHANGED <<clock, visit, pref, note, reviewVars, hist>>

\* A row is known by its recipient, event and reservation, and a number no other such row has.
KeyOf(n) == <<n.to, n.event, n.resv>>

FreeNumber(rows) == CHOOSE i \in 1 .. Cardinality(rows) + 1 : \A n \in rows : n.id # i

(* Mutant: the row is found by its recipient and link. *)
RowsOfLink(s) == {n \in note : n.to = s.to /\ n.resv = s.resv /\ n.email = "SENT"}

\* Only the row just inserted.
RowsOf(s) == {n \in note : KeyOf(n) = KeyOf(s) /\ n.id = s.note}

\* The row comes first, with the mail already noted as sent.
InsertNote(j, s) ==
  LET id == FreeNumber({n \in note : KeyOf(n) = KeyOf(s)}) IN
  /\ s.pc = "insert"
  /\ note' = note \cup {[id |-> id, to |-> s.to, event |-> s.event, resv |-> s.resv, inApp |-> s.inApp,
                         email |-> s.email, at |-> clock,
                         out |-> IF s.email = "SENT" THEN "sending" ELSE "-"]}
  /\ hist' = IF s.event = "REMINDER" THEN [hist EXCEPT !.reminders[s.resv] = @ + 1] ELSE hist
  /\ IF s.email = "SENT" THEN Goes(j, s, [s EXCEPT !.pc = "mail", !.note = id]) ELSE Done(j, s)
  /\ UNCHANGED <<clock, visit, pref, reviewVars>>

\* What became of the mail, for the properties.
Outcome(s, out) == LET rows == RowsOf(s) IN note' = (note \ rows) \cup {[n EXCEPT !.out = out] : n \in rows}

\* sendWithRetry: a try is taken or refused, and after the last one the row is marked.
Mail(j, s) ==
  /\ s.pc = "mail"
  /\ \/ Outcome(s, "taken") /\ Done(j, s)
     \/ /\ s.tries + 1 < Attempts
        /\ Goes(j, s, [s EXCEPT !.tries = @ + 1]) /\ UNCHANGED note
     \/ /\ s.tries + 1 = Attempts
        /\ Goes(j, s, [s EXCEPT !.pc = "mark"])
        /\ Outcome(s, "refused")
  /\ UNCHANGED <<clock, visit, pref, reviewVars, hist>>

Mark(j, s) ==
  /\ s.pc = "mark"
  /\ LET rows == RowsOf(s) IN note' = (note \ rows) \cup {[n EXCEPT !.email = "FAILED"] : n \in rows}
  /\ Done(j, s)
  /\ UNCHANGED <<clock, visit, pref, reviewVars, hist>>

Notify(j) == \E s \in job[j].running : Decide(j, s) \/ InsertNote(j, s) \/ Mail(j, s) \/ Mark(j, s)

-----------------------------------------------------------------------------
(* The inbox *)

Old == {n \in note : n.at + Keep < clock}

\* purgeOldNotifications, called by the nightly tick; the batch is taken in no order.
Purge ==
  \E ns \in kSubset(Min({PurgeLimit, Cardinality(Old)}), Old) :
    /\ ns # {}
    /\ note' = note \ ns
    /\ UNCHANGED <<clock, visit, pref, job, reviewVars, hist>>

-----------------------------------------------------------------------------
(* Reviews *)

Locked(r) == \E w \in Writers : write[w].pc = "insert" /\ write[w].resv = r

\* The reservation is read FOR UPDATE.
MayRead(r) == ~Locked(r)

\* reviewEligibility
Eligible(r) ==
  /\ review[r].status = "NONE" /\ r \notin WalkIns
  /\ visit[r].status = "COMPLETED" /\ clock < visit[r].start + ReviewWindow

\* createReview: the checks, then the row, in one transaction.
CreateCheck(w, r) ==
  /\ write[w].pc = "idle" /\ MayRead(r) /\ Eligible(r)
  /\ write' = [write EXCEPT ![w] = [pc |-> "insert", resv |-> r]]
  /\ Called
  /\ UNCHANGED <<clock, visit, pref, note, job, review, reply, report>>

\* A second row for the reservation would break its unique index.
CreateInsert(w) ==
  LET r == write[w].resv IN
  /\ write[w].pc = "insert"
  /\ IF review[r].status = "NONE"
       THEN /\ review' = [review EXCEPT ![r] = [status |-> "PUBLISHED", touched |-> FALSE, at |-> clock]]
            /\ UNCHANGED hist
       ELSE /\ hist' = [hist EXCEPT !.broken = TRUE]
            /\ UNCHANGED review
  /\ write' = [write EXCEPT ![w] = NoWrite]
  /\ UNCHANGED <<clock, visit, pref, note, job, reply, report>>

(* Mutant: a review that was changed before can be changed again. *)
EditableAgain(r) == review[r].status = "PUBLISHED" /\ clock < review[r].at + EditWindow

\* The condition of the UPDATE in updateReview.
Editable(r) == review[r].status = "PUBLISHED" /\ ~review[r].touched /\ clock < review[r].at + EditWindow

UpdateReview(r) ==
  /\ Editable(r)
  /\ review' = [review EXCEPT ![r].touched = TRUE]
  /\ hist' = [hist EXCEPT !.edits[r] = @ + 1]
  /\ UNCHANGED <<clock, visit, pref, note, job, reply, report, write>>

\* deleteReview keeps the row, also of a reported review.
DeleteReview(r) ==
  /\ review[r].status \in {"PUBLISHED", "REPORTED"}
  /\ review' = [review EXCEPT ![r] = [@ EXCEPT !.status = "DELETED", !.touched = TRUE]]
  /\ UNCHANGED <<clock, visit, pref, note, job, reply, report, write, hist>>

\* reportReview locks the review: one step.
ReportReview(r) ==
  /\ review[r].status \in {"PUBLISHED", "REPORTED"} /\ r \notin report
  /\ report' = report \cup {r}
  /\ review' = IF review[r].status = "PUBLISHED"
                 THEN [review EXCEPT ![r] = [@ EXCEPT !.status = "REPORTED", !.touched = TRUE]] ELSE review
  /\ UNCHANGED <<clock, visit, pref, note, job, reply, write, hist>>

\* upsertReply: the review is read, then the reply is written.
ReplyCheck(w, r) ==
  /\ write[w].pc = "idle" /\ review[r].status = "PUBLISHED"
  /\ write' = [write EXCEPT ![w] = [pc |-> "reply", resv |-> r]]
  /\ Called
  /\ UNCHANGED <<clock, visit, pref, note, job, review, reply, report>>

ReplyWrite(w) ==
  /\ write[w].pc = "reply"
  /\ reply' = reply \cup {write[w].resv}
  /\ write' = [write EXCEPT ![w] = NoWrite]
  /\ UNCHANGED <<clock, visit, pref, note, job, review, report, hist>>

DeleteReply(r) ==
  /\ review[r].status # "NONE" /\ r \in reply
  /\ reply' = reply \ {r}
  /\ UNCHANGED <<clock, visit, pref, note, job, review, report, write, hist>>

-----------------------------------------------------------------------------
(* The specification *)

\* A full hour that passes without its tick is a missed one.  A form, the notices of one
\* transition and one mail take seconds; a tick with all its mails may take hours.
Advance ==
  /\ clock < MaxTime
  /\ \A j \in Jobs : job[j].kind # "event" /\ \A s \in job[j].running : s.pc = "decide"
  /\ \A w \in Writers : write[w] = NoWrite
  /\ clock' = clock + 1
  /\ hist' = [hist EXCEPT !.onTime = FALSE,
                          !.missed = @ \/ (clock % Hour = 0 /\ ~hist.onTime)]
  /\ UNCHANGED <<visit, pref, note, job, reviewVars>>

\* The process dies: its jobs are gone, the transactions under way undone.
Crash ==
  /\ hist.crashes < MaxCrashes
  /\ \E j \in Jobs : job[j] # Idle
  /\ note' = {IF n.email = "SENT" /\ n.out # "taken" THEN [n EXCEPT !.out = "cut"] ELSE n : n \in note}
  /\ job' = [j \in Jobs |-> Idle]
  /\ write' = [w \in Writers |-> NoWrite]
  /\ hist' = [hist EXCEPT !.crashes = @ + 1,
                          !.missed = @ \/ \E j \in Jobs : job[j].kind = "tick"]
  /\ UNCHANGED <<clock, visit, pref, review, reply, report>>

\* The bounded run is over.
VisitsOver == clock = MaxTime /\ UNCHANGED visitVars

VisitsInit ==
  /\ clock = FirstTime
  /\ visit \in [Resv -> [status : {"NONE", "CONFIRMED"}, start : Starts, confirmed : {0}]]
  /\ pref \in Prefs
  /\ note = {}
  /\ job = [j \in Jobs |-> Idle]
  /\ review = [r \in Resv |-> NoReview]
  /\ reply = {}
  /\ report = {}
  /\ write = [w \in Writers |-> NoWrite]
  /\ hist = [calls |-> 0, crashes |-> 0, onTime |-> FALSE, missed |-> FALSE,
             broken |-> FALSE, reminders |-> [r \in Resv |-> 0], edits |-> [r \in Resv |-> 0]]

VisitsNext ==
  \/ \E j \in Jobs, r \in Resv, e \in TransitionsTold : Transition(j, r, e)
  \/ \E j \in Jobs : Tick(j) \/ Notify(j)
  \/ Purge
  \/ \E w \in Writers, r \in Resv : CreateCheck(w, r) \/ ReplyCheck(w, r)
  \/ \E w \in Writers : CreateInsert(w) \/ ReplyWrite(w)
  \/ \E r \in Resv : Complete(r) \/ UpdateReview(r) \/ DeleteReview(r) \/ ReportReview(r) \/ DeleteReply(r)
  \/ Advance
  \/ Crash
  \/ VisitsOver

VisitsSpec == VisitsInit /\ [][VisitsNext]_visitVars

-----------------------------------------------------------------------------
(* Properties *)

\* Every variable holds a value of its column.
VisitsTypeOK ==
  /\ clock \in 0 .. MaxTime
  /\ \A r \in Resv :
       /\ visit[r].status \in {"NONE", "REQUESTED", "CONFIRMED", "COMPLETED", "ENDED"}
       /\ review[r].status \in {"NONE", "PUBLISHED", "REPORTED", "DELETED"}
       /\ (review[r].status \in {"REPORTED", "DELETED"} => review[r].touched)
  /\ pref \in Prefs
  /\ \A n \in note :
       /\ n.resv \in Resv \ WalkIns /\ n.at \in 0 .. clock
       /\ n.email \in {"-", "SENT", "FAILED", "SKIPPED"}
  /\ \A m, n \in note : KeyOf(m) = KeyOf(n) /\ m.id = n.id => m = n
  /\ \A j \in Jobs : job[j].kind \in {"idle", "event", "tick"} /\ (job[j].running = {} <=> job[j].kind = "idle")
  /\ reply \subseteq {r \in Resv : review[r].status # "NONE"}
  /\ report \subseteq {r \in Resv : review[r].status \in {"REPORTED", "DELETED"}}

\* A visit is reminded of once: never twice, however often the tick is called again and
\* whatever became of its mails, after a crash too; and when no hour was left out, one
\* that was confirmed before its hour came has been reminded of or is about to be: the
\* windows of the ticks leave no gap, a tick takes all that is due, and settings or the
\* daily limit never suppress the notice (reminder.ts, notify.ts).
RemindedOnce ==
  /\ \A r \in Resv : hist.reminders[r] <= 1
  /\ \A r \in Resv \ WalkIns :
       visit[r].status = "CONFIRMED" /\ ~hist.missed
       /\ visit[r].confirmed + Day + Hour <= visit[r].start /\ visit[r].start <= clock + Day - 1
       => \/ hist.reminders[r] = 1
          \/ \E j \in Jobs : job[j].kind = "tick"

\* The history of mails is true: "sent" means the mail was taken, is being tried or was
\* cut off by a crash, "failed" that every try was refused.
HistoryTrue ==
  \A n \in note :
    /\ n.email = "SENT" => n.out \in {"sending", "taken", "cut", "refused"}
    /\ n.email = "FAILED" => n.out = "refused"
    /\ n.email = "SENT" /\ n.out = "refused" =>
         \E j \in Jobs : \E s \in job[j].running : s.pc = "mark" /\ KeyOf(s) = KeyOf(n)

\* A published review is changed by its author at most once, and what was taken down
\* never comes back; two forms sent at once for the same visit never run into the unique
\* index, the later one is told that a review exists (reviews.ts).
ReviewSettles ==
  [][/\ ~hist'.broken
     /\ \A r \in Resv :
          /\ hist'.edits[r] <= 1
          /\ review[r].status \in {"REPORTED", "DELETED"}
               => review'[r].status \in {review[r].status, "DELETED"}]_visitVars
=============================================================================
