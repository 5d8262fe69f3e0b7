------------------------------ MODULE ConsoleProofs ------------------------------
(***************************************************************************)
(* The console's screens: what a member confirms is what the server asked   *)
(* about, and what a page shows belongs together.  In the roster (Grid) a   *)
(* warning about reservations stays with the leave it was given for; in the *)
(* product form (Form) the confirmation sends the very body the server has  *)
(* seen, although inputs, colleagues and late or lost answers come between; *)
(* and a reservation's page (Desk), read in two statements, has the state   *)
(* it shows in its history and the table's transitions as its buttons.      *)
(***************************************************************************)
EXTENDS Desk, Grid, Form, TLAPS

-----------------------------------------------------------------------------
(* The roster. *)

Fields == {"to", "what", "confirm", "reply"}
Targets == {"CREATE", "DELETE", "APPROVE", "REJECT"}

(* A request has its fields, and whatever warns of reservations - the open  *)
(* row, a request that overrides, an answer on its way - is about a leave   *)
(* the server has named reservations for.                                   *)
Warned(id) == <<"APPROVE", id>> \in told
RequestShaped == Busy => DOMAIN request = Fields /\ request.to \in Targets
OverrideWarned == Busy /\ request.to = "APPROVE" /\ request.confirm => Warned(request.what)
RowWarned == deciding # Nothing /\ deciding.conflicts => Warned(deciding.id)
AnswerWarned ==
  Busy /\ request.to \in {"APPROVE", "REJECT"} /\ request.reply = "EXCEPTION_CONFLICT" => Warned(request.what)

RosterInv == RequestShaped /\ OverrideWarned /\ RowWarned /\ AnswerWarned

(* A step that leaves the request, the row and what is told as they are.    *)
LEMMA RosterUntouched ==
  ASSUME RosterInv, UNCHANGED <<request, deciding, told>>
  PROVE RosterInv'
BY DEF RosterInv, RequestShaped, OverrideWarned, RowWarned, AnswerWarned, Busy, Warned

(* What a button sends has its fields and no answer; an approval that        *)
(* overrides was warned of before.                                          *)
LEMMA SendKeeps ==
  ASSUME RosterInv, NEW to \in Targets, NEW what, NEW confirm,
         to = "APPROVE" /\ confirm => Warned(what),
         Sends(to, what, confirm), UNCHANGED <<deciding, told>>
  PROVE RosterInv'
<1>1. /\ DOMAIN request' = Fields /\ request'.to = to /\ request'.what = what
      /\ request'.confirm = confirm /\ request'.reply # "EXCEPTION_CONFLICT"
  BY GridAssumption DEF Sends, Fields
<1>2. QED
  BY <1>1 DEF RosterInv, RequestShaped, OverrideWarned, RowWarned, AnswerWarned, Busy, Warned

(* An answer leaves the question as it was.                                 *)
LEMMA ReplyKeeps ==
  ASSUME RosterInv, Busy, NEW text, Reply(text)
  PROVE /\ DOMAIN request' = Fields /\ request'.to = request.to /\ request'.what = request.what
        /\ request'.confirm = request.confirm /\ request'.reply = text
BY DEF RosterInv, RequestShaped, Reply, Fields

(* The server tells of reservations before it refuses an approval for them. *)
LEMMA AnswerKeeps ==
  ASSUME RosterInv, Busy, NEW text, Reply(text), UNCHANGED deciding, told \subseteq told',
         text = "EXCEPTION_CONFLICT" /\ request.to \in {"APPROVE", "REJECT"} => <<"APPROVE", request.what>> \in told'
  PROVE RosterInv'
<1>1. /\ DOMAIN request' = Fields /\ request'.to = request.to /\ request'.what = request.what
      /\ request'.confirm = request.confirm /\ request'.reply = text
  BY ReplyKeeps
<1>2. QED
  BY <1>1 DEF RosterInv, RequestShaped, OverrideWarned, RowWarned, AnswerWarned, Busy, Warned

(* Every step of the roster keeps its warnings with the leave they are of.  *)
LEMMA RosterStep ==
  ASSUME RosterInv, [GridNext]_gridVars
  PROVE RosterInv'
<1>1. ASSUME NEW r \in Roles, OpenPage(r) PROVE RosterInv'
  BY <1>1, RosterUntouched DEF OpenPage, form
<1>2. ASSUME NEW c \in Cells, OpenCell(c) PROVE RosterInv'
  BY <1>2, RosterUntouched DEF OpenCell
<1>3. ASSUME NEW x, SetDraft(x) PROVE RosterInv'
  BY <1>3, RosterUntouched DEF SetDraft
<1>4. CASE CloseCell BY <1>4, RosterUntouched DEF CloseCell
<1>5. CASE Submit BY <1>5, SendKeeps DEF Submit, Sends, Targets, form
<1>6. CASE StopDeciding
  BY <1>6 DEF StopDeciding, RosterInv, RequestShaped, OverrideWarned, RowWarned, AnswerWarned, Busy, Warned
<1>7. ASSUME NEW x, RemoveRow(x) PROVE RosterInv'
  BY <1>7, SendKeeps DEF RemoveRow, Sends, Targets, form
<1>8. ASSUME NEW x \in XIds, PressDecision(x) PROVE RosterInv'
  <2> DEFINE confirm == ~ShownOf(x).rejecting /\ ShownOf(x).conflicts
  <2>1. confirm => Warned(x)
    BY DEF ShownOf, RosterInv, RowWarned
  <2>2. QED
    BY <1>8, <2>1, SendKeeps DEF PressDecision, Sends, Targets, form
<1>9. ASSUME NEW x \in XIds, StartRejecting(x) PROVE RosterInv'
  BY <1>9 DEF StartRejecting, RosterInv, RequestShaped, OverrideWarned, RowWarned, AnswerWarned, Busy, Warned
<1>10. ASSUME NEW x \in XIds, Colleague(x) PROVE RosterInv'
  BY <1>10, RosterUntouched DEF Colleague, form
<1>11. CASE Create
  <2>1. PICK text : Reply(text) /\ told \subseteq told'
    BY <1>11 DEF Create, InTheWay
  <2>2. QED BY <1>11, <2>1, AnswerKeeps DEF Create, Answers, form
<1>12. CASE DecideLeave
  <2>1. CASE InTheWay("EXCEPTION_CONFLICT") /\ request.to = "APPROVE"
    BY <1>12, <2>1, AnswerKeeps DEF DecideLeave, InTheWay, Answers, form, Warned
  <2>2. CASE \E text \in {"NOT_PENDING", "OK"} : Reply(text) /\ UNCHANGED told
    BY <1>12, <2>2, AnswerKeeps DEF DecideLeave, Answers, form
  <2>3. QED BY <1>12, <2>1, <2>2 DEF DecideLeave
<1>13. CASE Delete
  <2>1. PICK text : Reply(text) /\ UNCHANGED told
    BY <1>13 DEF Delete
  <2>2. QED BY <1>13, <2>1, AnswerKeeps DEF Delete, Answers, form
<1>14. ASSUME NEW lost \in BOOLEAN, Receive(lost) PROVE RosterInv'
  <2>1. ~Busy' /\ UNCHANGED told
    BY <1>14 DEF Receive, Busy
  <2>2. \/ UNCHANGED deciding
        \/ deciding' = Nothing
        \/ Warned(request.what) /\ deciding' = [id |-> request.what, conflicts |-> TRUE, rejecting |-> FALSE]
    <3>1. CASE request.to = "CREATE" \/ request.to = "DELETE"
      BY <1>14, <3>1 DEF Receive
    <3>2. CASE request.to \in {"APPROVE", "REJECT"} /\ (lost \/ request.reply # "EXCEPTION_CONFLICT")
      BY <1>14, <3>2 DEF Receive
    <3>3. CASE request.to \in {"APPROVE", "REJECT"} /\ ~lost /\ request.reply = "EXCEPTION_CONFLICT"
      BY <1>14, <3>3 DEF Receive, RosterInv, AnswerWarned
    <3>4. QED BY <1>14, <3>1, <3>2, <3>3 DEF Receive, RosterInv, RequestShaped, Targets
  <2>3. QED
    BY <2>1, <2>2 DEF RosterInv, RequestShaped, OverrideWarned, RowWarned, AnswerWarned, Warned
<1>15. CASE UNCHANGED gridVars BY <1>15, RosterUntouched DEF gridVars
<1>16. QED
  BY <1>1, <1>2, <1>3, <1>4, <1>5, <1>6, <1>7, <1>8, <1>9, <1>10, <1>11, <1>12, <1>13, <1>14, <1>15 DEF GridNext

(* Leave is approved over reservations only after the server has named those *)
(* of this very request (ScheduleGrid.tsx, decide), however the members' and *)
(* colleagues' actions and late or lost answers interleave.                 *)
THEOREM OverridesWarned == GridSpec => []ApprovedAsShown
<1>1. GridInit => RosterInv
  BY DEF GridInit, RosterInv, RequestShaped, OverrideWarned, RowWarned, AnswerWarned, Busy
<1>2. RosterInv /\ [GridNext]_gridVars => RosterInv'
  BY RosterStep
<1>3. RosterInv => ApprovedAsShown
  BY DEF RosterInv, OverrideWarned, ApprovedAsShown, Warned
<1>4. QED BY <1>1, <1>2, <1>3, PTL DEF GridSpec

-----------------------------------------------------------------------------
(* The product form. *)

(* A submission under way has its fields; one that confirms, and one that is *)
(* answered with the question, has the body the server asked about.         *)
SubmissionShaped == submission # NoForm => DOMAIN submission = {"body", "confirm", "reply"}
QuestionAsked == submission # NoForm /\ submission.reply = "AFFECTS_RESERVATIONS" => submission.body = asked

SubmissionInv == SubmissionShaped /\ QuestionAsked /\ ConfirmedAsAsked

(* Most of the form has no say in what is under way.                        *)
LEMMA FormUntouched ==
  ASSUME SubmissionInv, UNCHANGED <<submission, asked>>
  PROVE SubmissionInv'
BY DEF SubmissionInv, SubmissionShaped, QuestionAsked, ConfirmedAsAsked

(* An answer of the server: the question makes its body the one asked about. *)
LEMMA ReplyAsks ==
  ASSUME SubmissionInv, submission # NoForm, NEW text, Replies(text),
         asked' = (IF text = "AFFECTS_RESERVATIONS" THEN submission.body ELSE asked)
  PROVE SubmissionInv'
<1>1. /\ DOMAIN submission' = {"body", "confirm", "reply"} /\ submission'.body = submission.body
      /\ submission'.confirm = submission.confirm /\ submission'.reply = text
  BY DEF SubmissionInv, SubmissionShaped, Replies
<1>2. QED
  BY <1>1 DEF SubmissionInv, SubmissionShaped, QuestionAsked, ConfirmedAsAsked

(* Every step of the form keeps what it confirms equal to what was asked.   *)
LEMMA SubmissionStep ==
  ASSUME SubmissionInv, [FormNext]_formVars
  PROVE SubmissionInv'
<1> USE DEF inputs
<1>1. ASSUME NEW p, NEW w, OpenForm(p, w) PROVE SubmissionInv'
  BY <1>1, FormUntouched DEF OpenForm
<1>2. ASSUME NEW key, ChoosePreset(key) PROVE SubmissionInv'
  BY <1>2, FormUntouched DEF ChoosePreset, Typed
<1>3. ASSUME NEW r, ToggleResource(r) PROVE SubmissionInv'
  BY <1>3, FormUntouched DEF ToggleResource, Typed
<1>4. ASSUME NEW m, SetMode(m) PROVE SubmissionInv'
  BY <1>4, FormUntouched DEF SetMode, Typed
<1>5. ASSUME NEW n, SetDuration(n) \/ ToggleOption(n) PROVE SubmissionInv'
  BY <1>5, FormUntouched DEF SetDuration, ToggleOption, Typed
<1>6. ASSUME NEW f, NEW n, SetSize(f, n) PROVE SubmissionInv'
  BY <1>6, FormUntouched DEF SetSize, Typed
<1>7. ASSUME NEW t, ToggleTime(t) PROVE SubmissionInv'
  BY <1>7, FormUntouched DEF ToggleTime, Typed
<1>8. ASSUME NEW st, SetStatus(st) PROVE SubmissionInv'
  BY <1>8, FormUntouched DEF SetStatus, Typed
<1>9. CASE RemoveImage \/ AddUrl
  BY <1>9, FormUntouched DEF RemoveImage, AddUrl, Typed
<1>10. CASE ToggleFollow BY <1>10, FormUntouched DEF ToggleFollow
<1>11. ASSUME NEW h, EditHours(h) PROVE SubmissionInv'
  BY <1>11, FormUntouched DEF EditHours
<1>12. ASSUME NEW n, ChooseFiles(n) PROVE SubmissionInv'
  BY <1>12, FormUntouched DEF ChooseFiles
<1>13. ASSUME NEW k, NEW o, Uploaded(k, o) PROVE SubmissionInv'
  BY <1>13, FormUntouched DEF Uploaded
<1>14. CASE Archive BY <1>14, FormUntouched DEF Archive
<1>15. CASE SubmitForm
  BY <1>15, FormAssumption DEF SubmitForm, Sent, SubmissionInv, SubmissionShaped, QuestionAsked, ConfirmedAsAsked
<1>16. CASE Save
  <2>1. submission # NoForm BY <1>16 DEF Save
  <2>2. PICK text : Replies(text) /\ asked' = (IF text = "AFFECTS_RESERVATIONS" THEN submission.body ELSE asked)
    <3>1. CASE /\ Replies("AFFECTS_RESERVATIONS") /\ asked' = submission.body
      BY <3>1
    <3>2. CASE \E text \in {"ARCHIVED", "OK", "INVALID_BODY", "HOURS_CONFLICT"} : Replies(text) /\ UNCHANGED asked
      BY <3>2
    <3>3. QED BY <1>16, <3>1, <3>2 DEF Save
  <2>3. QED BY <2>1, <2>2, ReplyAsks
<1>17. ASSUME NEW lost \in BOOLEAN, NEW yes \in BOOLEAN, Answered(lost, yes) PROVE SubmissionInv'
  <2>1. UNCHANGED asked BY <1>17 DEF Answered
  <2>2. CASE submission' = NoForm
    BY <2>2 DEF SubmissionInv, SubmissionShaped, QuestionAsked, ConfirmedAsAsked
  <2>3. CASE submission.reply = "AFFECTS_RESERVATIONS" /\ Sent(submission.body, TRUE)
    BY <1>17, <2>1, <2>3, FormAssumption
       DEF Answered, Sent, SubmissionInv, SubmissionShaped, QuestionAsked, ConfirmedAsAsked
  <2>4. QED BY <1>17, <2>2, <2>3 DEF Answered, ConfirmedBody
<1>18. CASE UNCHANGED formVars BY <1>18, FormUntouched DEF formVars
<1>19. QED
  BY <1>1, <1>2, <1>3, <1>4, <1>5, <1>6, <1>7, <1>8, <1>9, <1>10, <1>11, <1>12, <1>13, <1>14, <1>15, <1>16,
     <1>17, <1>18 DEF FormNext

(* What is saved over reservations to come is the body the server asked about *)
(* (ProductForm.tsx, submit), whatever is typed, uploaded, archived or lost  *)
(* between the question and its confirmation.                               *)
THEOREM ConfirmationsAsked == FormSpec => []ConfirmedAsAsked
<1>1. FormInit => SubmissionInv
  BY DEF FormInit, SubmissionInv, SubmissionShaped, QuestionAsked, ConfirmedAsAsked
<1>2. SubmissionInv /\ [FormNext]_formVars => SubmissionInv'
  BY SubmissionStep
<1>3. SubmissionInv => ConfirmedAsAsked
  BY DEF SubmissionInv
<1>4. QED BY <1>1, <1>2, <1>3, PTL DEF FormSpec
-----------------------------------------------------------------------------
(* One reservation's page. *)

(* What a list of states holds it still holds when one more is appended, and *)
(* then that one too.                                                       *)
LEMMA AppendedStates ==
  ASSUME NEW history \in Seq(Statuses), NEW entry \in Statuses
  PROVE  /\ Append(history, entry) \in Seq(Statuses)
         /\ Contains(Append(history, entry), entry)
         /\ \A st \in Statuses : Contains(history, st) => Contains(Append(history, entry), st)
<1>1. Append(history, entry) \in Seq(Statuses) /\ Len(Append(history, entry)) = Len(history) + 1 /\ Len(history) \in Nat
  OBVIOUS
<1>2. Append(history, entry)[Len(history) + 1] = entry OBVIOUS
<1>3. \A i \in 1..Len(history) : Append(history, entry)[i] = history[i] OBVIOUS
<1> QED BY <1>1, <1>2, <1>3 DEF Contains

(* The rows as the page reads them, and a history that has every state a     *)
(* reservation is in.                                                       *)
KnownRow(row) == {"status", "rsrc"} \subseteq DOMAIN row /\ row.status \in Statuses \cup {"NONE"}
Logged(table, logs) ==
  /\ DOMAIN table = Ids /\ logs \in [Ids -> Seq(Statuses)]
  /\ \A i \in Ids : KnownRow(table[i]) /\ (table[i].status # "NONE" => Contains(logs[i], table[i].status))

(* What the panel holds is of one placed reservation; what a read has found  *)
(* is in the history already, and what is shown in the one that is shown.   *)
Shaped(lk) == DOMAIN lk = {"id", "read", "detail", "pending", "patch"}
OfPlaced(lk, table) ==
  lk.read # None \/ lk.detail # None \/ lk.pending # None \/ lk.patch # None
    => lk.id \in Ids /\ table[lk.id].status \in Statuses
ReadKnown(lk, logs) ==
  lk.read # None => /\ DOMAIN lk.read = {"status", "mine", "history"}
                    /\ lk.read.status \in Statuses /\ Contains(logs[lk.id], lk.read.status)
DetailKnown(lk) == lk.detail # None => lk.detail.status \in Statuses /\ Contains(lk.detail.history, lk.detail.status)
LookKnown(lk, table, logs) == Shaped(lk) /\ OfPlaced(lk, table) /\ ReadKnown(lk, logs) /\ DetailKnown(lk)

DeskInv == Logged(rows, log) /\ LookKnown(look, rows, log)

(* A change of a reservation: the history grows, and knows the new state.    *)
LEMMA ChangeLogged ==
  ASSUME NEW table, NEW logs, NEW lk, Logged(table, logs), LookKnown(lk, table, logs),
         NEW i \in Ids, NEW row, KnownRow(row), row.status \in Statuses,
         NEW table2, table2 = [table EXCEPT ![i] = row],
         NEW logs2, logs2 = [logs EXCEPT ![i] = Append(@, row.status)]
  PROVE  Logged(table2, logs2) /\ LookKnown(lk, table2, logs2)
<1>1. logs[i] \in Seq(Statuses) BY DEF Logged
<1>2. logs2[i] = Append(logs[i], row.status) /\ table2[i] = row BY DEF Logged
<1>3. \A k \in Ids \ {i} : logs2[k] = logs[k] /\ table2[k] = table[k] BY DEF Logged
<1>4. logs2[i] \in Seq(Statuses) /\ Contains(logs2[i], row.status) BY <1>1, <1>2, AppendedStates
<1>5. \A k \in Ids, st \in Statuses : Contains(logs[k], st) => Contains(logs2[k], st)
  BY <1>1, <1>2, <1>3, AppendedStates
<1>6. logs2 \in [Ids -> Seq(Statuses)] BY <1>3, <1>4 DEF Logged
<1>7. Logged(table2, logs2) BY <1>2, <1>3, <1>4, <1>6 DEF Logged
<1>8. \A k \in Ids : table[k].status \in Statuses => table2[k].status \in Statuses BY <1>2, <1>3
<1>9. LookKnown(lk, table2, logs2) BY <1>5, <1>8 DEF LookKnown, OfPlaced, ReadKnown
<1> QED BY <1>7, <1>9

(* The panel sends, opens or closes its box, or is answered: what it shows   *)
(* stays.                                                                   *)
LEMMA PanelKeeps ==
  ASSUME NEW table, NEW logs, NEW lk, LookKnown(lk, table, logs),
         lk.id \in Ids /\ table[lk.id].status \in Statuses,
         NEW field \in {"pending", "patch"}, NEW val, NEW lk2, lk2 = [lk EXCEPT ![field] = val]
  PROVE  LookKnown(lk2, table, logs)
<1>1. DOMAIN lk2 = DOMAIN lk /\ lk2.id = lk.id /\ lk2.read = lk.read /\ lk2.detail = lk.detail
  BY DEF LookKnown, Shaped
<1> QED BY <1>1 DEF LookKnown, Shaped, OfPlaced, ReadKnown, DetailKnown

(* The panel is of a placed reservation when it holds anything of it.        *)
LEMMA PanelPlaced ==
  ASSUME DeskInv, look.read # None \/ look.detail # None \/ look.pending # None \/ look.patch # None
  PROVE  look.id \in Ids /\ rows[look.id].status \in Statuses
BY DEF DeskInv, LookKnown, OfPlaced

(* The first statement of a read: the state it finds is in the history.      *)
LEMMA SnapshotKnown ==
  ASSUME DeskInv, NEW i \in Ids, rows[i].status \in Statuses,
         NEW lk, Shaped(lk), lk.id = i, lk.read = Snapshot(i), DetailKnown(lk)
  PROVE  LookKnown(lk, rows, log)
<1>1. "NONE" \notin Statuses BY DEF Statuses
<1>2. Contains(log[i], rows[i].status) BY <1>1 DEF DeskInv, Logged
<1>3. DOMAIN Snapshot(i) = {"status", "mine", "history"} /\ Snapshot(i).status = rows[i].status BY DEF Snapshot
<1> QED BY <1>2, <1>3 DEF LookKnown, OfPlaced, ReadKnown

(* The second: it finds that history or a longer one.                        *)
LEMMA HistoryKnown ==
  ASSUME DeskInv, look.read # None, look' = [look EXCEPT !.detail = Completes(look.id, look.read), !.read = None]
  PROVE  LookKnown(look', rows, log)
<1>1. look.id \in Ids /\ rows[look.id].status \in Statuses BY PanelPlaced
<1>2. /\ look.read.status \in Statuses /\ Contains(log[look.id], look.read.status)
      /\ DOMAIN look.read = {"status", "mine", "history"} /\ Shaped(look)
  BY DEF DeskInv, LookKnown, ReadKnown
<1>3. PICK page : page = Completes(look.id, look.read) OBVIOUS
<1>4. page.status = look.read.status /\ page.history = log[look.id]
  <2>1. page = [look.read EXCEPT !.history = log[look.id]] BY <1>2, <1>3, DeskAssumption DEF Completes
  <2> QED BY <1>2, <2>1
<1>5. /\ Shaped(look') /\ look'.id = look.id /\ look'.read = None /\ look'.detail = page
  BY <1>2, <1>3 DEF Shaped
<1> QED BY <1>1, <1>2, <1>4, <1>5 DEF LookKnown, OfPlaced, ReadKnown, DetailKnown

(* A step of another screen. *)
LEMMA DeskUntouched == ASSUME DeskInv, UNCHANGED <<rows, log, look>> PROVE DeskInv'
BY DEF DeskInv, Logged, LookKnown, Shaped, OfPlaced, ReadKnown, DetailKnown

LEMMA LookChanges == ASSUME DeskInv, UNCHANGED <<rows, log>>, LookKnown(look', rows, log) PROVE DeskInv'
BY DEF DeskInv, LookKnown, Shaped, OfPlaced, ReadKnown, DetailKnown, Logged

(* A row is stored with its entry of the history. *)
LEMMA RowStored ==
  ASSUME DeskInv, NEW i \in Ids, NEW row, NEW entry, Apply(i, row, entry), KnownRow(row), row.status = entry,
         entry \in Statuses, NEW lk, LookKnown(lk, rows, log)
  PROVE  Logged(rows', log') /\ LookKnown(lk, rows', log')
BY ChangeLogged DEF Apply, DeskInv

(* The lists, which a change of others makes shorter, are apart from the page. *)
LEMMA OthersKeep ==
  ASSUME DeskInv, NEW i \in Ids, NEW row, NEW entry, Change(i, row, entry), KnownRow(row), row.status = entry,
         entry \in Statuses
  PROVE  DeskInv'
<1>1. Apply(i, row, entry) /\ look' = look BY DEF Change
<1>2. Logged(rows', log') /\ LookKnown(look, rows', log') BY <1>1, RowStored DEF DeskInv
<1> QED BY <1>1, <1>2 DEF DeskInv, LookKnown, Shaped, OfPlaced, ReadKnown, DetailKnown, Logged

(* A row in another state, or on another resource, is still a row. *)
LEMMA RowChanges ==
  ASSUME NEW row, KnownRow(row), NEW to \in Statuses, NEW r
  PROVE  /\ KnownRow([row EXCEPT !.status = to]) /\ [row EXCEPT !.status = to].status = to
         /\ KnownRow([row EXCEPT !.status = to, !.rsrc = r]) /\ [row EXCEPT !.status = to, !.rsrc = r].status = to
BY DEF KnownRow

LEMMA RowMoves ==
  ASSUME NEW row, KnownRow(row), NEW r
  PROVE  KnownRow([row EXCEPT !.rsrc = r]) /\ [row EXCEPT !.rsrc = r].status = row.status
BY DEF KnownRow

LEMMA DecideKeeps == ASSUME DeskInv, Decide PROVE DeskInv'
<1>1. look.id \in Ids /\ rows[look.id].status \in Statuses BY PanelPlaced DEF Decide, Idle
<1>2. PICK ok : look' = [look EXCEPT !.patch.reply = ok] BY DEF Decide, Replied
<1>3. PICK patch : look' = [look EXCEPT !["patch"] = patch] BY <1>2
<1>4. LookKnown(look', rows, log) BY <1>1, <1>3, PanelKeeps DEF DeskInv
<1>5. CASE UNCHANGED <<rows, log>> BY <1>4, <1>5, LookChanges
<1>6. CASE ~UNCHANGED <<rows, log>>
  <2> DEFINE taken == IF TakesOver(RuleFor(rows[look.id].status, look.patch.to), rows[look.id])
                      THEN me.mine ELSE rows[look.id].rsrc
  <2>0. PICK r : r = taken OBVIOUS
  <2>1. Apply(look.id, [rows[look.id] EXCEPT !.status = look.patch.to, !.rsrc = r], look.patch.to)
    BY <1>6, <2>0 DEF Decide
  <2>2. look.patch.to \in Statuses BY DEF Decide
  <2>3. KnownRow(rows[look.id]) BY <1>1 DEF DeskInv, Logged
  <2>4. PICK row : /\ row = [rows[look.id] EXCEPT !.status = look.patch.to, !.rsrc = r]
                   /\ KnownRow(row) /\ row.status = look.patch.to
    <3>1. PICK to \in Statuses : to = look.patch.to BY <2>2
    <3>3. PICK old : old = rows[look.id] OBVIOUS
    <3>4. KnownRow(old) BY <2>3, <3>3, Zenon
    <3>2. KnownRow([old EXCEPT !.status = to, !.rsrc = r]) /\ [old EXCEPT !.status = to, !.rsrc = r].status = to
      BY ONLY <3>4, to \in Statuses, RowChanges
    <3> QED BY <3>1, <3>2, <3>3
  <2>5. PICK to : to = look.patch.to /\ to \in Statuses BY <2>2
  <2>6. PICK lk : lk = look' OBVIOUS
  <2>7. Logged(rows', log') /\ LookKnown(lk, rows', log') BY <1>1, <1>4, <2>1, <2>4, <2>5, <2>6, RowStored
  <2> QED BY <2>6, <2>7 DEF DeskInv, LookKnown, Shaped, OfPlaced, ReadKnown, DetailKnown, Logged
<1> QED BY <1>5, <1>6

LEMMA ReassignKeeps == ASSUME DeskInv, Reassign PROVE DeskInv'
<1>1. look.id \in Ids /\ rows[look.id].status \in Statuses BY PanelPlaced DEF Reassign, Idle
<1>2. PICK ok : look' = [look EXCEPT !.patch.reply = ok] BY DEF Reassign, Replied
<1>3. PICK patch : look' = [look EXCEPT !["patch"] = patch] BY <1>2
<1>4. LookKnown(look', rows, log) BY <1>1, <1>3, PanelKeeps DEF DeskInv
<1>5. CASE UNCHANGED <<rows, log>> BY <1>4, <1>5, LookChanges
<1>6. CASE ~UNCHANGED <<rows, log>>
  <2>1. Apply(look.id, [rows[look.id] EXCEPT !.rsrc = look.patch.to], rows[look.id].status) BY <1>6 DEF Reassign
  <2>2. KnownRow(rows[look.id]) BY <1>1 DEF DeskInv, Logged
  <2>3. PICK row : /\ row = [rows[look.id] EXCEPT !.rsrc = look.patch.to]
                   /\ KnownRow(row) /\ row.status = rows[look.id].status
    <3>1. PICK old, r : old = rows[look.id] /\ r = look.patch.to OBVIOUS
    <3>2. KnownRow([old EXCEPT !.rsrc = r]) /\ [old EXCEPT !.rsrc = r].status = old.status
      BY <2>2, <3>1, RowMoves
    <3> QED BY <3>1, <3>2
  <2>4. PICK entry : entry = rows[look.id].status OBVIOUS
  <2>5. PICK lk : lk = look' OBVIOUS
  <2>6. Logged(rows', log') /\ LookKnown(lk, rows', log') BY <1>1, <1>4, <2>1, <2>3, <2>4, <2>5, RowStored
  <2> QED BY <2>5, <2>6 DEF DeskInv, LookKnown, Shaped, OfPlaced, ReadKnown, DetailKnown, Logged
<1> QED BY <1>5, <1>6

LEMMA NothingKnown == LookKnown(NoLook, rows, log)
BY DEF LookKnown, Shaped, OfPlaced, ReadKnown, DetailKnown, NoLook

(* A success reads the page anew, and what was read before is thrown away.   *)
LEMMA SettleKeeps == ASSUME DeskInv, NEW lost, Settle(lost) PROVE DeskInv'
<1>1. look.id \in Ids /\ rows[look.id].status \in Statuses BY PanelPlaced DEF Settle, Idle
<1>2. UNCHANGED <<rows, log>> BY DEF Settle, server
<1>3. CASE look' = [look EXCEPT !.patch = None] BY <1>1, <1>2, <1>3, PanelKeeps, LookChanges DEF DeskInv
<1>4. CASE look' = NoLook BY <1>2, <1>4, NothingKnown, LookChanges
<1>5. CASE look' = [look EXCEPT !.patch = None, !.read = Reads(look.id),
                                !.pending = IF look.patch.to \in Statuses THEN None ELSE @]
  <2>1. PICK pending, read : read = Snapshot(look.id) /\ look' = [look EXCEPT !.patch = None, !.read = read, !.pending = pending]
    BY <1>5 DEF Reads
  <2>2. Shaped(look) /\ DetailKnown(look) BY DEF DeskInv, LookKnown
  <2>3. Shaped(look') /\ look'.id = look.id /\ look'.read = read /\ look'.detail = look.detail
    BY <2>1, <2>2 DEF Shaped
  <2>4. DetailKnown(look') BY <2>2, <2>3 DEF DetailKnown
  <2> QED BY <1>1, <1>2, <2>1, <2>3, <2>4, SnapshotKnown, LookChanges
<1> QED BY <1>3, <1>4, <1>5 DEF Settle

(* The first statement of the page, or of the customer's own. *)
LEMMA ReadKeeps ==
  ASSUME DeskInv, NEW i \in Placed(rows), look' = [look EXCEPT !.id = i, !.read = Snapshot(i)], UNCHANGED <<rows, log>>
  PROVE  DeskInv'
<1>1. i \in Ids /\ rows[i].status \in Statuses BY DEF Placed, DeskInv, Logged, KnownRow
<1>2. PICK read : read = Snapshot(i) OBVIOUS
<1>3. Shaped(look) /\ DetailKnown(look) BY DEF DeskInv, LookKnown
<1>4. Shaped(look') /\ look'.id = i /\ look'.read = read /\ look'.detail = look.detail BY <1>2, <1>3 DEF Shaped
<1>5. DetailKnown(look') BY <1>3, <1>4 DEF DetailKnown
<1> QED BY <1>1, <1>2, <1>4, <1>5, SnapshotKnown, LookChanges

(* The controls of the page. *)
LEMMA ControlKeeps ==
  ASSUME DeskInv, look.read # None \/ look.detail # None \/ look.pending # None \/ look.patch # None,
         NEW field \in {"pending", "patch"}, NEW val, look' = [look EXCEPT ![field] = val], UNCHANGED <<rows, log>>
  PROVE  DeskInv'
BY PanelPlaced, PanelKeeps, LookChanges DEF DeskInv

LEMMA HandleKeeps == ASSUME DeskInv, Handle PROVE DeskInv'
<1>1. ASSUME NEW i \in Ids, ReadDetail(i) PROVE DeskInv' BY <1>1, ReadKeeps DEF ReadDetail, Reads, server
<1>2. ASSUME NEW i \in Ids, ReadOwn(i) PROVE DeskInv' BY <1>2, ReadKeeps DEF ReadOwn, server
<1>3. CASE ReadHistory \/ ReadOwnHistory BY <1>3, HistoryKnown, LookChanges DEF ReadHistory, ReadOwnHistory, server
<1>4. CASE Withdraw BY <1>4, ControlKeeps DEF Withdraw, server
<1>5. CASE GiveReason BY <1>5, ControlKeeps DEF GiveReason, SendPatch, server
<1>6. ASSUME NEW a, Press(a) PROVE DeskInv' BY <1>6, ControlKeeps DEF Press, SendPatch, server
<1>7. ASSUME NEW r, Move(r) PROVE DeskInv' BY <1>7, ControlKeeps DEF Move, SendPatch, server
<1>8. CASE Decide BY <1>8, DecideKeeps
<1>9. CASE Reassign BY <1>9, ReassignKeeps
<1>10. ASSUME NEW lost \in BOOLEAN, Settle(lost) PROVE DeskInv' BY <1>10, SettleKeeps
<1> QED BY <1>1, <1>2, <1>3, <1>4, <1>5, <1>6, <1>7, <1>8, <1>9, <1>10 DEF Handle

LEMMA BrowseKeeps == ASSUME Browse PROVE UNCHANGED <<rows, log, look>>
BY DEF Browse, FirstPage, Fire, More, ClearStatus, TypePeriod, ToggleStatus, ChooseResource, Answer, Deliver, Lose,
       Edited, Load, server

LEMMA ColleaguesKeep == ASSUME DeskInv, Others PROVE DeskInv'
<1>1. PICK i \in Ids : \/ \E s \in Occupying : Place(i, s)
                       \/ \E s \in Statuses : Transition(i, s)
                       \/ \E r \in Resources : Hand(i, r)
  BY DEF Others
<1>2. KnownRow(rows[i]) BY DEF DeskInv, Logged
<1>3. Occupying \subseteq Statuses BY DEF Occupying, Statuses
<1>4. ASSUME NEW s \in Statuses, Place(i, s) \/ Transition(i, s) PROVE DeskInv'
  BY <1>2, <1>4, RowChanges, OthersKeep DEF Place, Transition
<1>5. ASSUME NEW r \in Resources, Hand(i, r) PROVE DeskInv'
  <2>1. rows[i].status \in Statuses BY <1>3, <1>5 DEF Hand
  <2>2. PICK row : row = [rows[i] EXCEPT !.rsrc = r] /\ KnownRow(row) /\ row.status = rows[i].status
    BY <1>2, RowMoves
  <2>3. PICK entry : entry = rows[i].status OBVIOUS
  <2>4. Change(i, row, entry) BY <1>5, <2>2, <2>3 DEF Hand
  <2> QED BY <2>1, <2>2, <2>3, <2>4, OthersKeep
<1> QED BY <1>1, <1>3, <1>4, <1>5

LEMMA DeskStep == ASSUME DeskInv, [Next]_vars PROVE DeskInv'
<1>1. ASSUME NEW s, NEW a, Open(s, a) PROVE DeskInv' BY <1>1, DeskUntouched DEF Open, server
<1>2. CASE Browse BY <1>2, BrowseKeeps, DeskUntouched
<1>3. CASE Handle BY <1>3, HandleKeeps
<1>4. CASE Others BY <1>4, ColleaguesKeep
<1>5. ASSUME NEW half, LoadMine(half) PROVE DeskInv' BY <1>5, DeskUntouched DEF LoadMine, server
<1>6. ASSUME NEW w, SetHours(w) PROVE DeskInv' BY <1>6, DeskUntouched DEF SetHours
<1>7. CASE UNCHANGED vars BY <1>7, DeskUntouched DEF vars
<1> QED BY <1>1, <1>2, <1>3, <1>4, <1>5, <1>6, <1>7 DEF Next

(* Rule, field by field. *)
LEMMA RuleFields ==
  ASSUME NEW from, NEW to, NEW by, NEW guard, NEW flags, NEW x, x = Rule(from, to, by, guard, flags)
  PROVE  x.from = from /\ x.to = to /\ x.by = by /\ (x.ownerOnly <=> "ownerOnly" \in flags)
         /\ x.ownerOnly = ("ownerOnly" \in flags)
<1>1. x.from = from /\ x.to = to /\ x.by = by BY DEF Rule
<1>2. x.ownerOnly = ("ownerOnly" \in flags) BY DEF Rule
<1> QED BY <1>1, <1>2, Zenon

(* The rules by which the console moves a reservation from each state. *)
LEMMA FromRequested ==
  /\ \A x \in RULES : x.from = "REQUESTED" /\ "CONSOLE" \in x.by => ~x.ownerOnly /\ x.to \in {"CONFIRMED", "REJECTED", "CANCELED_BY_BIZ"}
  /\ \A to \in {"CONFIRMED", "REJECTED", "CANCELED_BY_BIZ"} :
       \E x \in RULES : x.from = "REQUESTED" /\ "CONSOLE" \in x.by /\ x.to = to
BY RuleFields DEF RULES
LEMMA FromConfirmed ==
  /\ \A x \in RULES : x.from = "CONFIRMED" /\ "CONSOLE" \in x.by => ~x.ownerOnly /\ x.to \in {"COMPLETED", "NO_SHOW", "CANCELED_BY_BIZ"}
  /\ \A to \in {"COMPLETED", "NO_SHOW", "CANCELED_BY_BIZ"} :
       \E x \in RULES : x.from = "CONFIRMED" /\ "CONSOLE" \in x.by /\ x.to = to
BY RuleFields DEF RULES
LEMMA FromCompleted ==
  /\ \A x \in RULES : x.from = "COMPLETED" /\ "CONSOLE" \in x.by => x.ownerOnly /\ x.to = "NO_SHOW"
  /\ \E x \in RULES : x.from = "COMPLETED" /\ "CONSOLE" \in x.by /\ x.to = "NO_SHOW"
BY RuleFields DEF RULES
LEMMA FromNoShow ==
  /\ \A x \in RULES : x.from = "NO_SHOW" /\ "CONSOLE" \in x.by => x.ownerOnly /\ x.to = "COMPLETED"
  /\ \E x \in RULES : x.from = "NO_SHOW" /\ "CONSOLE" \in x.by /\ x.to = "COMPLETED"
BY RuleFields DEF RULES
LEMMA FromEnded ==
  \A x \in RULES : "CONSOLE" \in x.by => x.from \in {"REQUESTED", "CONFIRMED", "COMPLETED", "NO_SHOW"}
BY RuleFields DEF RULES
(* A flag of a rule is TRUE or FALSE. *)
LEMMA EachARule == \A x \in RULES : \E from, to, by, guard, flags : x = Rule(from, to, by, guard, flags)
<1> TAKE x \in RULES
<1> QED BY Zenon DEF RULES

LEMMA OneFlag == ASSUME NEW x \in RULES PROVE \E flags : x.ownerOnly = ("ownerOnly" \in flags)
<1>1. PICK from, to, by, guard, flags : x = Rule(from, to, by, guard, flags) BY EachARule
<1>2. x.ownerOnly = ("ownerOnly" \in flags) BY <1>1, RuleFields
<1> QED BY <1>2

LEMMA FreeFlag == ASSUME NEW x \in RULES, ~x.ownerOnly PROVE x.ownerOnly = FALSE
<1>1. PICK flags : x.ownerOnly = ("ownerOnly" \in flags) BY OneFlag
<1>2. ~("ownerOnly" \in flags) BY <1>1, Zenon
<1>3. ("ownerOnly" \in flags) = FALSE BY <1>2
<1> QED BY <1>1, <1>3, Zenon

LEMMA OwnerFlag == ASSUME NEW x \in RULES, x.ownerOnly PROVE x.ownerOnly = TRUE
<1>1. PICK flags : x.ownerOnly = ("ownerOnly" \in flags) BY OneFlag
<1>2. "ownerOnly" \in flags BY <1>1, Zenon
<1>3. ("ownerOnly" \in flags) = TRUE BY <1>2
<1> QED BY <1>1, <1>3, Zenon

(* What the table lets this member do with a reservation, as buttons. *)
Consoles(st) == {x \in RULES : x.from = st /\ "CONSOLE" \in x.by /\ (x.ownerOnly => me.role = "OWNER")}
Tabled(st) == {Button(rule.to, ReasonRequired(st, rule.to), rule.ownerOnly) : rule \in Consoles(st)}

(* A state whose moves are all free, or all the owner's. *)
LEMMA ButtonsFree ==
  ASSUME NEW st, NEW T,
         \A x \in RULES : x.from = st /\ "CONSOLE" \in x.by => ~x.ownerOnly /\ x.to \in T,
         \A to \in T : \E x \in RULES : x.from = st /\ "CONSOLE" \in x.by /\ x.to = to
  PROVE  Tabled(st) = {Button(to, ReasonRequired(st, to), FALSE) : to \in T}
<1>1. \A x \in Consoles(st) : x.to \in T /\ x.ownerOnly = FALSE BY FreeFlag DEF Consoles
<1>2. \A to \in T : \E x \in Consoles(st) : x.to = to /\ x.ownerOnly = FALSE
  <2> TAKE to \in T
  <2>1. PICK x \in RULES : x.from = st /\ "CONSOLE" \in x.by /\ x.to = to OBVIOUS
  <2>2. ~x.ownerOnly BY <2>1
  <2> QED BY <2>1, <2>2, FreeFlag, Zenon DEF Consoles
<1>3. Tabled(st) \subseteq {Button(to, ReasonRequired(st, to), FALSE) : to \in T}
  <2> SUFFICES ASSUME NEW x \in Consoles(st)
               PROVE Button(x.to, ReasonRequired(st, x.to), x.ownerOnly) \in {Button(to, ReasonRequired(st, to), FALSE) : to \in T}
    BY DEF Tabled
  <2>1. x.to \in T /\ x.ownerOnly = FALSE BY <1>1
  <2> QED BY <2>1, Zenon
<1>4. {Button(to, ReasonRequired(st, to), FALSE) : to \in T} \subseteq Tabled(st)
  <2> SUFFICES ASSUME NEW to \in T PROVE Button(to, ReasonRequired(st, to), FALSE) \in Tabled(st) OBVIOUS
  <2>1. PICK x \in Consoles(st) : x.to = to /\ x.ownerOnly = FALSE BY <1>2
  <2> QED BY <2>1, Zenon DEF Tabled
<1> QED BY <1>3, <1>4

(* A state that only the owner moves. *)
LEMMA ButtonsOwner ==
  ASSUME NEW st, NEW to,
         \A x \in RULES : x.from = st /\ "CONSOLE" \in x.by => x.ownerOnly /\ x.to = to,
         \E x \in RULES : x.from = st /\ "CONSOLE" \in x.by /\ x.to = to
  PROVE  Tabled(st) = IF me.role = "OWNER" THEN {Button(to, ReasonRequired(st, to), TRUE)} ELSE {}
<1>1. \A x \in Consoles(st) : x.to = to /\ x.ownerOnly = TRUE /\ me.role = "OWNER" BY OwnerFlag DEF Consoles
<1>2. CASE me.role # "OWNER"
  <2>1. Consoles(st) = {} BY <1>1, <1>2
  <2> QED BY <2>1, <1>2 DEF Tabled
<1>3. CASE me.role = "OWNER"
  <2>1. PICK x \in Consoles(st) : x.to = to /\ x.ownerOnly = TRUE BY <1>1, <1>3 DEF Consoles
  <2>2. \A y \in Consoles(st) : Button(y.to, ReasonRequired(st, y.to), y.ownerOnly) = Button(to, ReasonRequired(st, to), TRUE)
    BY <1>1, Zenon
  <2>3. Tabled(st) = {Button(to, ReasonRequired(st, to), TRUE)} BY <2>1, <2>2 DEF Tabled
  <2> QED BY <2>3, <1>3
<1> QED BY <1>2, <1>3

LEMMA FlagOf ==
  ASSUME NEW to, NEW reason
  PROVE  Button(to, reason, FALSE).ownerOnly = FALSE /\ Button(to, reason, TRUE).ownerOnly = TRUE
BY DEF Button

(* The reasons the buttons ask for. *)
LEMMA Reasons ==
  /\ \A st \in {"REQUESTED", "CONFIRMED"} :
       /\ \A to \in {"CONFIRMED", "COMPLETED", "NO_SHOW"} : ReasonRequired(st, to) = FALSE
       /\ \A to \in {"REJECTED", "CANCELED_BY_BIZ"} : ReasonRequired(st, to) = TRUE
  /\ \A st \in {"COMPLETED", "NO_SHOW"}, to \in {"COMPLETED", "NO_SHOW"} : ReasonRequired(st, to) = TRUE
BY DEF ReasonRequired

(* The buttons of a state are the table's transitions from it. *)
LEMMA ButtonsOfTable == ASSUME NEW st \in Statuses PROVE Offered(st) = Tabled(st)
<1>1. CASE st = "REQUESTED"
  <2>1. Tabled(st) = {Button(to, ReasonRequired(st, to), FALSE) : to \in {"CONFIRMED", "REJECTED", "CANCELED_BY_BIZ"}}
    <3>1. PICK T : T = {"CONFIRMED", "REJECTED", "CANCELED_BY_BIZ"} OBVIOUS
    <3>2. /\ \A x \in RULES : x.from = st /\ "CONSOLE" \in x.by => ~x.ownerOnly /\ x.to \in T
          /\ \A to \in T : \E x \in RULES : x.from = st /\ "CONSOLE" \in x.by /\ x.to = to
      BY <1>1, <3>1, FromRequested, Zenon
    <3>3. Tabled(st) = {Button(to, ReasonRequired(st, to), FALSE) : to \in T} BY <3>2, ButtonsFree
    <3> QED BY <3>1, <3>3
  <2>2. Buttons(st) = {Button("CONFIRMED", FALSE, FALSE), Button("REJECTED", TRUE, FALSE), Button("CANCELED_BY_BIZ", TRUE, FALSE)}
    BY <1>1 DEF Buttons
  <2>3. Buttons(st) = Tabled(st) BY <1>1, <2>1, <2>2, Reasons
  <2>4. \A a \in Buttons(st) : ~a.ownerOnly BY <2>2, FlagOf
  <2> QED BY <2>3, <2>4 DEF Offered
<1>2. CASE st = "CONFIRMED"
  <2>1. Tabled(st) = {Button(to, ReasonRequired(st, to), FALSE) : to \in {"COMPLETED", "NO_SHOW", "CANCELED_BY_BIZ"}}
    <3>1. PICK T : T = {"COMPLETED", "NO_SHOW", "CANCELED_BY_BIZ"} OBVIOUS
    <3>2. /\ \A x \in RULES : x.from = st /\ "CONSOLE" \in x.by => ~x.ownerOnly /\ x.to \in T
          /\ \A to \in T : \E x \in RULES : x.from = st /\ "CONSOLE" \in x.by /\ x.to = to
      BY <1>2, <3>1, FromConfirmed, Zenon
    <3>3. Tabled(st) = {Button(to, ReasonRequired(st, to), FALSE) : to \in T} BY <3>2, ButtonsFree
    <3> QED BY <3>1, <3>3
  <2>2. Buttons(st) = {Button("COMPLETED", FALSE, FALSE), Button("NO_SHOW", FALSE, FALSE), Button("CANCELED_BY_BIZ", TRUE, FALSE)}
    BY <1>2 DEF Buttons
  <2>3. Buttons(st) = Tabled(st) BY <1>2, <2>1, <2>2, Reasons
  <2>4. \A a \in Buttons(st) : ~a.ownerOnly BY <2>2, FlagOf
  <2> QED BY <2>3, <2>4 DEF Offered
<1>3. CASE st = "COMPLETED"
  <2>1. Tabled(st) = IF me.role = "OWNER" THEN {Button("NO_SHOW", ReasonRequired(st, "NO_SHOW"), TRUE)} ELSE {}
    BY <1>3, FromCompleted, ButtonsOwner
  <2>2. Buttons(st) = {Button("NO_SHOW", TRUE, TRUE)} BY <1>3 DEF Buttons
  <2>3. \A a \in Buttons(st) : a.ownerOnly = TRUE BY <2>2, FlagOf
  <2>4. Offered(st) = IF me.role = "OWNER" THEN Buttons(st) ELSE {} BY <2>3 DEF Offered
  <2> QED BY <1>3, <2>1, <2>2, <2>4, Reasons
<1>4. CASE st = "NO_SHOW"
  <2>1. Tabled(st) = IF me.role = "OWNER" THEN {Button("COMPLETED", ReasonRequired(st, "COMPLETED"), TRUE)} ELSE {}
    BY <1>4, FromNoShow, ButtonsOwner
  <2>2. Buttons(st) = {Button("COMPLETED", TRUE, TRUE)} BY <1>4 DEF Buttons
  <2>3. \A a \in Buttons(st) : a.ownerOnly = TRUE BY <2>2, FlagOf
  <2>4. Offered(st) = IF me.role = "OWNER" THEN Buttons(st) ELSE {} BY <2>3 DEF Offered
  <2> QED BY <1>4, <2>1, <2>2, <2>4, Reasons
<1>5. CASE st \notin {"REQUESTED", "CONFIRMED", "COMPLETED", "NO_SHOW"}
  <2>1. Consoles(st) = {} BY <1>5, FromEnded DEF Consoles
  <2>2. Tabled(st) = {} BY <2>1 DEF Tabled
  <2>3. Buttons(st) = {} BY <1>5 DEF Buttons
  <2> QED BY <2>2, <2>3 DEF Offered
<1> QED BY <1>1, <1>2, <1>3, <1>4, <1>5
(* A reservation's page and its history agree, and its buttons are those of  *)
(* the transition table, for all reservations, members and interleavings of  *)
(* the two statements with the changes of others (getReservation, ACTIONS).  *)
THEOREM PageIsTrue == Spec => []DetailTrue
<1>1. Init => DeskInv
  <2> SUFFICES ASSUME Init PROVE DeskInv OBVIOUS
  <2>1. look = NoLook /\ rows = Booked /\ log = [i \in Ids |-> IF Booked[i].status = "NONE" THEN <<>> ELSE <<Booked[i].status>>]
    BY DEF Init
  <2>2. \A i \in Ids : KnownRow(rows[i]) BY <2>1, DeskAssumption DEF KnownRow, Ids
  <2>3. \A st \in Statuses : <<st>> \in Seq(Statuses) /\ Contains(<<st>>, st) BY DEF Contains
  <2>4. log \in [Ids -> Seq(Statuses)] BY <2>1, <2>2, <2>3 DEF KnownRow
  <2>5. Logged(rows, log) BY <2>1, <2>2, <2>3, <2>4 DEF Logged, KnownRow, Ids
  <2> QED BY <2>1, <2>5, NothingKnown DEF DeskInv
<1>2. DeskInv /\ [Next]_vars => DeskInv' BY DeskStep
<1>3. DeskInv => DetailTrue BY ButtonsOfTable DEF DeskInv, LookKnown, DetailKnown, DetailTrue, Tabled, Consoles
<1> QED BY <1>1, <1>2, <1>3, PTL DEF Spec
=============================================================================
