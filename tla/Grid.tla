---------------------------------- MODULE Grid ----------------------------------
(***************************************************************************)
(* The work roster's screen (schedule/ui/ScheduleGrid.tsx): the editor of a *)
(* cell with its draft and the conflicts it was told of, the list of leave  *)
(* that waits for the owner, and one request at a time, while colleagues    *)
(* change the exceptions.  Inputs and cells stay usable while a request is  *)
(* under way.  Whether reservations are in the way is left open here: what  *)
(* createException, decideException and deleteException do is in Shifts.    *)
(***************************************************************************)
EXTENDS Naturals, FiniteSets

CONSTANTS
  Cells,        \* a resource on a date
  OwnCells,     \* those of the member who looks, when a manager
  Roles, XIds, Spans, Nothing,
  MaxPresses, MaxOthers    \* bounds

(* Having no answer yet is not an answer. *)
ASSUME GridAssumption == Nothing \notin {"EXCEPTION_CONFLICT", "LOST"}

VARIABLES
  exceptions,   \* work_exceptions: id -> row, Nothing while unused
  role,         \* who looks; Nothing until the page is opened
  week,         \* the rows the page was drawn with
  editing, draft, conflicts,   \* the open cell with its rows then, the form, the warning
  deciding,     \* the leave being decided: [id, conflicts, rejecting]
  request,      \* what is under way: busy
  told,         \* history: what the server has answered conflicts to
  presses, others

gridVars == <<exceptions, role, week, editing, draft, conflicts, deciding, request, told, presses, others>>
form == <<editing, draft, conflicts, deciding>>

Kinds == {"OFF", "MODIFIED", "BLOCK", "EXTRA"}
Rows == {exceptions[x] : x \in {y \in XIds : exceptions[y] # Nothing}}
Busy == request # Nothing
Mine(c) == role = "OWNER" \/ c \in OwnCells

(* listLeaveRequests: what the owner decides, or the manager's own. *)
LeaveRequests(rows) ==
  {x \in rows : IF role = "OWNER" THEN x.status = "PENDING" ELSE Mine(x.cell) /\ x.status # "APPROVED"}

Draft(mode, kind, allDay, span) == [mode |-> mode, kind |-> kind, allDay |-> allDay, span |-> span]
Fresh == Draft("DIRECT", "BLOCK", TRUE, CHOOSE s \in Spans : TRUE)

(* A manager's leave is a day off, or a block of hours. *)
EffectiveKind(d) ==
  IF role = "MANAGER" /\ d.mode = "LEAVE" THEN (IF d.allDay THEN "OFF" ELSE "BLOCK") ELSE d.kind

Presses == presses < MaxPresses /\ presses' = presses + 1

-----------------------------------------------------------------------------
(* The editor. *)

OpenPage(r) ==
  /\ role = Nothing /\ role' = r
  /\ week' = Rows
  /\ UNCHANGED <<exceptions, form, request, told, presses, others>>

(* open: a cell, also while a request is under way. *)
OpenCell(c) ==
  /\ role # Nothing /\ Mine(c) /\ Presses
  /\ editing' = [cell |-> c, shown |-> {x \in week : x.cell = c /\ (x.status # "REJECTED" \/ Mine(c))}]
  /\ draft' = Fresh
  /\ conflicts' = FALSE
  /\ UNCHANGED <<exceptions, role, week, deciding, request, told, others>>

(* What the form offers: the owner a kind, the manager a mode and a range. *)
Changes ==
  IF role = "OWNER" THEN {[draft EXCEPT !.kind = k] : k \in Kinds}
  ELSE {[draft EXCEPT !.mode = "DIRECT", !.kind = "BLOCK"], [draft EXCEPT !.mode = "LEAVE"]}
       \cup (IF draft.mode = "LEAVE" THEN {[draft EXCEPT !.allDay = b] : b \in BOOLEAN} ELSE {})

(* setDraft: the conflicts shown are void. *)
SetDraft(d) ==
  /\ editing # Nothing /\ Presses
  /\ d # draft
  /\ \/ d \in Changes
     \/ EffectiveKind(draft) # "OFF" /\ \E s \in Spans : d = [draft EXCEPT !.span = s]
  /\ draft' = d
  /\ conflicts' = FALSE
  /\ UNCHANGED <<exceptions, role, week, editing, deciding, request, told, others>>

CloseCell ==
  /\ editing # Nothing /\ ~Busy /\ Presses
  /\ editing' = Nothing
  /\ UNCHANGED <<exceptions, role, week, draft, conflicts, deciding, request, told, others>>

Asked(d, c) ==
  LET k == EffectiveKind(d)
  IN  [cell |-> c, kind |-> k, span |-> IF k = "OFF" THEN Nothing ELSE d.span,
       leave |-> role = "MANAGER" /\ d.mode = "LEAVE"]

Sends(to, what, confirm) ==
  /\ ~Busy /\ Presses
  /\ request' = [to |-> to, what |-> what, confirm |-> confirm, reply |-> Nothing]
  /\ UNCHANGED <<exceptions, role, week, told, others>>

(* submit: the owner's button is another once conflicts are shown. *)
Submit ==
  /\ editing # Nothing
  /\ Sends("CREATE", Asked(draft, editing.cell), conflicts /\ role = "OWNER")
  /\ UNCHANGED form

(* A manager takes back what waits, was rejected, or blocked at once. *)
Removable(x) == role = "OWNER" \/ x.status # "APPROVED" \/ (x.kind = "BLOCK" /\ ~x.decided)

(* remove: a chip of the open cell, or one of the manager's own requests. *)
RemoveRow(x) ==
  /\ \/ editing # Nothing /\ x \in editing.shown /\ Removable(x)
     \/ role = "MANAGER" /\ x \in LeaveRequests(week)
  /\ Sends("DELETE", x.id, FALSE)
  /\ UNCHANGED form

-----------------------------------------------------------------------------
(* Leave that waits for the owner. *)

Waiting == IF role = "OWNER" THEN {x.id : x \in LeaveRequests(week)} ELSE {}

(* Mutant: whichever request the conflicts were of. *)
ShownOfAny(id) == IF deciding # Nothing THEN deciding ELSE [id |-> id, conflicts |-> FALSE, rejecting |-> FALSE]

(* The row of a request shows what is being decided about this one. *)
ShownOf(id) ==
  IF deciding # Nothing /\ deciding.id = id THEN deciding ELSE [id |-> id, conflicts |-> FALSE, rejecting |-> FALSE]

(* decide: rejecting first, the override after conflicts, approval else. *)
PressDecision(id) ==
  /\ id \in Waiting
  /\ LET d == ShownOf(id)
     IN  Sends(IF d.rejecting THEN "REJECT" ELSE "APPROVE", id, ~d.rejecting /\ d.conflicts)
  /\ UNCHANGED form

StartRejecting(id) ==
  /\ id \in Waiting /\ ~Busy /\ Presses
  /\ ~ShownOf(id).rejecting /\ ~ShownOf(id).conflicts
  /\ deciding' = [id |-> id, conflicts |-> FALSE, rejecting |-> TRUE]
  /\ UNCHANGED <<exceptions, role, week, editing, draft, conflicts, request, told, others>>

StopDeciding ==
  /\ deciding # Nothing /\ deciding.id \in Waiting /\ ~Busy /\ Presses
  /\ deciding' = Nothing
  /\ UNCHANGED <<exceptions, role, week, editing, draft, conflicts, request, told, others>>

-----------------------------------------------------------------------------
(* The server. *)

Reply(text) == request' = [request EXCEPT !.reply = text]
Answers == Busy /\ request.reply = Nothing

Duplicate(w) ==
  w.kind \in {"OFF", "MODIFIED"} /\ \E x \in Rows : x.cell = w.cell /\ x.kind = w.kind /\ x.status # "REJECTED"

Row(id, w, status) == [id |-> id, cell |-> w.cell, kind |-> w.kind, status |-> status, decided |-> FALSE]

InTheWay(cause) == Reply(cause) /\ told' = told \cup {<<request.to, request.what>>} /\ UNCHANGED exceptions

Create ==
  /\ Answers /\ request.to = "CREATE"
  /\ LET w == request.what
     IN  \/ Duplicate(w) /\ Reply("EXCEPTION_EXISTS") /\ UNCHANGED <<exceptions, told>>
         \/ /\ ~Duplicate(w) /\ ~w.leave /\ w.kind # "EXTRA" /\ ~request.confirm
            /\ InTheWay(IF role = "OWNER" THEN "EXCEPTION_CONFLICT" ELSE "BLOCK_HAS_RESERVATIONS")
         \/ /\ ~Duplicate(w)
            /\ \E x \in {y \in XIds : exceptions[y] = Nothing} :
                 exceptions' = [exceptions EXCEPT ![x] = Row(x, w, IF w.leave THEN "PENDING" ELSE "APPROVED")]
            /\ Reply("OK") /\ UNCHANGED told
  /\ UNCHANGED <<role, week, form, presses, others>>

Decided(x, to) == [exceptions EXCEPT ![x].status = to, ![x].decided = TRUE]

Pending(x) == exceptions[x] # Nothing /\ exceptions[x].status = "PENDING"

DecideLeave ==
  /\ Answers /\ request.to \in {"APPROVE", "REJECT"}
  /\ LET x == request.what
     IN  IF ~Pending(x) THEN Reply("NOT_PENDING") /\ UNCHANGED <<exceptions, told>>
         ELSE \/ request.to = "APPROVE" /\ ~request.confirm /\ InTheWay("EXCEPTION_CONFLICT")
              \/ /\ exceptions' = Decided(x, IF request.to = "APPROVE" THEN "APPROVED" ELSE "REJECTED")
                 /\ Reply("OK") /\ UNCHANGED told
  /\ UNCHANGED <<role, week, form, presses, others>>

MayDelete(x) == role = "OWNER" \/ (Mine(x.cell) /\ ~(x.status = "APPROVED" /\ (x.kind # "BLOCK" \/ x.decided)))

Delete ==
  /\ Answers /\ request.to = "DELETE"
  /\ LET x == request.what
     IN  IF exceptions[x] = Nothing THEN Reply("NOT_FOUND") /\ UNCHANGED exceptions
         ELSE IF ~MayDelete(exceptions[x]) THEN Reply("NOT_OWN_RESOURCE") /\ UNCHANGED exceptions
         ELSE exceptions' = [exceptions EXCEPT ![x] = Nothing] /\ Reply("OK")
  /\ UNCHANGED <<role, week, form, told, presses, others>>

-----------------------------------------------------------------------------
(* The answer arrives, or is lost and counts as refused.  What is being      *)
(* edited by then may be something else.                                    *)

Refreshes == week' = Rows

Receive(lost) ==
  /\ Busy /\ (lost \/ request.reply # Nothing)
  /\ request' = Nothing
  /\ LET reply == IF lost THEN "LOST" ELSE request.reply
     IN  CASE request.to = "CREATE" ->
                IF reply = "OK"
                THEN /\ editing' = Nothing /\ conflicts' = FALSE /\ Refreshes
                     /\ UNCHANGED <<draft, deciding>>
                ELSE /\ conflicts' = (conflicts \/ reply \in {"EXCEPTION_CONFLICT", "BLOCK_HAS_RESERVATIONS"})
                     /\ UNCHANGED <<week, editing, draft, deciding>>
           [] request.to = "DELETE" ->
                /\ Refreshes
                /\ editing' = IF reply = "OK" THEN Nothing ELSE editing
                /\ UNCHANGED <<draft, conflicts, deciding>>
           [] OTHER ->
                IF reply = "OK" THEN deciding' = Nothing /\ Refreshes /\ UNCHANGED <<editing, draft, conflicts>>
                ELSE /\ deciding' = IF reply = "EXCEPTION_CONFLICT"
                                    THEN [id |-> request.what, conflicts |-> TRUE, rejecting |-> FALSE]
                                    ELSE deciding
                     /\ UNCHANGED <<week, editing, draft, conflicts>>
  /\ UNCHANGED <<exceptions, role, told, presses, others>>

(* Colleagues: leave asked for, blocks put, decisions, deletions. *)
Colleague(x) ==
  /\ role # Nothing /\ others < MaxOthers /\ others' = others + 1
  /\ \/ /\ exceptions[x] = Nothing
        /\ \E c \in Cells, k \in {"OFF", "BLOCK"}, st \in {"PENDING", "APPROVED"} :
             exceptions' = [exceptions EXCEPT ![x] = Row(x, [cell |-> c, kind |-> k], st)]
     \/ Pending(x) /\ \E to \in {"APPROVED", "REJECTED"} : exceptions' = Decided(x, to)
     \/ exceptions[x] # Nothing /\ exceptions' = [exceptions EXCEPT ![x] = Nothing]
  /\ UNCHANGED <<role, week, form, request, told, presses>>

GridInit ==
  /\ exceptions \in [XIds -> {Nothing}] \cup
       UNION {{[x \in XIds |-> Row(x, [cell |-> c[x], kind |-> k], "PENDING")] : k \in {"OFF", "BLOCK"}} :
                c \in [XIds -> Cells]}
  /\ role = Nothing /\ week = {} /\ editing = Nothing /\ draft = Fresh /\ conflicts = FALSE
  /\ deciding = Nothing /\ request = Nothing /\ told = {} /\ presses = 0 /\ others = 0

GridNext ==
  \/ \E r \in Roles : OpenPage(r)
  \/ \E c \in Cells : OpenCell(c)
  \/ \E d \in {Draft(m, k, b, s) : m \in {"DIRECT", "LEAVE"}, k \in Kinds, b \in BOOLEAN, s \in Spans} : SetDraft(d)
  \/ CloseCell \/ Submit \/ StopDeciding
  \/ \E x \in week \cup (IF editing = Nothing THEN {} ELSE editing.shown) : RemoveRow(x)
  \/ \E x \in XIds : PressDecision(x) \/ StartRejecting(x) \/ Colleague(x)
  \/ Create \/ DecideLeave \/ Delete
  \/ \E lost \in BOOLEAN : Receive(lost)

GridSpec == GridInit /\ [][GridNext]_gridVars

-----------------------------------------------------------------------------
(* Leave is approved over reservations only after the server has named those *)
(* of this very request: a warning never moves to the row of another one,    *)
(* whatever was answered late, cancelled or decided by others (deciding.id). *)
ApprovedAsShown ==
  Busy /\ request.to = "APPROVE" /\ request.confirm => <<"APPROVE", request.what>> \in told

=============================================================================
