---------------------------------- MODULE Form ----------------------------------
(***************************************************************************)
(* The form of a product (product/ui/ProductForm.tsx with the hours editor  *)
(* and the presets): what it starts from, what its inputs change, what it    *)
(* sends, and the answer that asks for a confirmation.  Photos are uploaded  *)
(* one after another meanwhile and nothing stops the inputs.  Texts, prices, *)
(* buffers and the way resources are chosen are fields like the party size;  *)
(* opening hours are one value, with SameHours where none are kept.          *)
(***************************************************************************)
EXTENDS Naturals, Sequences, FiniteSets, FiniteSetsExt, TLC

CONSTANTS
  Catalogue,            \* resource -> [type, capacity, isActive]
  Stored,               \* products an edit may start from
  BusinessHours,        \* what the business's hours may be
  Hours, Durations, Times, Sizes, SameHours, NoForm,
  MaxImages, MaxTimes, MaxOptions, MaxStrokes     \* the first three are the code's, the last a bound

(* Having no answer yet is not an answer. *)
ASSUME FormAssumption == NoForm # "AFFECTS_RESERVATIONS"

VARIABLES
  product,     \* the row, NoForm until it is created
  business,    \* the hours of the business
  limited,     \* a manager: texts, photos and status only
  loaded,      \* the row the form was opened with, NoForm for a new product
  d,           \* the draft
  follow, hourRows,   \* "the same as the business", and the editor's rows
  uploads,     \* for each choice of files under way, how many are left
  submission,  \* [body, reply], NoForm when none is under way
  asked,       \* history: the body the server has asked a confirmation for
  strokes

formVars == <<product, business, limited, loaded, d, follow, hourRows, uploads, submission, asked, strokes>>
inputs == <<d, follow, hourRows>>

Opened == d # NoForm
Capacities(rs) == {Catalogue[r].capacity : r \in rs}

-----------------------------------------------------------------------------
(* Where the form starts.  `filled` tells whether the timetable has a day,   *)
(* be it emptied again.                                                     *)

EMPTY == [startMode |-> "FREE", fixed |-> {}, filled |-> FALSE, duration |-> Min(Durations), options |-> {}, capacity |-> 1,
          party |-> 1, resourceIds |-> {}, status |-> "DRAFT", images |-> 0]

(* fromDetail: an archived product is shown as hidden. *)
fromDetail(p) ==
  [f \in DOMAIN EMPTY |-> IF f = "filled" THEN p.fixed # {}
                          ELSE IF f = "status" /\ p.status = "ARCHIVED" THEN "HIDDEN" ELSE p[f]]

CanFollow == business # SameHours

(* A new product follows the business; an old one if it has no hours. *)
Follows(p) == CanFollow /\ (p = NoForm \/ p.hours = SameHours)

(* toRows, fromRows: a day that is off has no entry, a half-typed break is   *)
(* left out.  Hours without an open day are no hours.                       *)
RowsFor(p) == IF p # NoForm /\ p.hours # SameHours THEN p.hours ELSE business

OpenForm(p, wizard) ==
  /\ ~Opened
  /\ loaded' = p /\ product' = p
  /\ d' = IF p # NoForm THEN fromDetail(p)
          ELSE [EMPTY EXCEPT !.status = IF wizard THEN "ACTIVE" ELSE "DRAFT"]
  /\ follow' = Follows(p)
  /\ hourRows' = RowsFor(p)
  /\ UNCHANGED <<business, limited, uploads, submission, asked, strokes>>

-----------------------------------------------------------------------------
(* Presets. *)

PRESETS ==
  [staff |-> [type |-> "STAFF", startMode |-> "FREE", options |-> {}, capacity |-> 1, party |-> 1],
   space |-> [type |-> "SPACE", startMode |-> "FREE", options |-> Durations, capacity |-> 1, party |-> Max(Sizes)],
   class |-> [type |-> "SHARED", startMode |-> "FIXED", options |-> {}, capacity |-> 0, party |-> 2]]

Active == {r \in DOMAIN Catalogue : Catalogue[r].isActive}

(* The active resources of the recommended type, else all; a class takes one. *)
Picks(key) ==
  LET preferred == {r \in Active : Catalogue[r].type = PRESETS[key].type}
      from == IF preferred # {} THEN preferred ELSE Active
  IN  IF key = "class" /\ from # {} THEN {{CHOOSE r \in from : TRUE}} ELSE {from}

applyPreset(key, base) ==
  LET v == PRESETS[key]
      pick == CHOOSE s \in Picks(key) : TRUE
      minCap == IF pick = {} THEN 1 ELSE Min(Capacities(pick))
      cap == IF v.capacity = 0 THEN minCap ELSE v.capacity
  IN  [base EXCEPT !.startMode = v.startMode, !.duration = Min(Durations), !.options = v.options,
                   !.capacity = cap, !.party = IF v.capacity = 1 THEN v.party ELSE Min({v.party, cap}),
                   !.resourceIds = pick,
                   !.fixed = IF v.startMode = "FIXED" /\ ~base.filled THEN Times ELSE @,
                   !.filled = @ \/ v.startMode = "FIXED"]

-----------------------------------------------------------------------------
(* The inputs. *)

Stroke == Opened /\ strokes < MaxStrokes /\ strokes' = strokes + 1

Typed(draft) ==
  /\ d' = draft
  /\ UNCHANGED <<product, business, limited, loaded, follow, hourRows, uploads, submission, asked>>

ChoosePreset(key) ==
  /\ Stroke /\ ~limited /\ loaded = NoForm
  /\ Typed(applyPreset(key, d))

ToggleResource(r) ==
  /\ Stroke /\ ~limited
  /\ Catalogue[r].isActive \/ r \in d.resourceIds
  /\ Typed([d EXCEPT !.resourceIds = IF r \in @ THEN @ \ {r} ELSE @ \cup {r},
                     !.capacity = IF d.resourceIds = {} /\ d.startMode = "FIXED" THEN Catalogue[r].capacity ELSE @])

SetMode(m) == Stroke /\ ~limited /\ m # d.startMode /\ Typed([d EXCEPT !.startMode = m])

(* With options the length is one of them, else any is typed. *)
SetDuration(n) ==
  /\ Stroke /\ ~limited
  /\ d.startMode = "FREE" /\ d.options # {} => n \in d.options
  /\ n # d.duration /\ Typed([d EXCEPT !.duration = n])

SetSize(field, n) == Stroke /\ ~limited /\ n # d[field] /\ Typed([d EXCEPT ![field] = n])

(* addOption, and the button that takes one away: the default stays one. *)
ToggleOption(n) ==
  /\ Stroke /\ ~limited /\ d.startMode = "FREE"
  /\ n \in d.options \/ Cardinality(d.options) < MaxOptions
  /\ LET opts == IF n \in d.options THEN d.options \ {n} ELSE d.options \cup {n}
     IN  Typed([d EXCEPT !.options = opts,
                         !.duration = IF opts # {} /\ d.duration \notin opts THEN Min(opts) ELSE @])

ToggleTime(t) ==
  /\ Stroke /\ ~limited /\ d.startMode = "FIXED"
  /\ t \in d.fixed \/ Cardinality(d.fixed) < MaxTimes
  /\ Typed([d EXCEPT !.fixed = IF t \in @ THEN @ \ {t} ELSE @ \cup {t}, !.filled = TRUE])

SetStatus(s) ==
  /\ Stroke /\ s # d.status
  /\ limited => s # "DRAFT" /\ loaded.status # "DRAFT"
  /\ Typed([d EXCEPT !.status = s])

RemoveImage == Stroke /\ d.images > 0 /\ Typed([d EXCEPT !.images = @ - 1])

(* Ticking leaves the rows; unticking fills in the business's where none are. *)
ToggleFollow ==
  /\ Stroke /\ ~limited /\ CanFollow
  /\ follow' = ~follow
  /\ hourRows' = IF follow /\ hourRows = SameHours THEN business ELSE hourRows
  /\ UNCHANGED <<product, business, limited, loaded, d, uploads, submission, asked>>

(* HoursEditor: days, breaks and quick settings; "all off" leaves no hours. *)
EditHours(h) ==
  /\ Stroke /\ ~limited /\ ~follow /\ h # hourRows
  /\ hourRows' = h
  /\ UNCHANGED <<product, business, limited, loaded, d, follow, uploads, submission, asked>>

WithImage(draft) == [draft EXCEPT !.images = Min({@ + 1, MaxImages})]

(* onFiles: as many files as there is room for now, one after another.       *)
ChooseFiles(n) ==
  /\ Stroke /\ d.images < MaxImages
  /\ uploads' = Append(uploads, Min({n, MaxImages - d.images}))
  /\ UNCHANGED <<product, business, limited, loaded, inputs, submission, asked>>

(* One of them is done; without storage the rest is given up. *)
Uploaded(k, outcome) ==
  /\ uploads[k] > 0
  /\ uploads' = [uploads EXCEPT ![k] = IF outcome = "NO_STORAGE" THEN 0 ELSE @ - 1]
  /\ d' = IF outcome = "OK" THEN WithImage(d) ELSE d
  /\ UNCHANGED <<product, business, limited, loaded, follow, hourRows, submission, asked, strokes>>

AddUrl == Stroke /\ Typed(WithImage(d))

-----------------------------------------------------------------------------
(* What is sent. *)

body ==
  IF limited
  THEN [images |-> d.images, status |-> IF d.status = "DRAFT" THEN NoForm ELSE d.status]
  ELSE [f \in (DOMAIN d \ {"filled"}) \cup {"hours"} |->
          CASE f = "fixed" /\ d.startMode = "FREE" -> {}
            [] f = "options" /\ d.startMode = "FIXED" -> {}
            [] f = "hours" -> IF follow THEN SameHours ELSE hourRows
            [] OTHER -> d[f]]

Sent(b, confirm) == submission' = [body |-> b, confirm |-> confirm, reply |-> NoForm]

SubmitForm ==
  /\ Stroke /\ submission = NoForm
  /\ Sent(body, FALSE)
  /\ UNCHANGED <<product, business, limited, loaded, inputs, uploads, asked>>

(* productInputSchema and checkAgainstBusiness. *)
WellFormed(b) ==
  /\ b.startMode = "FREE" /\ b.options # {} => b.duration \in b.options
  /\ b.startMode = "FIXED" => b.options = {} /\ b.fixed # {}
  /\ b.capacity > 1 => b.party <= b.capacity
  /\ b.images <= MaxImages /\ b.resourceIds # {}

Fits(b) ==
  LET types == {Catalogue[r].type : r \in b.resourceIds}
      kept == IF product = NoForm THEN {} ELSE product.resourceIds
  IN  /\ \A r \in b.resourceIds \ kept : Catalogue[r].isActive
      /\ ~({"STAFF", "SHARED"} \subseteq types)
      /\ b.capacity <= Min(Capacities(b.resourceIds))
      /\ b.hours # SameHours \/ business # SameHours

SHAPE_KEYS == {"startMode", "fixed", "duration", "options", "capacity", "resourceIds"}

ShapeChanged(b) == \E k \in SHAPE_KEYS : b[k] # product[k]

Replies(text) == submission' = [submission EXCEPT !.reply = text]

(* Archived from the list of products meanwhile. *)
Archive ==
  /\ loaded # NoForm /\ product.status # "ARCHIVED"
  /\ product' = [product EXCEPT !.status = "ARCHIVED"]
  /\ UNCHANGED <<business, limited, loaded, inputs, uploads, submission, asked, strokes>>

(* The server.  With reservations to come a change of shape needs a          *)
(* confirmation; hours may be refused for what is booked outside them.      *)
Save ==
  /\ submission # NoForm /\ submission.reply = NoForm
  /\ LET b == submission.body
     IN  IF product # NoForm /\ product.status = "ARCHIVED"
         THEN Replies("ARCHIVED") /\ UNCHANGED <<product, asked>>
         ELSE IF limited
         THEN /\ Replies("OK")
              /\ product' = IF product.status = "DRAFT" \/ b.status = NoForm THEN [product EXCEPT !.images = b.images]
                            ELSE [product EXCEPT !.images = b.images, !.status = b.status]
              /\ UNCHANGED asked
         ELSE \/ ~WellFormed(b) /\ Replies("INVALID_BODY") /\ UNCHANGED <<product, asked>>
              \/ WellFormed(b) /\ ~Fits(b) /\ Replies("INVALID_BODY") /\ UNCHANGED <<product, asked>>
              \/ /\ WellFormed(b) /\ product # NoForm /\ b.hours # product.hours
                 /\ Replies("HOURS_CONFLICT") /\ UNCHANGED <<product, asked>>
              \/ /\ WellFormed(b) /\ Fits(b) /\ product # NoForm /\ ShapeChanged(b) /\ ~submission.confirm
                 /\ Replies("AFFECTS_RESERVATIONS") /\ asked' = b /\ UNCHANGED product
              \/ /\ WellFormed(b) /\ Fits(b)
                 /\ Replies("OK") /\ product' = b /\ UNCHANGED asked
  /\ UNCHANGED <<business, limited, loaded, inputs, uploads, strokes>>

(* Mutant: the confirmation sends what the form shows by now. *)
ConfirmedBodyNow(s) == body

(* The answer's closure still has the draft that was sent. *)
ConfirmedBody(s) == s.body

(* A new product leaves the form; an answer that asks is confirmed or not. *)
Answered(lost, yes) ==
  /\ submission # NoForm /\ (lost \/ submission.reply # NoForm)
  /\ IF ~lost /\ submission.reply = "AFFECTS_RESERVATIONS" /\ yes
     THEN Sent(ConfirmedBody(submission), TRUE) /\ UNCHANGED inputs
     ELSE /\ submission' = NoForm
          /\ IF ~lost /\ submission.reply = "OK" /\ loaded = NoForm
             THEN d' = NoForm /\ UNCHANGED <<follow, hourRows>> ELSE UNCHANGED inputs
  /\ uploads' = IF d' = NoForm THEN <<>> ELSE uploads
  /\ UNCHANGED <<product, business, limited, loaded, asked, strokes>>

FormInit ==
  /\ product = NoForm /\ loaded = NoForm /\ d = NoForm
  /\ business \in BusinessHours /\ limited \in BOOLEAN
  /\ follow = TRUE /\ hourRows = SameHours /\ uploads = <<>>
  /\ submission = NoForm /\ asked = NoForm /\ strokes = 0

FormNext ==
  \/ \E p \in Stored : OpenForm(p, FALSE)
  \/ \E w \in BOOLEAN : ~limited /\ OpenForm(NoForm, w)
  \/ \E key \in DOMAIN PRESETS : ChoosePreset(key)
  \/ \E r \in DOMAIN Catalogue : ToggleResource(r)
  \/ \E m \in {"FREE", "FIXED"} : SetMode(m)
  \/ \E n \in Durations : SetDuration(n) \/ ToggleOption(n)
  \/ \E f \in {"capacity", "party"}, n \in Sizes : SetSize(f, n)
  \/ \E t \in Times : ToggleTime(t)
  \/ \E s \in {"DRAFT", "ACTIVE", "HIDDEN"} : SetStatus(s)
  \/ RemoveImage \/ ToggleFollow \/ AddUrl
  \/ \E h \in Hours \cup {SameHours} : EditHours(h)
  \/ \E n \in 1..2 : ChooseFiles(n)
  \/ \E k \in DOMAIN uploads, o \in {"OK", "FAILED", "NO_STORAGE"} : Uploaded(k, o)
  \/ SubmitForm \/ Save \/ Archive
  \/ \E lost, yes \in BOOLEAN : Answered(lost, yes)

FormSpec == FormInit /\ [][FormNext]_formVars

-----------------------------------------------------------------------------
(* What is saved over reservations to come is what the member was asked      *)
(* about, whatever was typed or uploaded in between (submit's confirmation). *)
ConfirmedAsAsked ==
  submission # NoForm /\ submission.confirm => submission.body = asked

=============================================================================
