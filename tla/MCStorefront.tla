------------------------------ MODULE MCStorefront ------------------------------
(* What customers are offered and how they pick it: the hours, products, work   *)
(* patterns and holidays slots are cut from, and the bookings they lead to      *)
(* (Shop), and the booking widget in a browser (Widget).  They share no state;  *)
(* `load` picks the one a behaviour runs.                                       *)
EXTENDS Shop, Widget, TLC

CONSTANTS c1, c2, p1, r1, r2, any, none, lesson, haircut, room

-----------------------------------------------------------------------------
(* Days of four units, weeks of two days.  A shop that closes an hour after  *)
(* midnight, one that has a break, one that is closed every other day.       *)
Entry(dow, open, close, breaks) == [dow |-> dow, open |-> open, close |-> close, breaks |-> breaks]
Pause(a, b) == [start |-> a, end |-> b]

Night == {Entry(0, 2, 2, {}), Entry(1, 2, 2, {})}
Pausing == {Entry(0, 0, 0, {Pause(2, 3)}), Entry(1, 0, 0, {Pause(2, 3)})}
Short == {Entry(0, 1, 3, {})}
MCHoursForms == {Night, Pausing, Short}

Staff == [staff |-> TRUE, capacity |-> 2, active |-> TRUE]
Room  == [staff |-> FALSE, capacity |-> 2, active |-> TRUE]
MCResources == r1 :> Staff @@ r2 :> Room

Lesson == [status |-> "ACTIVE", mode |-> "FREE", hours |-> {}, fixed |-> {}, interval |-> 1,
           duration |-> 2, options |-> {}, before |-> 0, after |-> 1, perSlot |-> 2,
           maxParty |-> 2, pick |-> "NONE", resources |-> {r1, r2}]
Class == [Lesson EXCEPT !.mode = "FIXED", !.after = 0, !.resources = {r2},
                        !.fixed = {[dow |-> 0, time |-> 0], [dow |-> 1, time |-> 1]}]
MCProductForms == {[Lesson EXCEPT !.perSlot = 1], Class, [Lesson EXCEPT !.hours = Short]}

MCPatternForms == {{[dow |-> 0, start |-> 1, end |-> 3, breaks |-> {}]},
                   {[dow |-> 1, start |-> 0, end |-> 3, breaks |-> {Pause(1, 2)}]}}

Holiday(type, on, full) == [rsrc |-> any, type |-> type, from |-> 0, until |-> Forever, on |-> on,
                            fullDay |-> full, start |-> 2, end |-> 3]
MCHolidayForms == {Holiday("WEEKLY", 1, TRUE), Holiday("MONTHLY_DAY", 0, FALSE)}

MCExceptions == {[rsrc |-> r1, date |-> 1, kind |-> "EXTRA", start |-> 2, end |-> 3],
                 [rsrc |-> r2, date |-> 0, kind |-> "BLOCK", start |-> 3, end |-> 0]}
NoRows == {}
Symmetry == Permutations(Callers)

-----------------------------------------------------------------------------
(* A lesson for one or two without a person, a haircut by a person who may be *)
(* named last, and a room taken by the hour, named first.                    *)
MCCatalogue ==
  lesson :> [pick |-> "none", durations |-> {1}, maxParty |-> 2, resources |-> {r1}]
  @@ haircut :> [pick |-> "step4", durations |-> {1}, maxParty |-> 1, resources |-> {r2}]
  @@ room :> [pick |-> "step1", durations |-> {1, 2}, maxParty |-> 1, resources |-> {r1}]

MCSeats == r1 :> 2 @@ r2 :> 1
MCDates == 1..2

VARIABLE load

StorefrontInit ==
  /\ load \in {"SHOP", "WIDGET"}
  /\ Init /\ WidgetInit
  /\ load # "SHOP" => \A p \in Products : product[p] = InitProduct
  /\ load # "WIDGET" => page.signedIn /\ Sel.product = lesson /\ bookings = <<>>

StorefrontNext ==
  \/ load = "SHOP" /\ Next /\ UNCHANGED <<load, widgetVars>>
  \/ load = "WIDGET" /\ WidgetNext /\ UNCHANGED <<load, vars>>

StorefrontSpec == StorefrontInit /\ [][StorefrontNext]_<<load, vars, widgetVars>>
=================================================================================
