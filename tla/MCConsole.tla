-------------------------------- MODULE MCConsole --------------------------------
(* The console's screens: the reservation desk, the roster and the product    *)
(* form.  They share no state; `load` picks the one a behaviour opens.        *)
EXTENDS Desk, Grid, Form, TLC

CONSTANTS r1, r2, none, any, sa, sb, sc, c1, c2

B(s, e, before, after, r, st) == [start |-> s, end |-> e, before |-> before, after |-> after,
                                  seats |-> 1, rsrc |-> r, status |-> st]
MCBooked == 1 :> B(6, 7, 0, 1, r1, "REQUESTED") @@ 2 :> B(6, 8, 0, 0, r2, "CONFIRMED")
         @@ 3 :> B(3, 5, 1, 0, r1, "NONE")
         @@ 4 :> B(9, 10, 0, 0, r2, "EXPIRED") @@ 5 :> B(8, 9, 0, 0, r1, "NO_SHOW")
Owner == [role |-> "OWNER", mine |-> r1, all |-> TRUE]
MCActors == {Owner, [role |-> "MANAGER", mine |-> r1, all |-> FALSE]}
MCDrafts == {<<1, 1>>, <<0, 0>>, <<2, 1>>}
MCFirst == <<1, 1>>
Win(lo, hi) == {[lo |-> lo, hi |-> hi]}
MCWindows == {[k \in -2..5 |-> Win(0, 4)], [k \in -2..5 |-> Win(1, 6)],
              [k \in -2..5 |-> IF k % 2 = 0 THEN {} ELSE Win(1, 7)], [k \in -2..5 |-> Win(2, 5)]}
MCDates == 0..3

R(t, n, on) == [type |-> t, capacity |-> n, isActive |-> on]
MCCatalogue == sa :> R("STAFF", 1, TRUE) @@ sb :> R("SHARED", 2, TRUE) @@ sc :> R("SPACE", 2, FALSE)
P(m, fixed, options, cap, rs, hours, st) ==
  [startMode |-> m, fixed |-> fixed, duration |-> 1, options |-> options, capacity |-> cap, party |-> 1,
   resourceIds |-> rs, status |-> st, images |-> 1, hours |-> hours]
MCStored == {P("FREE", {}, {1, 2}, 1, {sa}, "own", "ACTIVE"), P("FIXED", {1}, {}, 2, {sb, sc}, "same", "DRAFT")}

VARIABLE load

ConsoleInit ==
  /\ load \in {"DESK", "GRID", "FORM"}
  /\ Init /\ GridInit /\ FormInit
  /\ load # "GRID" => \A x \in XIds : exceptions[x] = Nothing
  /\ load # "FORM" => business = "biz" /\ ~limited

ConsoleNext ==
  \/ load = "DESK" /\ Next /\ UNCHANGED <<gridVars, formVars, load>>
  \/ load = "GRID" /\ GridNext /\ UNCHANGED <<vars, formVars, load>>
  \/ load = "FORM" /\ FormNext /\ UNCHANGED <<vars, gridVars, load>>

ConsoleSpec == ConsoleInit /\ [][ConsoleNext]_<<vars, gridVars, formVars, load>>
==================================================================================
