-------------------------------- MODULE MCStaff --------------------------------
(* Two instances of Shifts in one run.  MOVES, the one of the .cfg: swaps whose *)
(* reservations move along.  LEAVE: time off is entered, asked for, decided and *)
(* deleted on a day with a holiday.  They share their variables; `load` picks   *)
(* the one a behaviour runs.                                                    *)
EXTENDS MCShifts, TLC

VARIABLE load

\* One span touches the first shift and overlaps the second; the other covers the break.
L == INSTANCE Shifts WITH
       XIds <- {3, 4}, Staff <- {1},
       Traffic <- {"EXCEPTION", "CRASH"},
       Catalogue <- [p \in Products |-> [Catalogue[p] EXCEPT !.links = {1}]],
       CapacityOf <- [r \in {1} |-> 1],
       Pattern <- [r \in {1} |-> Pattern[r]],
       Holidays <- [r \in {1} |-> [d \in Days |-> {Interval(4, 5)}]],
       Spans <- {Interval(3, 5), Interval(2, 5)}

Symmetry == Permutations(Workers)

StaffInit ==
  \/ load = "MOVES" /\ Init
  \/ load = "LEAVE" /\ L!Init

StaffNext ==
  \/ load = "MOVES" /\ MovesNext /\ UNCHANGED load
  \/ load = "LEAVE" /\ L!Next /\ UNCHANGED load

StaffSpec == StaffInit /\ [][StaffNext]_<<load, vars>>

(* resolveWorkDay computes the ranking its comment states, for every mix of   *)
(* the exceptions people enter on a day, two that differ included.            *)
LeaveAsRanked == load = "LEAVE" => L!WorkAsRanked
================================================================================
