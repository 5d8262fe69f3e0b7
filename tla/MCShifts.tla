------------------------------- MODULE MCShifts -------------------------------
(* Small instances of Shifts for TLC; the .cfg files pick traffic and sizes. *)
EXTENDS Shifts

CONSTANTS p1, Cap1, Cap2, Direct, Both

(* One service every member of staff offers; a day is 8 units. *)
MCCatalogue ==
  [p \in Products |-> [links |-> Staff, direct |-> Direct, before |-> 0, after |-> 1,
                       duration |-> 1, perSlot |-> IF Cap1 = 1 /\ Cap2 = 1 THEN 1 ELSE 2]]
MCCapacity == [r \in Staff |-> IF r = 1 THEN Cap1 ELSE Cap2]

(* Staff 1 works from 1 to 6 with a break, staff 2 only where Both is set. *)
MCPattern ==
  [r \in Staff |-> [d \in Days |->
     IF r = 1 THEN {Interval(1, 3), Interval(4, 6)}
     ELSE IF d \in Both THEN {Interval(1, 4)} ELSE {}]]

MCHolidays == [r \in Staff |-> [d \in Days |-> {}]]

MCSpans == {}

(* Swaps, bookings and cancellations only: the steps these workers can take of *)
(* Next when no exception is asked for, no clock runs and nothing crashes.    *)
(* Exceptions, crashes and the batch job have runs of their own.              *)
Swapping(s) ==
  \/ RequestSwap(s) \/ ActOnSwap(s)
  \/ InsertSwap(s) \/ NoSwapLeft(s) \/ SetStatus(s) \/ StatusChanged(s)
  \/ Preview(s) \/ PreviewRefuse(s) \/ LockResource(s) \/ Apply(s) \/ ApplyRefuse(s)
  \/ CommitApproval(s)

Moving(s) == MoveReservation(s) \/ MoveFails(s) \/ RequestPlace(s) \/ Book(s)

MovesNext ==
  \/ \E s \in Workers : Swapping(s) \/ Moving(s)
  \/ \E i \in Ids : CancelReservation(i)
  \/ Rest

MovesSpec == Init /\ [][MovesNext]_vars

(* The calls about swaps among workers who have no bookings to move, with the *)
(* clock and the batch job: all of Next that happens where only swaps are asked *)
(* for, and the fairness Shifts has.                                         *)
CallsNext ==
  \/ \E s \in Workers : Swapping(s)
  \/ \E s \in Crons : ListDue(s) \/ ExpireSwap(s)
  \/ Tick
  \/ Rest

CallsSpec == Init /\ [][CallsNext]_vars /\ Fairness
=============================================================================
