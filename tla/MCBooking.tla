------------------------------ MODULE MCBooking ------------------------------
(* Small instances of Booking for TLC.  The .cfg files pick the traffic and  *)
(* the sizes; the tables they share are defined here.                        *)
EXTENDS Booking, TLC

CONSTANTS r1, r2, p1, m1, m2, Elsewhere, Cap1, Cap2, AutoConfirm, MaxActive, Deadline

(* One one-to-one service with a buffer after it, which the resources Elsewhere *)
(* do not offer.                                                              *)
MCCatalogue ==
  [p \in Products |-> [links |-> Resources \ Elsewhere, select |-> "AUTO", perSlot |-> 1, maxParty |-> 1,
                       before |-> 0, after |-> 1, duration |-> 1]]

MCMemberOf == [r \in Resources |-> IF r = r1 THEN m1 ELSE m2]
MCCapacity == [r \in Resources |-> IF r = r1 THEN Cap1 ELSE Cap2]

MCPolicy == [autoConfirm |-> AutoConfirm, minLead |-> 0, maxActive |-> MaxActive,
             abuseLimit |-> 1, cancelDeadline |-> Deadline, requestExpire |-> 1,
             autoNoShowAfter |-> 1]
=============================================================================
