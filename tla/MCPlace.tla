-------------------------------- MODULE MCPlace --------------------------------
(* Two instances of Booking in one run.  PLACE, the one of the .cfg: customers *)
(* place and change, on a one-to-one service of two resources and for a group  *)
(* on the larger one.  EDITS: customers and the counter place and the owner    *)
(* decides and moves, while the owner stores another capacity and switches     *)
(* resources off.  They share their variables; `load` picks the one a          *)
(* behaviour runs.                                                             *)
EXTENDS Booking, TLC

CONSTANTS r1, r2, p1, p2, m1, m2

VARIABLE load

Symmetry == Permutations(Workers) \cup Permutations(Customers)

OneToOne(pick) == [links |-> {r1, r2}, select |-> pick, perSlot |-> 1, maxParty |-> 1,
                   before |-> 0, after |-> 1, duration |-> 1]
Group == [links |-> {r2}, select |-> "AUTO", perSlot |-> 2, maxParty |-> 2,
          before |-> 0, after |-> 0, duration |-> 3]

MCCatalogue == p1 :> OneToOne("OPTIONAL") @@ p2 :> Group
MCPolicy == [autoConfirm |-> FALSE, minLead |-> 0, maxActive |-> 2, abuseLimit |-> 1,
             cancelDeadline |-> 1, requestExpire |-> 1, autoNoShowAfter |-> 1]
MCMemberOf == r1 :> m1 @@ r2 :> m2
MCCapacity == r1 :> 1 @@ r2 :> 2

E == INSTANCE Booking WITH
       Products <- {p1}, Catalogue <- p1 :> OneToOne("AUTO"),
       Policy <- [MCPolicy EXCEPT !.maxActive = 1],
       Capacities <- {1}, Starts <- {1}, MaxTime <- 0,
       Traffic <- {"PLACE", "REASSIGN", "OWNER", "ACTIVE", "WALKIN"},
       Targets <- {"CONFIRMED"}

PlaceInit ==
  \/ load = "PLACE" /\ Init
  \/ load = "EDITS" /\ E!Init

PlaceNext ==
  \/ load = "PLACE" /\ Next /\ UNCHANGED load
  \/ load = "EDITS" /\ E!Next /\ UNCHANGED load

PlaceSpec == PlaceInit /\ [][PlaceNext]_<<load, vars>>
================================================================================
