-------------------------------- MODULE MCPeople --------------------------------
(* The people of a business: how they are invited, linked to a resource and     *)
(* switched off (Team), and the reminders, notices and reviews of the visits    *)
(* they receive (Visits).  The two share no state; `load` picks the one a       *)
(* behaviour runs.                                                              *)
EXTENDS Team, Visits, TLC

CONSTANTS b1, b2, u1, u2, m1, m2, s1, s2, q1, q2, v1, v2, w1, w2

VARIABLE load

MCHandlers == <<"owner">>

\* Calls (background calls), forms and visits are interchangeable (a tick takes visits of
\* one hour in any order).
Symmetry == UNION {Permutations(S) : S \in {Procs, {w1, w2}, {v1, v2}}}

PeopleInit ==
  /\ load \in {"TEAM", "VISITS"}
  /\ Init /\ VisitsInit
  /\ load # "TEAM" => \A u \in Users : ~user[u].there
  /\ load # "VISITS" => \A v \in {v1, v2} : visit[v].status = "NONE"

PeopleNext ==
  \/ load = "TEAM" /\ Next /\ UNCHANGED <<load, visitVars>>
  \/ load = "VISITS" /\ VisitsNext /\ UNCHANGED <<load, vars>>

PeopleSpec == PeopleInit /\ [][PeopleNext]_<<load, vars, visitVars>>
=================================================================================
