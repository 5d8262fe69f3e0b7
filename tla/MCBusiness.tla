------------------------------- MODULE MCBusiness -------------------------------
(* The life of a business before and beside its reservations: applied for,      *)
(* verified, decided, blocked and purged (Onboarding), its address, its public  *)
(* home and the answers that are kept of it (Site).  The two share no state;    *)
(* `load` picks what a behaviour runs: SIGNUP the first, LINKS an address that  *)
(* is changed there and back, RACE parallel changes up to the limit.            *)
EXTENDS Onboarding, Site, TLC

CONSTANTS x1, x2, u1, u2, e1, e2, g1, g2, r1, r2, p1, p2

VARIABLE load

\* b2 has nothing to sell; it may take an address b1 has left.
MCTemp == [b \in Businesses |-> IF b = "b1" THEN "t1" ELSE "t2"]
MCOwnerOf == [x \in Products \cup Resources |-> "b1"]

all == <<load, vars, siteVars>>
InSite(A) == load # "SIGNUP" /\ A /\ UNCHANGED <<load, vars>>
Asks(c, S) == call'[c] # NoCall => call'[c].slug \in S

BusinessInit ==
  /\ load \in {"SIGNUP", "LINKS", "RACE"}
  /\ Init /\ SiteInit
  /\ load # "SIGNUP" => \A u \in Users : ~user[u].there

BusinessNext ==
  \/ load = "SIGNUP" /\ Next /\ UNCHANGED <<load, siteVars>>
  \/ load = "LINKS" /\ InSite(SiteNext) /\ calls' < 4 /\ Asks("c1", Visited) /\ Asks("c2", {})
  \/ /\ load = "RACE" /\ InSite(SiteNext) /\ edits' = 0 /\ slug'["b2"] = "t2"
     /\ \A s \in Visited \ {"x"} : visit'[s] = NoVisit
     /\ Asks("c1", {"v", "w", "x"}) /\ Asks("c2", {"y"})
     /\ \A c \in Callers : call'[c] # NoCall => call'[c].biz = "b1"

\* The fairness of SiteSpec.
BusinessSpec ==
  /\ BusinessInit /\ [][BusinessNext]_all
  /\ \A s \in Visited :
       /\ WF_all(InSite(Visit(s))) /\ WF_all(InSite(Rendering(s))) /\ WF_all(InSite(Age(s)))
  /\ \A c \in Callers : WF_all(InSite(Changing(c)))
=================================================================================
