----------------------------- MODULE RulesProofs -----------------------------
(***************************************************************************)
(* What the occupancy test of ReservationRules promises of any table: if   *)
(* it lets a row in, or lets several rows in at once as a swap does, no    *)
(* instant of the resource is sold beyond its capacity by them.            *)
(* Heads are counted as elements of a set, so that sums become             *)
(* cardinalities.                                                          *)
(***************************************************************************)
EXTENDS ReservationRules, FiniteSetTheorems, TLAPS

(* A bounded set of numbers has the maximum that Max chooses. *)
LEMMA MaxOf ==
  ASSUME NEW S \in SUBSET Nat, S # {}, NEW n \in Nat, \A x \in S : x <= n
  PROVE  Max(S) \in S /\ \A y \in S : y <= Max(S)
<1> DEFINE T == {n - x : x \in S}
<1>1. T \subseteq Nat /\ T # {}
  <2>1. \A x \in S : n - x \in Nat OBVIOUS
  <2>2. PICK x \in S : TRUE OBVIOUS
  <2>3. n - x \in T OBVIOUS
  <2> QED BY <2>1, <2>3
<1>2. IsWellFoundedOn(OpToRel(<, Nat), Nat) BY NatLessThanWellFounded
<1>3. PICK a \in T : \A b \in T : ~(<<b, a>> \in OpToRel(<, Nat))
  <2> HIDE DEF T
  <2> QED BY <1>1, <1>2, WFMin
<1>4. \A b \in T : ~(b < a)
  <2> SUFFICES ASSUME NEW b \in T, b < a PROVE FALSE OBVIOUS
  <2>1. <<b, a>> \in Nat \X Nat BY <1>1
  <2> QED BY <2>1, <1>3 DEF OpToRel
<1>5. PICK x \in S : a = n - x OBVIOUS
<1>6. \A y \in S : x >= y
  <2> SUFFICES ASSUME NEW y \in S PROVE x >= y OBVIOUS
  <2>1. n - y \in T OBVIOUS
  <2>2. ~(n - y < a) BY <2>1, <1>4
  <2> QED BY <2>2, <1>5
<1> QED BY <1>6 DEF Max

-----------------------------------------------------------------------------
(* Heads. *)

(* The rows `ids` of t are timed and have somebody in them. *)
Typed(t, ids) ==
  \A i \in ids : t[i].lo \in Int /\ t[i].hi \in Int /\ t[i].lo < t[i].hi /\ t[i].party \in Nat \ {0}

(* There are finitely many of them. *)
LEMMA HeadsFinite ==
  ASSUME NEW t, NEW ids, IsFiniteSet(ids), \A i \in ids : t[i].party \in Nat
  PROVE  IsFiniteSet(Heads(t, ids)) /\ Cardinality(Heads(t, ids)) \in Nat
<1> DEFINE group(i) == {i} \X (1..t[i].party)
           F == {group(i) : i \in ids}
           f == [i \in ids |-> group(i)]
<1>1. f \in Surjection(ids, F) BY DEF Surjection
<1>2. IsFiniteSet(F)
  <2> HIDE DEF f, F
  <2> QED BY <1>1, FS_Surjection
<1>3. ASSUME NEW i \in ids PROVE IsFiniteSet(group(i))
  <2>1. IsFiniteSet({i}) BY FS_Singleton
  <2>2. IsFiniteSet(1..t[i].party) BY FS_Interval
  <2> QED BY <2>1, <2>2, FS_Product
<1>4. \A T \in F : IsFiniteSet(T) BY <1>3
<1>5. IsFiniteSet(UNION F)
  <2> HIDE DEF F
  <2> QED BY <1>2, <1>4, FS_UNION
<1>6. IsFiniteSet(Heads(t, ids)) BY <1>5 DEF Heads
<1> QED BY <1>6, FS_CardinalityType

(* Fewer rows, fewer heads. *)
LEMMA HeadsSubset ==
  ASSUME NEW t, NEW u, NEW ids, NEW more, IsFiniteSet(more), ids \subseteq more,
         \A i \in more : t[i].party \in Nat,
         \A i \in ids : u[i].party = t[i].party
  PROVE  Cardinality(Heads(u, ids)) <= Cardinality(Heads(t, more))
<1>1. Heads(u, ids) \subseteq Heads(t, more) BY DEF Heads
<1>2. IsFiniteSet(Heads(t, more)) BY HeadsFinite
<1> QED BY <1>1, <1>2, FS_Subset

(* One row more adds its party. *)
LEMMA HeadsAdd ==
  ASSUME NEW t, NEW ids, IsFiniteSet(ids), NEW m, m \notin ids,
         \A i \in ids \cup {m} : t[i].party \in Nat
  PROVE  Cardinality(Heads(t, ids \cup {m})) = Cardinality(Heads(t, ids)) + t[m].party
<1> DEFINE G == {m} \X (1..t[m].party)
           H == Heads(t, ids)
<1>1. Heads(t, ids \cup {m}) = H \cup G BY DEF Heads
<1>2. H \cap G = {} BY DEF Heads
<1>3. IsFiniteSet(H) /\ Cardinality(H) \in Nat BY HeadsFinite
<1>4. IsFiniteSet({m}) /\ Cardinality({m}) = 1 BY FS_Singleton
<1>5. t[m].party \in Nat OBVIOUS
<1>6. IsFiniteSet(1..t[m].party) /\ Cardinality(1..t[m].party) = t[m].party
  <2> PICK k \in Nat : k = t[m].party BY <1>5
  <2>1. 1 \in Int /\ k \in Int OBVIOUS
  <2>2. IsFiniteSet(1..k) /\ Cardinality(1..k) = IF 1 > k THEN 0 ELSE k - 1 + 1
    BY <2>1, FS_Interval, Zenon
  <2>3. (IF 1 > k THEN 0 ELSE k - 1 + 1) = k OBVIOUS
  <2> QED BY <2>2, <2>3
<1>7. IsFiniteSet(G) /\ Cardinality(G) = t[m].party
  <2>1. /\ IsFiniteSet(G)
        /\ Cardinality(G) = Cardinality({m}) * Cardinality(1..t[m].party)
    BY <1>4, <1>6, FS_Product
  <2> QED BY <2>1, <1>4, <1>5, <1>6
<1>8. Cardinality(H \cup G) = Cardinality(H) + Cardinality(G) - Cardinality(H \cap G)
  <2> HIDE DEF H, G
  <2> QED BY <1>3, <1>7, FS_Union
<1>9. Cardinality(H \cap G) = 0 BY <1>2, FS_EmptySet
<1> DEFINE a == Cardinality(H \cup G)
           b == Cardinality(H)
           c == Cardinality(G)
<1>10. a = b + c - 0 BY <1>8, <1>9
<1>11. b \in Nat /\ c \in Nat /\ c = t[m].party BY <1>3, <1>5, <1>7
<1>12. Cardinality(Heads(t, ids \cup {m})) = a /\ Cardinality(Heads(t, ids)) = b BY <1>1
<1> HIDE DEF a, b, c
<1> QED BY <1>10, <1>11, <1>12

-----------------------------------------------------------------------------
(* The peak. *)

(* Two tables that agree on the rows counted have the same peak. *)
LEMMA PeakSame ==
  ASSUME NEW a, NEW b, NEW t, NEW u, NEW ids, a.lo = b.lo, a.hi = b.hi,
         \A i \in ids : t[i].lo = u[i].lo /\ t[i].hi = u[i].hi /\ t[i].party = u[i].party
  PROVE  PeakOccupancy(a, t, ids) = PeakOccupancy(b, u, ids)
<1> DEFINE hit(x, r) == {i \in ids : Overlaps(x[i], r)}
           points(x, r) == {r.lo} \cup {x[i].lo : i \in {j \in hit(x, r) : x[j].lo >= r.lo}}
           sums(x, r) == {PartyAt(x, hit(x, r), p) : p \in points(x, r)}
<1>1. hit(t, a) = hit(u, b) BY DEF Overlaps
<1>2. points(t, a) = points(u, b) BY <1>1
<1>3. ASSUME NEW p PROVE PartyAt(t, hit(t, a), p) = PartyAt(u, hit(u, b), p)
  <2>1. PresentAt(t, hit(t, a), p) = PresentAt(u, hit(u, b), p) BY <1>1 DEF PresentAt
  <2>2. PresentAt(t, hit(t, a), p) \subseteq ids BY DEF PresentAt
  <2>3. Heads(t, PresentAt(t, hit(t, a), p)) = Heads(u, PresentAt(u, hit(u, b), p))
    BY <2>1, <2>2 DEF Heads
  <2> QED BY <2>3 DEF PartyAt
<1>4. sums(t, a) = sums(u, b) BY <1>2, <1>3
<1>5. /\ PeakOccupancy(a, t, ids) = IF hit(t, a) = {} THEN 0 ELSE Max(sums(t, a))
      /\ PeakOccupancy(b, u, ids) = IF hit(u, b) = {} THEN 0 ELSE Max(sums(u, b))
  BY DEF PeakOccupancy
<1> HIDE DEF hit, points, sums
<1> QED BY <1>1, <1>4, <1>5

(* At the start of the range, and at every start inside it, no more people *)
(* are present than at the peak.                                           *)
LEMMA PeakIsMost ==
  ASSUME NEW range, NEW t, NEW ids, IsFiniteSet(ids), Typed(t, ids), range.lo \in Int,
         NEW p, p = range.lo \/ (\E i \in ids : Overlaps(t[i], range) /\ p = t[i].lo /\ p >= range.lo)
  PROVE  LET present == {i \in ids : Overlaps(t[i], range) /\ t[i].lo <= p /\ p < t[i].hi}
         IN  /\ Cardinality(Heads(t, present)) <= PeakOccupancy(range, t, ids)
             /\ PeakOccupancy(range, t, ids) \in Nat
<1> DEFINE hit == {i \in ids : Overlaps(t[i], range)}
           points == {range.lo} \cup {t[i].lo : i \in {j \in hit : t[j].lo >= range.lo}}
           sums == {PartyAt(t, hit, q) : q \in points}
           present == {i \in ids : Overlaps(t[i], range) /\ t[i].lo <= p /\ p < t[i].hi}
<1>1. IsFiniteSet(hit) /\ \A i \in ids : t[i].party \in Nat BY FS_Subset DEF Typed
<1>2. CASE hit = {}
  <2>1. PeakOccupancy(range, t, ids) = 0 BY <1>2 DEF PeakOccupancy
  <2>2. present = {} BY <1>2
  <2>3. Heads(t, present) = {} BY <2>2 DEF Heads
  <2> QED BY <2>1, <2>3, FS_EmptySet
<1>3. CASE hit # {}
  <2> DEFINE all == Cardinality(Heads(t, hit))
  <2>1. all \in Nat BY <1>1, HeadsFinite
  <2>2. ASSUME NEW q PROVE PartyAt(t, hit, q) \in Nat /\ PartyAt(t, hit, q) <= all
    <3>1. PresentAt(t, hit, q) \subseteq hit BY DEF PresentAt
    <3>2. IsFiniteSet(PresentAt(t, hit, q)) BY <3>1, <1>1, FS_Subset
    <3>3. Cardinality(Heads(t, PresentAt(t, hit, q))) \in Nat
      BY <3>1, <3>2, <1>1, HeadsFinite
    <3>4. Cardinality(Heads(t, PresentAt(t, hit, q))) <= Cardinality(Heads(t, hit))
      BY <3>1, <1>1, HeadsSubset
    <3> QED BY <3>3, <3>4 DEF PartyAt
  <2>3. sums \in SUBSET Nat /\ sums # {} BY <2>2
  <2>4. \A x \in sums : x <= all BY <2>2
  <2>5. Max(sums) \in sums /\ \A y \in sums : y <= Max(sums)
    <3> HIDE DEF sums, all
    <3> QED BY <2>1, <2>3, <2>4, MaxOf
  <2>6. p \in points BY DEF Overlaps
  <2>7. PartyAt(t, hit, p) \in sums BY <2>6
  <2>8. PresentAt(t, hit, p) = present BY DEF PresentAt
  <2>9. PeakOccupancy(range, t, ids) = Max(sums) BY <1>3 DEF PeakOccupancy
  <2> HIDE DEF sums, points, hit, present
  <2> QED BY <2>3, <2>5, <2>7, <2>8, <2>9 DEF PartyAt, present
<1> QED BY <1>2, <1>3

(* With fewer rows the peak is no higher. *)
LEMMA PeakFewer ==
  ASSUME NEW range, NEW t, NEW u, NEW ids, NEW more, IsFiniteSet(more), ids \subseteq more,
         Typed(t, more), range.lo \in Int,
         \A i \in ids : u[i].lo = t[i].lo /\ u[i].hi = t[i].hi /\ u[i].party = t[i].party
  PROVE  /\ PeakOccupancy(range, u, ids) <= PeakOccupancy(range, t, more)
         /\ PeakOccupancy(range, u, ids) \in Nat /\ PeakOccupancy(range, t, more) \in Nat
<1> DEFINE hit == {i \in ids : Overlaps(u[i], range)}
           points == {range.lo} \cup {u[i].lo : i \in {j \in hit : u[j].lo >= range.lo}}
           sums == {PartyAt(u, hit, q) : q \in points}
           most == PeakOccupancy(range, t, more)
<1>1. most \in Nat BY PeakIsMost
<1>2. CASE hit = {}
  <2>1. PeakOccupancy(range, u, ids) = 0 BY <1>2 DEF PeakOccupancy
  <2> HIDE DEF most
  <2>2. 0 <= most BY <1>1
  <2> QED BY <1>1, <2>1, <2>2 DEF most
<1>3. CASE hit # {}
  <2>1. ASSUME NEW p \in points PROVE PartyAt(u, hit, p) \in Nat /\ PartyAt(u, hit, p) <= most
    <3> DEFINE there == {i \in more : Overlaps(t[i], range) /\ t[i].lo <= p /\ p < t[i].hi}
               here == PresentAt(u, hit, p)
    <3>1. \/ p = range.lo
          \/ \E i \in more : Overlaps(t[i], range) /\ p = t[i].lo /\ p >= range.lo
      BY DEF Overlaps
    <3>2. Cardinality(Heads(t, there)) <= most BY <3>1, PeakIsMost
    <3>3. here \subseteq there BY DEF PresentAt, Overlaps
    <3>4. there \subseteq more /\ here \subseteq ids BY DEF PresentAt
    <3>5. IsFiniteSet(there) /\ IsFiniteSet(here) BY <3>3, <3>4, FS_Subset
    <3>6. /\ \A i \in there : t[i].party \in Nat
          /\ \A i \in here : u[i].party = t[i].party /\ u[i].party \in Nat
      BY <3>3, <3>4 DEF Typed
    <3> HIDE DEF there, here, most
    <3>7. Cardinality(Heads(u, here)) <= Cardinality(Heads(t, there))
      BY <3>3, <3>5, <3>6, HeadsSubset
    <3>8. Cardinality(Heads(u, here)) \in Nat /\ Cardinality(Heads(t, there)) \in Nat
      BY <3>5, <3>6, HeadsFinite
    <3> QED BY <1>1, <3>2, <3>7, <3>8 DEF PartyAt, here
  <2>2. sums \in SUBSET Nat /\ sums # {} /\ \A x \in sums : x <= most BY <2>1
  <2>3. Max(sums) \in sums
    <3> HIDE DEF sums, most
    <3> QED BY <1>1, <2>2, MaxOf
  <2>4. PeakOccupancy(range, u, ids) = Max(sums) BY <1>3 DEF PeakOccupancy
  <2> HIDE DEF sums, most
  <2> QED BY <1>1, <2>2, <2>3, <2>4 DEF most
<1> QED BY <1>2, <1>3

-----------------------------------------------------------------------------
(* Room. *)

(* What both occupancy tests come to for row m beside the rows `others`. *)
RoomBeside(t, m, others, capacity) ==
  \/ \A j \in others : ~Overlaps(t[j], t[m])
  \/ PeakOccupancy(t[m], t, others) + t[m].party <= capacity

(* Row m found room among the rows of r; rows that do not touch it may have *)
(* been left out of the count.                                              *)
FoundRoom(t, r, m, capacity) ==
  \E others \in SUBSET (OccupyingOn(t, r) \ {m}) :
    /\ \A j \in OccupyingOn(t, r) \ {m} : j \in others \/ ~Overlaps(t[j], t[m])
    /\ RoomBeside(t, m, others, capacity)

(* A larger capacity leaves that room. *)
LEMMA RoomGrows ==
  ASSUME NEW t, NEW r, NEW m, NEW capacity \in Nat, NEW larger \in Nat, capacity <= larger,
         IsFiniteSet(OccupyingOn(t, r)), Typed(t, OccupyingOn(t, r)),
         t[m].lo \in Int, t[m].party \in Nat, FoundRoom(t, r, m, capacity)
  PROVE  FoundRoom(t, r, m, larger)
<1>1. PICK others \in SUBSET (OccupyingOn(t, r) \ {m}) :
        /\ \A j \in OccupyingOn(t, r) \ {m} : j \in others \/ ~Overlaps(t[j], t[m])
        /\ RoomBeside(t, m, others, capacity)
  BY DEF FoundRoom
<1>2. IsFiniteSet(others) /\ Typed(t, others) BY FS_Subset DEF Typed
<1>3. PeakOccupancy(t[m], t, others) \in Nat BY <1>2, PeakIsMost
<1>4. RoomBeside(t, m, others, larger) BY <1>1, <1>3 DEF RoomBeside
<1> QED BY <1>1, <1>4 DEF FoundRoom

(* Where a row that found room is present at the start of another, that *)
(* instant is not oversold.                                             *)
LEMMA RoomAtInstant ==
  ASSUME NEW t, NEW r, NEW capacity \in Nat,
         IsFiniteSet(OccupyingOn(t, r)), Typed(t, OccupyingOn(t, r)),
         NEW m \in OccupyingOn(t, r), FoundRoom(t, r, m, capacity),
         NEW i \in OccupyingOn(t, r), m \in PresentAt(t, OccupyingOn(t, r), t[i].lo)
  PROVE  LET present == PresentAt(t, OccupyingOn(t, r), t[i].lo)
         IN  present = {i} \/ Cardinality(Heads(t, present)) <= capacity
<1> DEFINE occ == OccupyingOn(t, r)
           p == t[i].lo
           P == PresentAt(t, occ, p)
<1> PICK others \in SUBSET (occ \ {m}) :
           /\ \A j \in occ \ {m} : j \in others \/ ~Overlaps(t[j], t[m])
           /\ RoomBeside(t, m, others, capacity)
  BY DEF FoundRoom
<1> HIDE DEF occ
<1>1. /\ IsFiniteSet(occ) /\ Typed(t, occ) /\ m \in occ /\ i \in occ /\ m \in P
      /\ t[m].lo \in Int /\ t[m].hi \in Int /\ t[m].party \in Nat
      /\ t[i].lo \in Int /\ t[i].hi \in Int /\ t[i].lo < t[i].hi
  BY DEF occ, Typed
<1>2. t[m].lo <= p /\ p < t[m].hi BY <1>1 DEF PresentAt
<1>3. i \in P BY <1>1 DEF PresentAt
<1>4. ASSUME NEW j \in P PROVE Overlaps(t[j], t[m])
  <2>1. j \in occ /\ t[j].lo <= p /\ p < t[j].hi BY DEF PresentAt
  <2>2. t[j].lo \in Int /\ t[j].hi \in Int BY <2>1, <1>1 DEF Typed
  <2> QED BY <2>1, <2>2, <1>1, <1>2 DEF Overlaps
<1>5. P \ {m} \subseteq others BY <1>4 DEF PresentAt
<1>6. CASE \A j \in others : ~Overlaps(t[j], t[m])
  <2>1. P = {m} BY <1>1, <1>4, <1>5, <1>6
  <2> QED BY <2>1, <1>3 DEF occ
<1>7. CASE PeakOccupancy(t[m], t, others) + t[m].party <= capacity
  <2> DEFINE present == {j \in others : Overlaps(t[j], t[m]) /\ t[j].lo <= p /\ p < t[j].hi}
  <2>1. IsFiniteSet(others) /\ Typed(t, others) BY <1>1, FS_Subset DEF Typed
  <2>2. p = t[m].lo \/ (\E j \in others : Overlaps(t[j], t[m]) /\ p = t[j].lo /\ p >= t[m].lo)
    <3>1. CASE i = m BY <3>1
    <3>2. CASE i # m
      <4>1. i \in others /\ Overlaps(t[i], t[m]) BY <3>2, <1>3, <1>4, <1>5
      <4> QED BY <4>1, <1>1, <1>2
    <3> QED BY <3>1, <3>2
  <2>3. /\ Cardinality(Heads(t, present)) <= PeakOccupancy(t[m], t, others)
        /\ PeakOccupancy(t[m], t, others) \in Nat
    <3> HIDE DEF p
    <3> QED BY <2>1, <2>2, <1>1, PeakIsMost
  <2>4. present = P \ {m} BY <1>4, <1>5 DEF PresentAt
  <2>5. P = present \cup {m} /\ m \notin present BY <2>4, <1>1
  <2>6. IsFiniteSet(present) /\ \A j \in present \cup {m} : t[j].party \in Nat
    BY <2>1, <1>1, FS_Subset DEF Typed
  <2>7. Cardinality(Heads(t, present \cup {m})) = Cardinality(Heads(t, present)) + t[m].party
    <3> HIDE DEF present
    <3> QED BY <2>5, <2>6, HeadsAdd
  <2>8. Cardinality(Heads(t, present)) \in Nat
    <3> HIDE DEF present
    <3> QED BY <2>6, HeadsFinite
  <2>9. Cardinality(Heads(t, P)) <= capacity
    <3> HIDE DEF P, present
    <3> QED BY <2>3, <2>5, <2>7, <2>8, <1>1, <1>7
  <2> QED BY <2>9 DEF occ
<1> QED BY <1>6, <1>7 DEF RoomBeside

(* If every row that is new or has moved found room, counting what came with *)
(* it, and the other rows were there before, then a resource that was not    *)
(* oversold is not oversold now.                                             *)
THEOREM RoomSuffices ==
  ASSUME NEW t, NEW u, NEW r, NEW capacity \in Nat, NEW fresh,
         IsFiniteSet(OccupyingOn(t, r)), Typed(t, OccupyingOn(t, r)),
         IsFiniteSet(OccupyingOn(u, r)), Typed(u, OccupyingOn(u, r)),
         \A i \in OccupyingOn(u, r) \ fresh :
           /\ i \in OccupyingOn(t, r)
           /\ u[i].lo = t[i].lo /\ u[i].hi = t[i].hi /\ u[i].party = t[i].party,
         \A m \in OccupyingOn(u, r) \cap fresh : FoundRoom(u, r, m, capacity),
         NotOversold(t, r, capacity)
  PROVE  NotOversold(u, r, capacity)
<1> DEFINE before == OccupyingOn(t, r)
           after == OccupyingOn(u, r)
<1> SUFFICES ASSUME NEW i \in after
             PROVE  LET present == PresentAt(u, after, u[i].lo)
                    IN  present = {i} \/ Cardinality(Heads(u, present)) <= capacity
  BY DEF NotOversold
<1> DEFINE P == PresentAt(u, after, u[i].lo)
           Q == PresentAt(t, before, t[i].lo)
<1>1. CASE \E m \in P : m \in fresh
  <2> PICK m \in P : m \in fresh BY <1>1
  <2>1. m \in after BY DEF PresentAt
  <2>2. FoundRoom(u, r, m, capacity) BY <2>1
  <2> QED BY <2>1, <2>2, RoomAtInstant
<1>2. CASE \A m \in P : m \notin fresh
  <2>1. i \in P
    <3> HIDE DEF after
    <3> QED BY DEF PresentAt, Typed, after
  <2>2. \A j \in P : /\ j \in before /\ u[j].lo = t[j].lo /\ u[j].hi = t[j].hi
                     /\ u[j].party = t[j].party
    BY <1>2 DEF PresentAt
  <2>3. P \subseteq Q BY <2>1, <2>2 DEF PresentAt
  <2>4. Q = {i} \/ Cardinality(Heads(t, Q)) <= capacity BY <2>1, <2>2 DEF NotOversold
  <2>5. CASE Q = {i} BY <2>1, <2>3, <2>5
  <2>6. CASE Cardinality(Heads(t, Q)) <= capacity
    <3>1. IsFiniteSet(Q) /\ \A j \in Q : t[j].party \in Nat BY FS_Subset DEF PresentAt, Typed
    <3>2. IsFiniteSet(P) BY <2>3, <3>1, FS_Subset
    <3>3. \A j \in P : u[j].party = t[j].party /\ u[j].party \in Nat BY <2>2, <2>3, <3>1
    <3>4. Cardinality(Heads(u, P)) <= Cardinality(Heads(t, Q))
      <4> HIDE DEF P, Q
      <4> QED BY <2>3, <3>1, <3>3, HeadsSubset
    <3>5. Cardinality(Heads(u, P)) \in Nat /\ Cardinality(Heads(t, Q)) \in Nat
      <4> HIDE DEF P, Q
      <4> QED BY <3>1, <3>2, <3>3, HeadsFinite
    <3> HIDE DEF P, Q
    <3>6. Cardinality(Heads(u, P)) <= capacity BY <2>6, <3>4, <3>5
    <3> QED BY <3>6 DEF P
  <2> QED BY <2>4, <2>5, <2>6
<1> QED BY <1>1, <1>2

(* Both occupancy tests say that there is room: the one of an existing     *)
(* reservation, which may still be elsewhere in the table that was read ...  *)
LEMMA ExistingFoundRoom ==
  ASSUME NEW t, NEW u, NEW r, NEW capacity, NEW m, NEW row, NEW excl,
         FitsExisting(m, row, row.party, excl, t, r, capacity),
         u[m].lo = row.lo, u[m].hi = row.hi, u[m].party = row.party,
         OccupyingOn(u, r) \ {m} = OccupyingOn(t, r) \ {m},
         \A i \in OccupyingOn(t, r) \ {m} :
           u[i].lo = t[i].lo /\ u[i].hi = t[i].hi /\ u[i].party = t[i].party
  PROVE  FoundRoom(u, r, m, capacity)
<1> DEFINE others == OccupyingOn(t, r) \ {m}
<1>1. CASE \A i \in others : ~Overlaps(t[i], row)
  <2>1. \A i \in others : ~Overlaps(u[i], u[m]) BY <1>1 DEF Overlaps
  <2> QED BY <2>1 DEF FoundRoom, RoomBeside
<1>2. CASE PeakOccupancy(row, t, others) + row.party <= capacity
  <2>1. PeakOccupancy(u[m], u, others) = PeakOccupancy(row, t, others)
    <3>1. \A i \in others : u[i].lo = t[i].lo /\ u[i].hi = t[i].hi /\ u[i].party = t[i].party
      OBVIOUS
    <3> HIDE DEF others
    <3> QED BY <3>1, PeakSame
  <2>2. RoomBeside(u, m, others, capacity) BY <1>2, <2>1 DEF RoomBeside
  <2> QED BY <2>2 DEF FoundRoom
<1> QED BY <1>1, <1>2 DEF FitsExisting

(* ... and the one of a new reservation, against the resource's capacity. *)
LEMMA NewFoundRoom ==
  ASSUME NEW t, NEW u, NEW r, NEW capacity \in Nat, NEW perSlot \in Nat, NEW m, NEW row,
         IsFiniteSet(OccupyingOn(t, r)), Typed(t, OccupyingOn(t, r)),
         row.lo \in Int, row.party \in Nat,
         FitsNew(row, row.party, t, r, perSlot, capacity),
         u[m].lo = row.lo, u[m].hi = row.hi, u[m].party = row.party,
         OccupyingOn(u, r) \ {m} = OccupyingOn(t, r),
         \A i \in OccupyingOn(t, r) :
           u[i].lo = t[i].lo /\ u[i].hi = t[i].hi /\ u[i].party = t[i].party
  PROVE  FoundRoom(u, r, m, capacity)
<1> DEFINE occ == OccupyingOn(t, r)
           cap == Lesser(perSlot, capacity)
<1>1. cap \in Nat /\ cap <= capacity BY DEF Lesser
<1>2. CASE cap = 1
  <2>1. \A i \in occ : ~Overlaps(t[i], row) BY <1>2 DEF FitsNew
  <2>2. \A i \in occ : ~Overlaps(u[i], u[m]) BY <2>1 DEF Overlaps
  <2> QED BY <2>2 DEF FoundRoom, RoomBeside
<1>3. CASE cap # 1
  <2>1. PeakOccupancy(row, t, occ) + row.party <= cap BY <1>3 DEF FitsNew
  <2>2. PeakOccupancy(row, t, occ) \in Nat BY PeakIsMost
  <2>3. PeakOccupancy(u[m], u, occ) = PeakOccupancy(row, t, occ)
    <3> HIDE DEF occ
    <3> QED BY PeakSame DEF occ
  <2>4. PeakOccupancy(u[m], u, occ) + u[m].party <= capacity
    <3> HIDE DEF occ, cap
    <3> QED BY <2>1, <2>2, <2>3, <1>1
  <2> QED BY <2>4 DEF FoundRoom, RoomBeside
<1> QED BY <1>2, <1>3

(* Room that there was in a table is there in one that takes no more of the *)
(* resource: for a new reservation ...                                      *)
LEMMA NewStillFits ==
  ASSUME NEW t, NEW u, NEW r, NEW a, NEW b, NEW party \in Nat,
         NEW perSlot \in Nat, NEW capacity \in Nat,
         IsFiniteSet(OccupyingOn(t, r)), Typed(t, OccupyingOn(t, r)),
         a.lo \in Int, a.lo = b.lo, a.hi = b.hi,
         OccupyingOn(u, r) \subseteq OccupyingOn(t, r),
         \A i \in OccupyingOn(u, r) :
           u[i].lo = t[i].lo /\ u[i].hi = t[i].hi /\ u[i].party = t[i].party,
         FitsNew(a, party, t, r, perSlot, capacity)
  PROVE  FitsNew(b, party, u, r, perSlot, capacity)
<1> DEFINE cap == Lesser(perSlot, capacity)
           was == PeakOccupancy(a, t, OccupyingOn(t, r))
           is == PeakOccupancy(a, u, OccupyingOn(u, r))
<1>1. cap \in Nat BY DEF Lesser
<1>2. CASE cap = 1 BY <1>2 DEF FitsNew, Overlaps
<1>3. CASE cap # 1
  <2>1. is <= was /\ is \in Nat /\ was \in Nat BY PeakFewer
  <2>2. PeakOccupancy(b, u, OccupyingOn(u, r)) = is BY PeakSame
  <2>3. was + party <= cap BY <1>3 DEF FitsNew
  <2> HIDE DEF was, is, cap
  <2>4. is + party <= cap BY <1>1, <2>1, <2>3
  <2> QED BY <1>3, <2>2, <2>4 DEF FitsNew, cap
<1> QED BY <1>2, <1>3

(* ... and for an existing one. *)
LEMMA ExistingStillFits ==
  ASSUME NEW t, NEW u, NEW r, NEW id, NEW a, NEW b, NEW party \in Nat, NEW excl,
         NEW capacity \in Nat,
         IsFiniteSet(OccupyingOn(t, r)), Typed(t, OccupyingOn(t, r)),
         a.lo \in Int, a.lo = b.lo, a.hi = b.hi,
         OccupyingOn(u, r) \ {id} \subseteq OccupyingOn(t, r) \ {id},
         \A i \in OccupyingOn(u, r) \ {id} :
           u[i].lo = t[i].lo /\ u[i].hi = t[i].hi /\ u[i].party = t[i].party,
         FitsExisting(id, a, party, excl, t, r, capacity)
  PROVE  FitsExisting(id, b, party, excl, u, r, capacity)
<1> DEFINE before == OccupyingOn(t, r) \ {id}
           after == OccupyingOn(u, r) \ {id}
           was == PeakOccupancy(a, t, before)
           is == PeakOccupancy(a, u, after)
<1>1. CASE excl \/ capacity = 1 BY <1>1 DEF FitsExisting, Overlaps
<1>2. CASE ~(excl \/ capacity = 1)
  <2>1. IsFiniteSet(before) /\ Typed(t, before) BY FS_Subset DEF Typed
  <2>2. is <= was /\ is \in Nat /\ was \in Nat
    <3> HIDE DEF before, after
    <3> QED BY <2>1, PeakFewer DEF before, after
  <2>3. PeakOccupancy(b, u, after) = is BY PeakSame
  <2>4. was + party <= capacity BY <1>2 DEF FitsExisting
  <2> HIDE DEF was, is
  <2>5. is + party <= capacity BY <2>2, <2>4
  <2> QED BY <1>2, <2>3, <2>5 DEF FitsExisting
<1> QED BY <1>1, <1>2
=============================================================================
