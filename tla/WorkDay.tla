-------------------------------- MODULE WorkDay --------------------------------
(***************************************************************************)
(* One member of staff, one day: the working hours that follow from the    *)
(* weekly pattern, the exceptions of the day and the holidays              *)
(* (features/schedule/resolve.ts), as interval arithmetic the way the code *)
(* does it, and as the ranking its comments state.  Times are units of the *)
(* day from 0 to DayLen (1440 minutes in the code).                        *)
(* A list of intervals is a set here: only its order is lost.              *)
(***************************************************************************)
EXTENDS Integers, Sequences, FiniteSets, FiniteSetsExt, SequencesExt, TLC

CONSTANT DayLen

ASSUME DayAssumption == DayLen \in Nat \ {0}

Interval(a, b) == [start |-> a, end |-> b]

(* An end that is not after the start is on the next day. *)
Span(a, b) == Interval(a, IF b <= a THEN b + DayLen ELSE b)

(* What is left of b when c is cut out. *)
Pieces(b, c) ==
  IF c.end <= b.start \/ c.start >= b.end THEN {b}
  ELSE {i \in {Interval(b.start, c.start), Interval(c.end, b.end)} : i.start < i.end}

Subtract(base, cuts) ==
  LET cut(c, out) == UNION {Pieces(b, c) : b \in out}
  IN  FoldSet(cut, base, cuts)

(* Mutant: intervals that touch are not merged. *)
MergeOverlapping(out, i) ==
  IF out # <<>> /\ i.start < Last(out).end
  THEN [out EXCEPT ![Len(out)].end = Max({@, i.end})]
  ELSE Append(out, i)

(* Extends the last interval, or begins a new one. *)
Merge(out, i) ==
  IF out # <<>> /\ i.start <= Last(out).end
  THEN [out EXCEPT ![Len(out)].end = Max({@, i.end})]
  ELSE Append(out, i)

(* A set as a sequence in the order of `before`. *)
Ordered(list, before(_, _)) ==
  LET add(i, out) == Append(out, i)
  IN  SortSeq(FoldSet(add, <<>>, list), before)

Normalize(list) ==
  LET earlier(a, b) == a.start < b.start \/ (a.start = b.start /\ a.end < b.end)
  IN  ToSet(FoldLeft(Merge, <<>>, Ordered({i \in list : i.start < i.end}, earlier)))

OfKind(xs, kind) == {Span(x.start, x.end) : x \in {y \in xs : y.kind = kind}}

(* resolveWorkDay: `pattern` is what the weekly pattern gives that day, `xs`  *)
(* the day's exceptions, `cuts` its holidays.  Of two MODIFIED of a day the  *)
(* code takes the first of its list: any one, here.                          *)
ResolveWorkDay(pattern, xs, cuts) ==
  LET off      == \E x \in xs : x.kind = "OFF"
      modified == OfKind(xs, "MODIFIED")
      base     == IF off THEN {}
                  ELSE IF modified # {} THEN {CHOOSE i \in modified : TRUE}
                  ELSE pattern
  IN  Subtract(Normalize(base \cup OfKind(xs, "EXTRA")), OfKind(xs, "BLOCK") \cup cuts)

(* [a, b) lies in one of the intervals. *)
Inside(work, a, b) == \E w \in work : w.start <= a /\ b <= w.end

-----------------------------------------------------------------------------
(* The reference: unit by unit, along the ranking. *)

Covers(list, u) == \E i \in list : i.start <= u /\ u < i.end

OnDuty(pattern, xs, cuts, u) ==
  /\ ~Covers(cuts \cup OfKind(xs, "BLOCK"), u)
  /\ \/ Covers(OfKind(xs, "EXTRA"), u)
     \/ /\ \A x \in xs : x.kind # "OFF"
        /\ Covers(IF OfKind(xs, "MODIFIED") = {} THEN pattern ELSE OfKind(xs, "MODIFIED"), u)

(* The intervals hold the units on duty, and are the maximal stretches of   *)
(* them: none is empty and no two touch.                                   *)
IsWorkOf(work, pattern, xs, cuts) ==
  /\ \A u \in 0..(2 * DayLen) : Covers(work, u) <=> OnDuty(pattern, xs, cuts, u)
  /\ \A v \in work : v.start < v.end
  /\ \A v, w \in work : v # w => v.end < w.start \/ w.end < v.start
=============================================================================
