---------------------------- MODULE LiveInterval ----------------------------
(***************************************************************************)
(* LiveRange and LiveInterval: the instruction numbers at which a value    *)
(* holds its register.  A range is a record [start, end]; an interval is a *)
(* non-empty sequence of ranges (the vector m_intervals) and its hint.     *)
(* The operators are the methods of the two classes.                       *)
(***************************************************************************)
EXTENDS Integers, Sequences, FiniteSets, SequencesExt

Hints == {"NOTHING", "CALL_LIVE_OUT"}

MaxOf(a, b) == IF a >= b THEN a ELSE b

NewRange(first, last) == [start |-> first, end |-> last]

(* LiveRange::intersects().                                                *)
RangesMeet(r, s) == r.start < s.end /\ r.end > s.start

(* LiveRange::intersects_non_strictly().                                   *)
RangesTouch(r, s) == r.start <= s.end /\ r.end >= s.start

Propagate(r, last) == [r EXCEPT !.end = MaxOf(@, last)]

(* std::ranges::sort by start.  Up to 16 elements libstdc++ sorts by       *)
(* insertion, so equal starts keep their order.                            *)
Insertion(sorted, r) ==
    LET k == CHOOSE n \in 0 .. Len(sorted) :
               \A j \in DOMAIN sorted : j <= n <=> sorted[j].start <= r.start
    IN  InsertAt(sorted, k + 1, r)

SortedByStart(v) ==
    LET upto[n \in 0 .. Len(v)] == IF n = 0 THEN <<>> ELSE Insertion(upto[n - 1], v[n])
    IN  upto[Len(v)]

(* remove_fast(): the last element takes the place of the removed one.     *)
RemoveFast(v, n) == Front([v EXCEPT ![n] = Last(v)])

(* The loop of canonicalize(): a range that touches the one before it      *)
(* extends it and is removed.                                              *)
MergeStep(u, n) ==
    IF RangesTouch(u[n], u[n - 1])
    THEN [u |-> RemoveFast([u EXCEPT ![n - 1] = Propagate(@, u[n].end)], n), n |-> n]
    ELSE [u |-> u, n |-> n + 1]

MergeTouching(v) ==
    LET merge[at \in [u : Seq([start : Nat, end : Nat]), n : Nat \ {0, 1}]] ==
          IF at.n > Len(at.u) THEN at.u ELSE merge[MergeStep(at.u, at.n)]
    IN  merge[[u |-> v, n |-> 2]]

(* Variant: the ranges are left in the order they come in.                 *)
CanonicalUnsorted(v) == MergeTouching(v)

Canonical(v) == SortedByStart(MergeTouching(SortedByStart(v)))

JoinHints(h1, h2) ==
    IF h1 = "CALL_LIVE_OUT" /\ h2 = "CALL_LIVE_OUT" THEN "CALL_LIVE_OUT" ELSE "NOTHING"

(* LiveInterval::create().                                                 *)
NewInterval(v, h) == [ranges |-> Canonical(v), hint |-> h]

Start(iv) == Head(iv.ranges).start

Finish(iv) == Last(iv.ranges).end

(* LiveInterval::intersects(), for two intervals that are not the same     *)
(* object.                                                                 *)
Intersects(iv, other) ==
    /\ ~(Start(iv) >= Finish(other) \/ Finish(iv) <= Start(other))
    /\ \E j \in DOMAIN iv.ranges, k \in DOMAIN other.ranges :
           RangesMeet(iv.ranges[j], other.ranges[k])

(* Variant: bordering intervals may intersect elsewhere.                   *)
Borders(iv, other) ==
    \E k \in DOMAIN iv.ranges :
        \/ iv.ranges[k].end = Start(other)
        \/ iv.ranges[k].start = Finish(other)

(* LiveInterval::follows().                                                *)
Follows(iv, other) ==
    /\ ~Intersects(iv, other)
    /\ \E k \in DOMAIN iv.ranges :
           \/ iv.ranges[k].end = Start(other)
           \/ iv.ranges[k].start = Finish(other)

(* Variant: only the hint is merged.                                       *)
MergeHintOnly(iv, other) == [iv EXCEPT !.hint = JoinHints(@, other.hint)]

(* LiveInterval::merge_with().                                             *)
MergeWith(iv, other) ==
    [ranges |-> Canonical(iv.ranges \o other.ranges),
     hint |-> JoinHints(iv.hint, other.hint)]
=============================================================================
