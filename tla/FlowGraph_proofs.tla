--------------------------- MODULE FlowGraph_proofs ---------------------------
(***************************************************************************)
(* What holds of the reference notion of reachability in every graph: a    *)
(* set of blocks that has the entry and, with a block, its successors, has *)
(* every block a path from the entry reaches.  Before that, what the       *)
(* proofs of all modules need of numbers, sequences and recursions.        *)
(***************************************************************************)
EXTENDS FlowGraph, FiniteSetTheorems, WellFoundedInduction, TLAPS

(* A set of natural numbers that is not empty has a least member.          *)
LEMMA LeastNat ==
  ASSUME NEW T \in SUBSET Nat, T # {}
  PROVE  \E m \in T : \A n \in T : m <= n
<1>1. PICK m \in T : \A n \in T : ~ (<<n, m>> \in OpToRel(<, Nat))
  BY NatLessThanWellFounded, WFMin, Zenon
<1>2. ASSUME NEW n \in T PROVE m <= n
  <2>1. n \in Nat /\ m \in Nat
    OBVIOUS
  <2>2. CASE n < m
    <3>1. <<n, m>> \in OpToRel(<, Nat)
      BY <2>1, <2>2 DEF OpToRel
    <3>. QED BY <1>1, <3>1
  <2>. QED BY <2>1, <2>2
<1>. QED BY <1>1, <1>2

(* What holds at 0, and at a number if it holds at the one before.         *)
LEMMA UpTo ==
  ASSUME NEW n \in Nat, NEW P, 0 \in P, \A k \in 1 .. n : k - 1 \in P => k \in P
  PROVE  \A k \in 0 .. n : k \in P
<1> DEFINE T == {k \in Nat : k <= n /\ k \notin P}
<1> SUFFICES ASSUME T # {} PROVE FALSE
  OBVIOUS
<1>1. PICK m \in T : \A l \in T : m <= l
  BY LeastNat
<1>2. m # 0 /\ m - 1 \in Nat /\ m - 1 <= n /\ m \in 1 .. n
  OBVIOUS
<1>3. m - 1 \notin T
  BY <1>1, <1>2
<1>. QED BY <1>2, <1>3

(* What \o puts together.                                                  *)
LEMMA Concatenated ==
  ASSUME NEW S, NEW a \in Seq(S), NEW b \in Seq(S)
  PROVE  /\ a \o b \in Seq(S)
         /\ Len(a \o b) = Len(a) + Len(b)
         /\ \A j \in 1 .. Len(a) + Len(b) :
              (a \o b)[j] = IF j <= Len(a) THEN a[j] ELSE b[j - Len(a)]
  OBVIOUS

(* A function that is built step by step.                                  *)
IsBuilt(f, n, base, step) ==
    f = [k \in 0 .. n |-> IF k = 0 THEN base ELSE step[k][f[k - 1]]]

(* The values a recursion over 1 .. n goes through exist.                  *)
LEMMA BuiltExists ==
  ASSUME NEW X, NEW n \in Nat, NEW base \in X, NEW step \in [1 .. n -> [X -> X]]
  PROVE  \E f \in [0 .. n -> X] : IsBuilt(f, n, base, step)
<1> DEFINE P == {m \in 0 .. n : \E f \in [0 .. m -> X] : IsBuilt(f, m, base, step)}
<1>1. 0 \in P
  <2> DEFINE f == [k \in 0 .. 0 |-> base]
  <2>1. f \in [0 .. 0 -> X] /\ f = [k \in 0 .. 0 |-> IF k = 0 THEN base ELSE step[k][f[k - 1]]]
    OBVIOUS
  <2>2. IsBuilt(f, 0, base, step)
    BY <2>1 DEF IsBuilt
  <2>. QED BY <2>1, <2>2
<1>2. ASSUME NEW m \in 1 .. n, m - 1 \in P PROVE m \in P
  <2>1. PICK f \in [0 .. m - 1 -> X] : IsBuilt(f, m - 1, base, step)
    BY <1>2
  <2> DEFINE h == [k \in 0 .. m |-> IF k = m THEN step[m][f[m - 1]] ELSE f[k]]
  <2>2. h \in [0 .. m -> X]
    <3>1. m - 1 \in 0 .. m - 1 /\ step[m] \in [X -> X]
      OBVIOUS
    <3>2. \A k \in 0 .. m : k # m => k \in 0 .. m - 1
      OBVIOUS
    <3>. QED BY <3>1, <3>2
  <2>3. ASSUME NEW k \in 0 .. m
        PROVE  h[k] = IF k = 0 THEN base ELSE step[k][h[k - 1]]
    <3>1. CASE k = m
      <4>1. k # 0 /\ k - 1 \in 0 .. m /\ k - 1 # m
        BY <3>1
      <4>. QED BY <3>1, <4>1
    <3>2. CASE k # m
      <4>1. k \in 0 .. m - 1 /\ (k # 0 => k - 1 \in 0 .. m /\ k - 1 # m)
        BY <3>2
      <4>2. f[k] = IF k = 0 THEN base ELSE step[k][f[k - 1]]
        BY <2>1, <4>1 DEF IsBuilt
      <4>. QED BY <3>2, <4>1, <4>2
    <3>. QED BY <3>1, <3>2
  <2>4. h = [k \in 0 .. m |-> IF k = 0 THEN base ELSE step[k][h[k - 1]]]
    <3> HIDE DEF h
    <3>. QED BY <2>2, <2>3
  <2>5. IsBuilt(h, m, base, step)
    BY <2>4 DEF IsBuilt
  <2>. QED BY <2>2, <2>5
<1> HIDE DEF P
<1>3. \A k \in 0 .. n : k \in P
  BY <1>1, <1>2, UpTo
<1>4. n \in P
  BY <1>3
<1>. QED BY <1>4 DEF P

(* Subsets of a finite set that only grow cannot all differ: within as     *)
(* many steps as the set has members, one step adds nothing.               *)
LEMMA GrowingStops ==
  ASSUME NEW B, IsFiniteSet(B), NEW f, f[0] # {},
         \A k \in 0 .. Cardinality(B) : f[k] \subseteq B,
         \A k \in 1 .. Cardinality(B) : f[k - 1] \subseteq f[k]
  PROVE  \E j \in 0 .. Cardinality(B) - 1 : f[j + 1] = f[j]
<1> DEFINE C == Cardinality(B)
<1>1. C \in Nat
  BY FS_CardinalityType
<1> SUFFICES ASSUME \A j \in 0 .. C - 1 : f[j + 1] # f[j]
             PROVE  FALSE
  OBVIOUS
<1> DEFINE Large(k) == Cardinality(f[k]) >= k + 1
           T == {k \in 0 .. C : ~ Large(k)}
<1>2. \A k \in 0 .. C : IsFiniteSet(f[k]) /\ Cardinality(f[k]) \in Nat /\ Cardinality(f[k]) <= C
  BY FS_Subset, FS_CardinalityType
<1>3. T = {}
  <2> SUFFICES ASSUME T # {} PROVE FALSE
    OBVIOUS
  <2>1. T \in SUBSET Nat
    BY <1>1
  <2>2. PICK m \in T : \A k \in T : m <= k
    BY <2>1, LeastNat
  <2>3. m \in 0 .. C /\ ~ Large(m) /\ m \in Nat
    BY <2>1
  <2>4. CASE m = 0
    <3>1. IsFiniteSet(f[0]) /\ Cardinality(f[0]) \in Nat
      BY <1>1, <1>2
    <3>2. Cardinality(f[0]) # 0
      BY <3>1, FS_EmptySet
    <3>. QED BY <2>3, <2>4, <3>1, <3>2
  <2>5. CASE m # 0
    <3>1. m - 1 \in 0 .. C /\ m - 1 \notin T /\ m \in 1 .. C /\ m - 1 \in 0 .. C - 1 /\ (m - 1) + 1 = m
      BY <1>1, <2>2, <2>3, <2>5
    <3> DEFINE X == f[m - 1]
               Y == f[m]
    <3>2. X \subseteq Y /\ X # Y /\ Cardinality(X) >= m
      BY <3>1
    <3>3. /\ IsFiniteSet(X) /\ Cardinality(X) \in Nat
          /\ IsFiniteSet(Y) /\ Cardinality(Y) \in Nat
      BY <1>2, <3>1
    <3> HIDE DEF X, Y
    <3>4. Cardinality(X) <= Cardinality(Y) /\ (Cardinality(X) = Cardinality(Y) => X = Y)
      BY <3>2, <3>3, FS_Subset
    <3>5. Cardinality(Y) >= m + 1
      BY <2>3, <3>2, <3>3, <3>4
    <3>. QED BY <2>3, <3>5 DEF Y
  <2>. QED BY <2>4, <2>5
<1>4. Large(C)
  BY <1>1, <1>3
<1>. QED BY <1>1, <1>2, <1>4

(* One more step along the edges.                                          *)
Grown(gr, avoid, X) == X \cup ((UNION {Successors(gr, b) : b \in X}) \ avoid)

(* The blocks reached in up to n steps, as ReachableAvoiding counts them.  *)
IsReach(gr, avoid, f, n) ==
    f = [k \in 0 .. n |-> IF k = 0 THEN {gr.entry} \ avoid ELSE Grown(gr, avoid, f[k - 1])]

(* The first of these sets holds the entry, each further one is one step   *)
(* larger.                                                                 *)
LEMMA ReachSteps ==
  ASSUME NEW gr, NEW avoid, NEW n \in Nat, NEW f, IsReach(gr, avoid, f, n)
  PROVE  /\ f[0] = {gr.entry} \ avoid
         /\ \A k \in 1 .. n : f[k] = Grown(gr, avoid, f[k - 1])
<1>1. f[0] = {gr.entry} \ avoid
  BY DEF IsReach
<1>2. ASSUME NEW k \in 1 .. n PROVE f[k] = Grown(gr, avoid, f[k - 1])
  <2>1. k \in 0 .. n /\ k # 0
    OBVIOUS
  <2>2. f[k] = IF k = 0 THEN {gr.entry} \ avoid ELSE Grown(gr, avoid, f[k - 1])
    BY <2>1 DEF IsReach
  <2>. QED BY <2>1, <2>2
<1>. QED BY <1>1, <1>2

(* There is such a sequence of sets, of any length: the recursion is well  *)
(* founded.                                                                *)
LEMMA ReachExists ==
  ASSUME NEW gr, NEW avoid, NEW n \in Nat
  PROVE  \E f : IsReach(gr, avoid, f, n)
<1> DEFINE T == {k \in Nat : ~ \E f : IsReach(gr, avoid, f, k)}
<1>1. CASE T = {}
  BY <1>1
<1>2. CASE T # {}
  <2>1. PICK m \in T : \A k \in T : m <= k
    BY <1>2, LeastNat
  <2>2. m \in Nat /\ ~ \E f : IsReach(gr, avoid, f, m)
    OBVIOUS
  <2>3. CASE m = 0
    <3> DEFINE f == [k \in 0 .. 0 |-> {gr.entry} \ avoid]
    <3>1. IsReach(gr, avoid, f, 0)
      BY DEF IsReach
    <3>. QED BY <2>2, <2>3, <3>1
  <2>4. CASE m # 0
    <3>1. m - 1 \in Nat /\ m - 1 \notin T
      BY <2>1, <2>2, <2>4
    <3>2. PICK f : IsReach(gr, avoid, f, m - 1)
      BY <3>1
    <3> DEFINE h == [k \in 0 .. m |-> IF k = m THEN Grown(gr, avoid, f[m - 1]) ELSE f[k]]
    <3>3. ASSUME NEW k \in 0 .. m
          PROVE  h[k] = IF k = 0 THEN {gr.entry} \ avoid ELSE Grown(gr, avoid, h[k - 1])
      <4>1. CASE k = m
        <5>1. h[k - 1] = f[m - 1] /\ h[k] = Grown(gr, avoid, f[m - 1])
          BY <4>1, <2>2, <2>4
        <5>. QED BY <4>1, <5>1, <2>4
      <4>2. CASE k # m
        <5>1. h[k] = f[k] /\ k \in 0 .. m - 1
          BY <4>2, <2>2
        <5>2. f[k] = IF k = 0 THEN {gr.entry} \ avoid ELSE Grown(gr, avoid, f[k - 1])
          BY <5>1, <3>2 DEF IsReach
        <5>3. k # 0 => h[k - 1] = f[k - 1]
          BY <5>1, <2>2
        <5>. QED BY <5>1, <5>2, <5>3
      <4>. QED BY <4>1, <4>2
    <3>4. IsReach(gr, avoid, h, m)
      BY <3>3 DEF IsReach
    <3>. QED BY <2>2, <3>4
  <2>. QED BY <2>3, <2>4
<1>. QED BY <1>1, <1>2

(* Nothing outside a set that is closed under the steps is reached.        *)
LEMMA AvoidingWithin ==
  ASSUME NEW gr, IsFiniteSet(Blocks(gr)), NEW avoid, NEW A, {gr.entry} \ avoid \subseteq A,
         \A b \in A : Successors(gr, b) \ avoid \subseteq A
  PROVE  ReachableAvoiding(gr, avoid) \subseteq A
<1> DEFINE C == Cardinality(Blocks(gr))
           reach == CHOOSE f : IsReach(gr, avoid, f, C)
<1>1. C \in Nat
  BY FS_CardinalityType
<1>2. IsReach(gr, avoid, reach, C)
  BY <1>1, ReachExists
<1>3. ReachableAvoiding(gr, avoid) = reach[C]
  BY DEF ReachableAvoiding, IsReach, Grown
<1> HIDE DEF C, reach
<1> DEFINE T == {k \in 0 .. C : ~ (reach[k] \subseteq A)}
<1>4. CASE T = {}
  BY <1>1, <1>3, <1>4
<1>5. CASE T # {}
  <2>1. PICK m \in T : \A k \in T : m <= k
    <3>1. T \in SUBSET Nat
      BY <1>1
    <3>. QED BY <1>5, <3>1, LeastNat
  <2>2. m \in 0 .. C /\ ~ (reach[m] \subseteq A)
    OBVIOUS
  <2>3. CASE m = 0
    BY <1>1, <1>2, <2>2, <2>3 DEF IsReach
  <2>4. CASE m # 0
    <3>1. m - 1 \in 0 .. C /\ m - 1 \notin T
      BY <1>1, <2>1, <2>2, <2>4
    <3>2. reach[m - 1] \subseteq A
      BY <3>1
    <3>3. reach[m] = Grown(gr, avoid, reach[m - 1])
      BY <1>1, <1>2, <2>2, <2>4 DEF IsReach
    <3>4. Grown(gr, avoid, reach[m - 1]) \subseteq A
      BY <3>2 DEF Grown
    <3>. QED BY <2>2, <3>3, <3>4
  <2>. QED BY <2>3, <2>4
<1>. QED BY <1>4, <1>5

(* There are only so many blocks: the steps ReachableAvoiding makes are    *)
(* enough.                                                                 *)
LEMMA ReachStops ==
  ASSUME NEW gr, NEW avoid, IsFiniteSet(Blocks(gr)), gr.entry \in Blocks(gr),
         \A b \in Blocks(gr) : Successors(gr, b) \subseteq Blocks(gr),
         NEW reach, IsReach(gr, avoid, reach, Cardinality(Blocks(gr)))
  PROVE  LET C == Cardinality(Blocks(gr))
         IN  \E j \in 0 .. C - 1 : reach[j + 1] = reach[j]
<1> DEFINE C == Cardinality(Blocks(gr))
<1>1. C \in Nat /\ C # 0
  BY FS_CardinalityType, FS_EmptySet
<1>2. /\ reach[0] = {gr.entry} \ avoid
      /\ \A k \in 1 .. C : reach[k] = Grown(gr, avoid, reach[k - 1])
  <2>1. reach[0] = {gr.entry} \ avoid
    BY <1>1, ReachSteps
  <2>2. \A k \in 1 .. C : reach[k] = Grown(gr, avoid, reach[k - 1])
    BY <1>1, ReachSteps
  <2>. QED BY <2>1, <2>2
<1>3. \A X \in SUBSET Blocks(gr) : Grown(gr, avoid, X) \in SUBSET Blocks(gr) /\ X \subseteq Grown(gr, avoid, X)
  BY DEF Grown
<1> HIDE DEF C
<1>4. CASE reach[0] = {}
  <2>1. reach[1] = {}
    <3>1. 1 \in 1 .. C /\ 1 - 1 = 0
      BY <1>1
    <3>. QED BY <1>2, <1>4, <3>1 DEF Grown
  <2>2. 0 \in 0 .. C - 1 /\ 0 + 1 = 1
    BY <1>1
  <2>. QED BY <1>4, <2>1, <2>2 DEF C
<1>5. CASE reach[0] # {}
  <2> DEFINE T == {k \in 0 .. C : ~ (reach[k] \subseteq Blocks(gr))}
  <2>1. T = {}
    <3> SUFFICES ASSUME T # {} PROVE FALSE
      OBVIOUS
    <3>1. PICK m \in T : \A k \in T : m <= k
      <4>1. T \in SUBSET Nat
        BY <1>1
      <4>. QED BY <4>1, LeastNat
    <3>2. m \in 0 .. C /\ m # 0
      BY <1>2
    <3>3. m - 1 \in 0 .. C /\ m - 1 \notin T /\ m \in 1 .. C
      BY <1>1, <3>1, <3>2
    <3>. QED BY <1>2, <1>3, <3>3
  <2>2. \A k \in 0 .. C : reach[k] \subseteq Blocks(gr)
    BY <2>1
  <2>3. ASSUME NEW k \in 1 .. C PROVE reach[k - 1] \subseteq reach[k]
    <3>1. k - 1 \in 0 .. C
      BY <1>1
    <3>. QED BY <1>2, <1>3, <2>2, <3>1
  <2>. QED BY <1>5, <2>2, <2>3, GrowingStops DEF C
<1>. QED BY <1>4, <1>5

(* What is reached is closed under the steps, and holds nothing avoided.   *)
LEMMA AvoidingClosed ==
  ASSUME NEW gr, NEW avoid, IsFiniteSet(Blocks(gr)), gr.entry \in Blocks(gr),
         \A b \in Blocks(gr) : Successors(gr, b) \subseteq Blocks(gr)
  PROVE  LET R == ReachableAvoiding(gr, avoid)
         IN  /\ {gr.entry} \ avoid \subseteq R
             /\ R \subseteq Blocks(gr) \ avoid
             /\ \A b \in R : Successors(gr, b) \ avoid \subseteq R
<1> DEFINE C == Cardinality(Blocks(gr))
           reach == CHOOSE f : IsReach(gr, avoid, f, C)
<1>1. C \in Nat /\ C # 0
  BY FS_CardinalityType, FS_EmptySet
<1>2. IsReach(gr, avoid, reach, C)
  BY <1>1, ReachExists
<1>3. ReachableAvoiding(gr, avoid) = reach[C]
  BY DEF ReachableAvoiding, IsReach, Grown
<1>4. PICK j \in 0 .. C - 1 : reach[j + 1] = reach[j]
  BY <1>2, ReachStops
<1> HIDE DEF C, reach
<1>5. /\ reach[0] = {gr.entry} \ avoid
      /\ \A k \in 1 .. C : reach[k] = Grown(gr, avoid, reach[k - 1])
  <2>1. reach[0] = {gr.entry} \ avoid
    BY <1>1, <1>2, ReachSteps
  <2>2. \A k \in 1 .. C : reach[k] = Grown(gr, avoid, reach[k - 1])
    BY <1>1, <1>2, ReachSteps
  <2>. QED BY <2>1, <2>2
<1>6. Grown(gr, avoid, reach[j]) = reach[j]
  <2>1. j + 1 \in 1 .. C /\ (j + 1) - 1 = j
    BY <1>1
  <2>. QED BY <1>4, <1>5, <2>1
<1>7. ASSUME NEW k \in j .. C PROVE reach[k] = reach[j]
  <2> DEFINE T == {n \in j .. C : reach[n] # reach[j]}
  <2>1. T \in SUBSET Nat
    BY <1>1
  <2>2. T = {}
    <3> SUFFICES ASSUME T # {} PROVE FALSE
      OBVIOUS
    <3>1. PICK m \in T : \A n \in T : m <= n
      BY <2>1, LeastNat
    <3>2. m \in j .. C /\ m # j /\ reach[m] # reach[j]
      OBVIOUS
    <3>3. m - 1 \in j .. C /\ m - 1 \notin T /\ m \in 1 .. C
      BY <1>1, <3>1, <3>2
    <3>4. reach[m - 1] = reach[j]
      BY <3>3
    <3>. QED BY <1>5, <1>6, <3>2, <3>3, <3>4
  <2>. QED BY <2>2
<1> DEFINE R == ReachableAvoiding(gr, avoid)
<1>8. R = reach[j] /\ Grown(gr, avoid, R) = R
  <2>1. C \in j .. C
    BY <1>1
  <2>. QED BY <1>3, <1>6, <1>7, <2>1
<1> DEFINE Within(k) == {gr.entry} \ avoid \subseteq reach[k] /\ reach[k] \subseteq Blocks(gr) \ avoid
           T == {n \in 0 .. C : ~ Within(n)}
<1>9. T = {}
  <2>1. T \in SUBSET Nat
    BY <1>1
  <2> SUFFICES ASSUME T # {} PROVE FALSE
    OBVIOUS
  <2>2. PICK m \in T : \A n \in T : m <= n
    BY <2>1, LeastNat
  <2>3. m \in 0 .. C /\ ~ Within(m)
    OBVIOUS
  <2>4. m # 0
    BY <1>5, <2>3
  <2>5. m - 1 \in 0 .. C /\ m - 1 \notin T /\ m \in 1 .. C
    BY <1>1, <2>2, <2>3, <2>4
  <2>6. Within(m - 1)
    BY <2>5
  <2>7. reach[m] = Grown(gr, avoid, reach[m - 1])
    BY <1>5, <2>5
  <2>. QED BY <2>3, <2>6, <2>7 DEF Grown
<1>10. Within(C)
  BY <1>1, <1>9
<1>11. {gr.entry} \ avoid \subseteq R /\ R \subseteq Blocks(gr) \ avoid
  BY <1>3, <1>10
<1>12. ASSUME NEW b \in R PROVE Successors(gr, b) \ avoid \subseteq R
  BY <1>8 DEF Grown
<1>. QED BY <1>11, <1>12

(* The same of plain reachability, which avoids nothing.                   *)
LEMMA ReachableWithin ==
  ASSUME NEW gr, IsFiniteSet(Blocks(gr)), NEW A, gr.entry \in A,
         \A b \in A : Successors(gr, b) \subseteq A
  PROVE  Reachable(gr) \subseteq A
<1>1. {gr.entry} \ {} \subseteq A /\ \A b \in A : Successors(gr, b) \ {} \subseteq A
  OBVIOUS
<1>. QED BY <1>1, AvoidingWithin DEF Reachable

LEMMA ReachableClosed ==
  ASSUME NEW gr, IsFiniteSet(Blocks(gr)), gr.entry \in Blocks(gr),
         \A b \in Blocks(gr) : Successors(gr, b) \subseteq Blocks(gr)
  PROVE  /\ gr.entry \in Reachable(gr)
         /\ Reachable(gr) \subseteq Blocks(gr)
         /\ \A b \in Reachable(gr) : Successors(gr, b) \subseteq Reachable(gr)
<1> DEFINE R == ReachableAvoiding(gr, {})
<1>1. /\ {gr.entry} \ {} \subseteq R
      /\ R \subseteq Blocks(gr) \ {}
      /\ \A b \in R : Successors(gr, b) \ {} \subseteq R
  BY AvoidingClosed
<1>2. Reachable(gr) = R
  BY DEF Reachable
<1>. QED BY <1>1, <1>2

----------------------------------------------------------------------------
(* A loop as a function of its state: what it returns when it stops.       *)
IsLoop(v, D, stop, step, out) ==
    v = [x \in D |-> IF x \in stop THEN out[x] ELSE v[step[x]]]

(* There is one, whether or not the loop ends: what it returns is what     *)
(* follows from the states in which it stops.                              *)
LEMMA LoopExists ==
  ASSUME NEW D, NEW stop, NEW step \in [D -> D], NEW out
  PROVE  \E v : IsLoop(v, D, stop, step, out)
<1> DEFINE R == {out[x] : x \in D}
           Closed(T) == /\ \A x \in D \cap stop : <<x, out[x]>> \in T
                        /\ \A x \in D \ stop : \A r \in R :
                              <<step[x], r>> \in T => <<x, r>> \in T
           Runs == {p \in D \X R : \A T \in SUBSET (D \X R) : Closed(T) => p \in T}
           Results(x) == {r \in R : <<x, r>> \in Runs}
           v == [x \in D |-> CHOOSE r : r \in Results(x)]
<1>1. Runs \in SUBSET (D \X R) /\ Closed(Runs)
  <2>1. ASSUME NEW x \in D \cap stop PROVE <<x, out[x]>> \in Runs
    <3>1. <<x, out[x]>> \in D \X R
      OBVIOUS
    <3>2. \A T \in SUBSET (D \X R) : Closed(T) => <<x, out[x]>> \in T
      OBVIOUS
    <3>. QED BY <3>1, <3>2
  <2>2. ASSUME NEW x \in D \ stop, NEW r \in R, <<step[x], r>> \in Runs PROVE <<x, r>> \in Runs
    <3>1. <<x, r>> \in D \X R
      OBVIOUS
    <3>2. \A T \in SUBSET (D \X R) : Closed(T) => <<x, r>> \in T
      BY <2>2
    <3>. QED BY <3>1, <3>2
  <2>. QED BY <2>1, <2>2
<1>2. ASSUME NEW T \in SUBSET (D \X R), Closed(T) PROVE Runs \subseteq T
  BY <1>2
<1>3. ASSUME NEW x \in D \cap stop PROVE Results(x) = {out[x]}
  <2> DEFINE T == {p \in D \X R : p[1] = x => p[2] = out[x]}
  <2>1. Closed(T)
    OBVIOUS
  <2>2. Runs \subseteq T
    BY <1>2, <2>1
  <2>3. out[x] \in Results(x)
    BY <1>1
  <2>. QED BY <2>2, <2>3
<1>4. ASSUME NEW x \in D \ stop PROVE Results(x) = Results(step[x])
  <2>1. Results(step[x]) \subseteq Results(x)
    BY <1>1
  <2>2. ASSUME NEW r \in Results(x), r \notin Results(step[x]) PROVE FALSE
    <3> DEFINE T == Runs \ {<<x, r>>}
    <3>1. r \in R /\ <<x, r>> \in Runs /\ <<step[x], r>> \notin Runs
      BY <2>2
    <3>2. Closed(T)
      <4>1. ASSUME NEW y \in D \cap stop PROVE <<y, out[y]>> \in T
        BY <1>1
      <4>2. ASSUME NEW y \in D \ stop, NEW q \in R, <<step[y], q>> \in T PROVE <<y, q>> \in T
        <5>1. <<y, q>> \in Runs
          BY <1>1, <4>2
        <5>2. <<y, q>> # <<x, r>>
          BY <3>1, <4>2
        <5>. QED BY <5>1, <5>2
      <4>. QED BY <4>1, <4>2
    <3>3. T \in SUBSET (D \X R)
      OBVIOUS
    <3>4. Runs \subseteq T
      BY <1>2, <3>2, <3>3
    <3>. QED BY <3>1, <3>4
  <2>. QED BY <2>1, <2>2
<1>5. ASSUME NEW x \in D PROVE v[x] = IF x \in stop THEN out[x] ELSE v[step[x]]
  <2> HIDE DEF Results
  <2>1. CASE x \in stop
    BY <1>3, <2>1
  <2>2. CASE x \notin stop
    <3>1. step[x] \in D /\ Results(x) = Results(step[x])
      BY <1>4, <2>2
    <3>. QED BY <2>2, <3>1
  <2>. QED BY <2>1, <2>2
<1>6. IsLoop(v, D, stop, step, out)
  <2> HIDE DEF Results
  <2>1. v = [x \in D |-> v[x]]
    OBVIOUS
  <2> HIDE DEF v
  <2>. QED BY <1>5, <2>1 DEF IsLoop
<1>. QED BY <1>6

(* The states of the preorder traversal, and what comes of each of them.   *)
PreorderStates(gr) == [stack : Seq(Blocks(gr)), order : Seq(Blocks(gr))]

IsPreorder(gr, v) ==
    v = [at \in PreorderStates(gr) |->
           IF at.stack = <<>> THEN Append(at.order, gr.exit) ELSE v[PreorderStep(gr, at)]]

PreorderFrom(gr, waiting, placed) ==
    (CHOOSE v : IsPreorder(gr, v))[[stack |-> waiting, order |-> placed]]

LEMMA PreorderUnfolds ==
  ASSUME NEW gr, IsGraph(gr), NEW s \in Seq(Blocks(gr)), NEW o \in Seq(Blocks(gr))
  PROVE  /\ Preorder(gr) = PreorderFrom(gr, <<gr.entry>>, <<>>)
         /\ s = <<>> => PreorderFrom(gr, s, o) = Append(o, gr.exit)
         /\ s # <<>> =>
              PreorderFrom(gr, s, o) =
                IF Head(s) = gr.exit \/ Head(s) \in Range(o)
                THEN PreorderFrom(gr, Tail(s), o)
                ELSE PreorderFrom(gr, gr.succ[Head(s)] \o Tail(s), Append(o, Head(s)))
<1> DEFINE D == PreorderStates(gr)
           stop == {at \in D : at.stack = <<>>}
           step == [at \in D |-> IF at \in stop THEN at ELSE PreorderStep(gr, at)]
           out == [at \in D |-> Append(at.order, gr.exit)]
<1>1. ASSUME NEW at \in D \ stop PROVE PreorderStep(gr, at) \in D
  <2>1. at.stack \in Seq(Blocks(gr)) /\ at.stack # <<>> /\ at.order \in Seq(Blocks(gr))
    BY DEF PreorderStates
  <2>2. Head(at.stack) \in Blocks(gr) /\ Tail(at.stack) \in Seq(Blocks(gr))
    BY <2>1
  <2>3. gr.succ[Head(at.stack)] \in Seq(Blocks(gr))
    BY <2>2 DEF IsGraph
  <2>4. gr.succ[Head(at.stack)] \o Tail(at.stack) \in Seq(Blocks(gr))
    BY <2>2, <2>3
  <2>5. Append(at.order, Head(at.stack)) \in Seq(Blocks(gr))
    BY <2>1, <2>2
  <2>. QED BY <2>1, <2>2, <2>4, <2>5 DEF PreorderStates, PreorderStep
<1>2. step \in [D -> D]
  BY <1>1
<1>3. PICK v : IsLoop(v, D, stop, step, out)
  <2> HIDE DEF step, out, stop, D
  <2>. QED BY <1>2, LoopExists
<1>4. IsPreorder(gr, v)
  <2>1. v = [at \in D |-> IF at \in stop THEN out[at] ELSE v[step[at]]]
    BY <1>3 DEF IsLoop
  <2>2. \A at \in D : (IF at \in stop THEN out[at] ELSE v[step[at]])
                      = (IF at.stack = <<>> THEN Append(at.order, gr.exit)
                         ELSE v[PreorderStep(gr, at)])
    OBVIOUS
  <2>. QED BY <2>1, <2>2 DEF IsPreorder
<1> DEFINE w == CHOOSE u : IsPreorder(gr, u)
<1>5. IsPreorder(gr, w)
  BY <1>4
<1>6. Preorder(gr) = PreorderFrom(gr, <<gr.entry>>, <<>>)
  BY DEF Preorder, PreorderFrom, IsPreorder, PreorderStates
<1>7. \A x, y : PreorderFrom(gr, x, y) = w[[stack |-> x, order |-> y]]
  BY DEF PreorderFrom
<1> HIDE DEF w, stop, step, out
<1> DEFINE at == [stack |-> s, order |-> o]
<1>8. at \in D
  BY DEF PreorderStates
<1>9. w[at] = IF s = <<>> THEN Append(o, gr.exit) ELSE w[PreorderStep(gr, at)]
  BY <1>5, <1>8 DEF IsPreorder
<1>10. PreorderStep(gr, at) =
         IF Head(s) = gr.exit \/ Head(s) \in Range(o)
         THEN [stack |-> Tail(s), order |-> o]
         ELSE [stack |-> gr.succ[Head(s)] \o Tail(s), order |-> Append(o, Head(s))]
  BY DEF PreorderStep
<1>11. PreorderFrom(gr, s, o) =
         IF s = <<>> THEN Append(o, gr.exit) ELSE w[PreorderStep(gr, at)]
  BY <1>7, <1>9
<1>12. CASE s # <<>> /\ (Head(s) = gr.exit \/ Head(s) \in Range(o))
  <2>1. PreorderStep(gr, at) = [stack |-> Tail(s), order |-> o]
    BY <1>10, <1>12
  <2>2. PreorderFrom(gr, s, o) = PreorderFrom(gr, Tail(s), o)
    BY <1>7, <1>11, <1>12, <2>1
  <2>. QED BY <1>6, <1>12, <2>2
<1>13. CASE s # <<>> /\ ~ (Head(s) = gr.exit \/ Head(s) \in Range(o))
  <2> DEFINE t == gr.succ[Head(s)] \o Tail(s)
             p == Append(o, Head(s))
  <2>1. PreorderStep(gr, at) = [stack |-> t, order |-> p]
    BY <1>10, <1>13
  <2>2. PreorderFrom(gr, t, p) = w[[stack |-> t, order |-> p]]
    BY <1>7
  <2>3. PreorderFrom(gr, s, o) = PreorderFrom(gr, t, p)
    BY <1>11, <1>13, <2>1, <2>2
  <2>. QED BY <1>6, <1>13, <2>3
<1>14. CASE s = <<>>
  BY <1>6, <1>11, <1>14
<1>. QED BY <1>12, <1>13, <1>14

(* The same for the traversal that keeps spans of successors.              *)
BFSStates(gr) ==
    [span : Seq(Blocks(gr)), stack : Seq(Seq(Blocks(gr))), order : Seq(Blocks(gr))]

IsBreadthFirst(gr, v) ==
    v = [at \in BFSStates(gr) |->
           IF at.span = <<>> /\ at.stack = <<>> THEN at.order ELSE v[BreadthFirstStep(gr, at)]]

BreadthFirstFrom(gr, left, waiting, placed) ==
    (CHOOSE v : IsBreadthFirst(gr, v))[[span |-> left, stack |-> waiting, order |-> placed]]

LEMMA BreadthFirstUnfolds ==
  ASSUME NEW gr, IsGraph(gr), NEW n \in Seq(Blocks(gr)), NEW s \in Seq(Seq(Blocks(gr))),
         NEW o \in Seq(Blocks(gr))
  PROVE  /\ BreadthFirst(gr) = BreadthFirstFrom(gr, <<>>, SpanOf(gr, gr.entry), <<gr.entry>>)
         /\ n = <<>> /\ s = <<>> => BreadthFirstFrom(gr, n, s, o) = o
         /\ n = <<>> /\ s # <<>> =>
              BreadthFirstFrom(gr, n, s, o) = BreadthFirstFrom(gr, Head(s), Tail(s), o)
         /\ n # <<>> /\ Head(n) \in Range(o) =>
              BreadthFirstFrom(gr, n, s, o) = BreadthFirstFrom(gr, Tail(n), s, o)
         /\ n # <<>> /\ Head(n) \notin Range(o) =>
              BreadthFirstFrom(gr, n, s, o) =
                BreadthFirstFrom(gr, Tail(n), SpanOf(gr, Head(n)) \o s, Append(o, Head(n)))
<1> DEFINE D == BFSStates(gr)
           stop == {at \in D : at.span = <<>> /\ at.stack = <<>>}
           step == [at \in D |-> IF at \in stop THEN at ELSE BreadthFirstStep(gr, at)]
           out == [at \in D |-> at.order]
<1>1. ASSUME NEW at \in D \ stop PROVE BreadthFirstStep(gr, at) \in D
  <2>1. /\ at.span \in Seq(Blocks(gr)) /\ at.stack \in Seq(Seq(Blocks(gr)))
        /\ at.order \in Seq(Blocks(gr))
    BY DEF BFSStates
  <2>2. CASE at.span = <<>>
    <3>1. at.stack # <<>>
      BY <2>2
    <3>2. Head(at.stack) \in Seq(Blocks(gr)) /\ Tail(at.stack) \in Seq(Seq(Blocks(gr)))
      BY <2>1, <3>1
    <3>. QED BY <2>1, <2>2, <3>2 DEF BFSStates, BreadthFirstStep
  <2>3. CASE at.span # <<>>
    <3>1. Head(at.span) \in Blocks(gr) /\ Tail(at.span) \in Seq(Blocks(gr))
      BY <2>1, <2>3
    <3>2. SpanOf(gr, Head(at.span)) \in Seq(Seq(Blocks(gr)))
      BY <3>1 DEF IsGraph, SpanOf
    <3>3. SpanOf(gr, Head(at.span)) \o at.stack \in Seq(Seq(Blocks(gr)))
      BY <2>1, <3>2
    <3>4. Append(at.order, Head(at.span)) \in Seq(Blocks(gr))
      BY <2>1, <3>1
    <3>. QED BY <2>1, <2>3, <3>1, <3>3, <3>4 DEF BFSStates, BreadthFirstStep
  <2>. QED BY <2>2, <2>3
<1>2. step \in [D -> D]
  BY <1>1
<1>3. PICK v : IsLoop(v, D, stop, step, out)
  <2> HIDE DEF step, out, stop, D
  <2>. QED BY <1>2, LoopExists
<1>4. IsBreadthFirst(gr, v)
  <2>1. v = [at \in D |-> IF at \in stop THEN out[at] ELSE v[step[at]]]
    BY <1>3 DEF IsLoop
  <2>2. \A at \in D : (IF at \in stop THEN out[at] ELSE v[step[at]])
                      = (IF at.span = <<>> /\ at.stack = <<>> THEN at.order
                         ELSE v[BreadthFirstStep(gr, at)])
    OBVIOUS
  <2>. QED BY <2>1, <2>2 DEF IsBreadthFirst
<1> DEFINE w == CHOOSE u : IsBreadthFirst(gr, u)
<1>5. IsBreadthFirst(gr, w)
  BY <1>4
<1>6. BreadthFirst(gr) = BreadthFirstFrom(gr, <<>>, SpanOf(gr, gr.entry), <<gr.entry>>)
  BY DEF BreadthFirst, BreadthFirstFrom, IsBreadthFirst, BFSStates
<1>7. \A x, y, z : BreadthFirstFrom(gr, x, y, z) = w[[span |-> x, stack |-> y, order |-> z]]
  BY DEF BreadthFirstFrom
<1> HIDE DEF w, stop, step, out
<1> DEFINE at == [span |-> n, stack |-> s, order |-> o]
<1>8. at \in D
  BY DEF BFSStates
<1>9. w[at] = IF n = <<>> /\ s = <<>> THEN o ELSE w[BreadthFirstStep(gr, at)]
  BY <1>5, <1>8 DEF IsBreadthFirst
<1>10. BreadthFirstFrom(gr, n, s, o) =
         IF n = <<>> /\ s = <<>> THEN o ELSE w[BreadthFirstStep(gr, at)]
  BY <1>7, <1>9
<1>11. CASE n = <<>> /\ s = <<>>
  BY <1>6, <1>10, <1>11
<1>12. CASE n = <<>> /\ s # <<>>
  <2> DEFINE h == Head(s)
             t == Tail(s)
  <2>1. BreadthFirstStep(gr, at) = [span |-> h, stack |-> t, order |-> o]
    BY <1>12 DEF BreadthFirstStep
  <2>2. BreadthFirstFrom(gr, h, t, o) = w[[span |-> h, stack |-> t, order |-> o]]
    BY <1>7
  <2>3. BreadthFirstFrom(gr, n, s, o) = w[BreadthFirstStep(gr, at)]
    BY <1>10, <1>12
  <2>4. BreadthFirstFrom(gr, n, s, o) = BreadthFirstFrom(gr, h, t, o)
    BY <2>1, <2>2, <2>3
  <2>. QED BY <1>6, <1>12, <2>4
<1>13. CASE n # <<>> /\ Head(n) \in Range(o)
  <2>1. BreadthFirstStep(gr, at) = [span |-> Tail(n), stack |-> s, order |-> o]
    BY <1>13 DEF BreadthFirstStep
  <2>2. BreadthFirstFrom(gr, n, s, o) = BreadthFirstFrom(gr, Tail(n), s, o)
    BY <1>7, <1>10, <1>13, <2>1
  <2>. QED BY <1>6, <1>13, <2>2
<1>14. CASE n # <<>> /\ Head(n) \notin Range(o)
  <2> DEFINE t == SpanOf(gr, Head(n)) \o s
             p == Append(o, Head(n))
  <2>1. BreadthFirstStep(gr, at) = [span |-> Tail(n), stack |-> t, order |-> p]
    BY <1>14 DEF BreadthFirstStep
  <2>2. BreadthFirstFrom(gr, Tail(n), t, p) = w[[span |-> Tail(n), stack |-> t, order |-> p]]
    BY <1>7
  <2>3. BreadthFirstFrom(gr, n, s, o) = BreadthFirstFrom(gr, Tail(n), t, p)
    BY <1>10, <1>14, <2>1, <2>2
  <2>. QED BY <1>6, <1>14, <2>3
<1>. QED BY <1>11, <1>12, <1>13, <1>14
=============================================================================
