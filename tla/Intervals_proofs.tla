-------------------------- MODULE Intervals_proofs --------------------------
(***************************************************************************)
(* Theorems about the live intervals, and the lemmas about sequences they  *)
(* and those about the allocator rest on.                                  *)
(***************************************************************************)
EXTENDS Intervals, FlowGraph_proofs, FiniteSetTheorems, WellFoundedInduction, TLAPS

(* What FlattenSeq puts together, step by step.                            *)
IsFlat(seqs, f, n) ==
    f = [k \in 1 .. n |-> IF k = 1 THEN seqs[k] ELSE f[k - 1] \o seqs[k]]

(* What FlattenSeq folds exists, by induction on the length.               *)
LEMMA FlatExists ==
    ASSUME NEW X, NEW seqs \in Seq(Seq(X)), NEW n \in 0 .. Len(seqs)
    PROVE  \E f \in [1 .. n -> Seq(X)] : IsFlat(seqs, f, n)
<1> DEFINE T == {m \in Nat : m <= Len(seqs) /\ ~ \E f \in [1 .. m -> Seq(X)] : IsFlat(seqs, f, m)}
<1>0. Len(seqs) \in Nat /\ (\A k \in 1 .. Len(seqs) : seqs[k] \in Seq(X))
  OBVIOUS
<1> SUFFICES ASSUME T # {} PROVE FALSE
  BY <1>0
<1>1. PICK m \in T : \A l \in T : m <= l
  BY LeastNat
<1>2. m \in Nat /\ m <= Len(seqs) /\ ~ \E f \in [1 .. m -> Seq(X)] : IsFlat(seqs, f, m)
  OBVIOUS
<1>3. CASE m = 0
  <2> DEFINE f == [k \in 1 .. 0 |-> <<>>]
  <2>1. f \in [1 .. 0 -> Seq(X)]
    OBVIOUS
  <2>2. IsFlat(seqs, f, 0)
    BY DEF IsFlat
  <2>. QED BY <1>2, <1>3, <2>1, <2>2
<1>4. CASE m # 0
  <2>1. m - 1 \in Nat /\ m - 1 <= Len(seqs) /\ ~ (m <= m - 1)
    BY <1>0, <1>2, <1>4
  <2>0. m - 1 \notin T
    BY <1>1, <2>1
  <2>2. PICK f \in [1 .. m - 1 -> Seq(X)] : IsFlat(seqs, f, m - 1)
    BY <2>0, <2>1
  <2> DEFINE h == [k \in 1 .. m |-> IF k = m THEN IF m = 1 THEN seqs[m] ELSE f[m - 1] \o seqs[m]
                                    ELSE f[k]]
  <2>3. h \in [1 .. m -> Seq(X)]
    <3>1. \A k \in 1 .. m : k # m => k \in 1 .. m - 1
      BY <1>2
    <3>2. m # 1 => m - 1 \in 1 .. m - 1
      BY <1>2, <1>4
    <3>. QED BY <1>0, <1>2, <1>4, <3>1, <3>2
  <2>4. ASSUME NEW k \in 1 .. m
        PROVE  h[k] = IF k = 1 THEN seqs[k] ELSE h[k - 1] \o seqs[k]
    <3>1. CASE k = m
      <4>1. k # 1 => k - 1 \in 1 .. m /\ k - 1 # m
        BY <1>2, <3>1
      <4>. QED BY <3>1, <4>1
    <3>2. CASE k # m
      <4>1. k \in 1 .. m - 1 /\ (k # 1 => k - 1 \in 1 .. m /\ k - 1 # m)
        BY <1>2, <3>2
      <4>2. f[k] = IF k = 1 THEN seqs[k] ELSE f[k - 1] \o seqs[k]
        BY <2>2, <4>1 DEF IsFlat
      <4>. QED BY <3>2, <4>1, <4>2
    <3>. QED BY <3>1, <3>2
  <2>5. h = [k \in 1 .. m |-> IF k = 1 THEN seqs[k] ELSE h[k - 1] \o seqs[k]]
    <3> HIDE DEF h
    <3>. QED BY <2>3, <2>4
  <2>6. IsFlat(seqs, h, m)
    BY <2>5 DEF IsFlat
  <2>. QED BY <1>2, <2>3, <2>6
<1>. QED BY <1>3, <1>4

(* A sequence of sequences, flattened, has the elements of those, and none *)
(* is longer.                                                              *)
LEMMA FlattenType ==
    ASSUME NEW X, NEW seqs \in Seq(Seq(X))
    PROVE  /\ FlattenSeq(seqs) \in Seq(X)
           /\ \A j \in 1 .. Len(seqs) : Len(seqs[j]) <= Len(FlattenSeq(seqs))
<1>1. CASE Len(seqs) = 0
  <2>1. seqs = <<>> /\ 1 .. Len(seqs) = {}
    BY <1>1
  <2>. QED BY <1>1, <2>1 DEF FlattenSeq
<1>2. CASE Len(seqs) # 0
  <2>1. Len(seqs) \in Nat /\ Len(seqs) \in 0 .. Len(seqs) /\ Len(seqs) \in 1 .. Len(seqs)
    BY <1>2
  <2>2. PICK g \in [1 .. Len(seqs) -> Seq(X)] : IsFlat(seqs, g, Len(seqs))
    BY <2>1, FlatExists
  <2> DEFINE f == CHOOSE f : IsFlat(seqs, f, Len(seqs))
  <2>3. IsFlat(seqs, f, Len(seqs))
    BY <2>2
  <2>4. FlattenSeq(seqs) = f[Len(seqs)]
    BY <1>2 DEF FlattenSeq, IsFlat
  <2>5. PICK n \in Nat : n = Len(seqs) /\ n # 0
    BY <1>2
  <2>6. \A k \in 1 .. n : f[k] = IF k = 1 THEN seqs[k] ELSE f[k - 1] \o seqs[k]
    <3> HIDE DEF f
    <3>. QED BY <2>3, <2>5 DEF IsFlat
  <2> HIDE DEF f
  <2> DEFINE Good(k) == f[k] \in Seq(X) /\ \A j \in 1 .. k : Len(seqs[j]) <= Len(f[k])
             P == {k \in 0 .. n : k = 0 \/ Good(k)}
  <2>7. ASSUME NEW k \in 1 .. n, k - 1 \in P PROVE k \in P
    <3>1. seqs[k] \in Seq(X)
      BY <2>5
    <3>2. CASE k = 1
      <4>1. f[k] = seqs[k] /\ \A j \in 1 .. k : j = k
        BY <2>6, <3>2
      <4>2. PICK l \in Nat : l = Len(seqs[k])
        BY <3>1
      <4>3. Len(f[k]) = l /\ \A j \in 1 .. k : Len(seqs[j]) = l
        BY <4>1, <4>2
      <4>4. Good(k)
        BY <3>1, <4>1, <4>3
      <4>. QED BY <4>4
    <3>3. CASE k # 1
      <4>0. Good(k - 1)
        <5>1. k - 1 # 0
          BY <3>3
        <5>. QED BY <2>7, <5>1
      <4>1. PICK a, b \in Seq(X) : a = f[k - 1] /\ b = seqs[k]
        BY <3>1, <4>0
      <4>2. PICK la, lb \in Nat : la = Len(a) /\ lb = Len(b)
        OBVIOUS
      <4>3. f[k] = a \o b
        BY <2>6, <3>3, <4>1
      <4>4. f[k] \in Seq(X) /\ Len(f[k]) = la + lb
        BY <4>2, <4>3, Concatenated
      <4>5. ASSUME NEW j \in 1 .. k PROVE Len(seqs[j]) <= la + lb
        <5>1. CASE j = k
          <6>1. Len(seqs[j]) = lb
            BY <4>1, <4>2, <5>1
          <6>. QED BY <6>1
        <5>2. CASE j # k
          <6>1. j \in 1 .. k - 1 /\ j \in 1 .. Len(seqs)
            BY <2>5, <5>2
          <6>2. Len(seqs[j]) <= la
            BY <4>0, <4>1, <4>2, <6>1
          <6>3. seqs[j] \in Seq(X)
            BY <6>1
          <6>4. PICK lj \in Nat : lj = Len(seqs[j])
            BY <6>3
          <6>. QED BY <6>2, <6>4
        <5>. QED BY <5>1, <5>2
      <4>. QED BY <4>4, <4>5
    <3>. QED BY <3>2, <3>3
  <2>8. 0 \in P
    OBVIOUS
  <2> HIDE DEF P
  <2>9. \A k \in 0 .. n : k \in P
    BY <2>7, <2>8, UpTo
  <2>10. n \in P
    BY <2>9
  <2>11. Good(n)
    BY <2>5, <2>10 DEF P
  <2>. QED BY <2>4, <2>5, <2>11
<1>. QED BY <1>1, <1>2

(* Selected keeps elements of the sequence, all of them in the set.        *)
LEMMA SelectedType ==
    ASSUME NEW X, NEW seq \in Seq(X), NEW set
    PROVE  Selected(seq, set) \in Seq(X \cap set)
<1> DEFINE parts == [n \in 1 .. Len(seq) |-> IF seq[n] \in set THEN <<seq[n]>> ELSE <<>>]
<1>1. parts \in Seq(Seq(X \cap set))
  <2>1. ASSUME NEW n \in 1 .. Len(seq)
        PROVE  (IF seq[n] \in set THEN <<seq[n]>> ELSE <<>>) \in Seq(X \cap set)
    <3>1. CASE seq[n] \in set
      <4>1. seq[n] \in X \cap set
        BY <3>1
      <4>. QED BY <3>1, <4>1
    <3>2. CASE seq[n] \notin set
      BY <3>2
    <3>. QED BY <3>1, <3>2
  <2>. QED BY <2>1
<1>. QED BY <1>1, FlattenType DEF Selected

(* SetToSeq lists elements of a finite set, and at least one if there is   *)
(* any.                                                                    *)
LEMMA SetToSeqType ==
    ASSUME NEW S, IsFiniteSet(S)
    PROVE  SetToSeq(S) \in Seq(S) /\ (S # {} => Len(SetToSeq(S)) # 0)
<1>1. PICK n \in Nat : ExistsBijection(1 .. n, S)
  BY FS_NatBijection
<1>2. Cardinality(S) = n
  BY <1>1, FS_CountingElements
<1>3. PICK f \in Bijection(1 .. n, S) : TRUE
  BY <1>1 DEF ExistsBijection
<1>4. f \in [1 .. Cardinality(S) -> S] /\ IsInjective(f)
  BY <1>2, <1>3 DEF Bijection, Injection, IsInjective
<1>5. SetToSeq(S) \in [1 .. Cardinality(S) -> S]
  BY <1>4 DEF SetToSeq
<1>6. S # {} => n # 0
  BY <1>3 DEF Bijection, Surjection
<1>7. SetToSeq(S) \in Seq(S) /\ Len(SetToSeq(S)) = n
  BY <1>1, <1>2, <1>5
<1>. QED BY <1>6, <1>7

----------------------------------------------------------------------------
(* The numbering of the instructions.                                      *)
IsCount(f, count) ==
    count = [k \in 0 .. Len(f.order) |->
               IF k = 0 THEN 0 ELSE count[k - 1] + Len(f.code[f.order[k]])]

(* The first number of a block follows those of the blocks before it.      *)
LEMMA NumberingFacts ==
  ASSUME NEW f \in Functions
  PROVE  LET count == NumbersUpTo(f) IN
         /\ \A k \in 0 .. Len(f.order) : count[k] \in Nat
         /\ count[0] = 0
         /\ \A k \in 1 .. Len(f.order) :
              /\ count[k] = count[k - 1] + Len(f.code[f.order[k]])
              /\ FirstNumber(f, f.order[k]) = count[k - 1] + 1
<1>0. PICK n \in Nat : n = Len(f.order)
  BY FunctionsAssumption DEF FunctionsAssumption
<1> DEFINE size == [k \in 1 .. n |-> Len(f.code[f.order[k]])]
           step == [k \in 1 .. n |-> [x \in Nat |-> x + size[k]]]
<1>1. \A k \in 1 .. n : f.order[k] \in Block(f) /\ size[k] \in Nat
  <2>1. f.order \in Seq(Block(f))
    BY FunctionsAssumption DEF FunctionsAssumption
  <2>2. \A b \in Block(f) : f.code[b] \in Seq(Range(f.code[b]))
    BY FunctionsAssumption DEF FunctionsAssumption
  <2>. QED BY <1>0, <2>1, <2>2
<1>2. step \in [1 .. n -> [Nat -> Nat]]
  BY <1>1
<1>3. PICK g \in [0 .. n -> Nat] : IsBuilt(g, n, 0, step)
  <2> HIDE DEF step
  <2>. QED BY <1>2, BuiltExists
<1>4. IsCount(f, g)
  <2>1. \A k \in 0 .. n : k # 0 => k \in 1 .. n /\ k - 1 \in 0 .. n
    OBVIOUS
  <2>2. ASSUME NEW k \in 0 .. n
        PROVE  g[k] = IF k = 0 THEN 0 ELSE g[k - 1] + Len(f.code[f.order[k]])
    <3>1. g[k] = IF k = 0 THEN 0 ELSE step[k][g[k - 1]]
      <4> HIDE DEF step
      <4>. QED BY <1>3 DEF IsBuilt
    <3>2. CASE k # 0
      <4>1. k \in 1 .. n /\ g[k - 1] \in Nat
        BY <2>1, <3>2
      <4>. QED BY <3>1, <3>2, <4>1
    <3>. QED BY <3>1, <3>2
  <2>3. g = [k \in 0 .. n |-> g[k]]
    OBVIOUS
  <2>. QED BY <1>0, <2>2, <2>3 DEF IsCount
<1> DEFINE count == CHOOSE c : IsCount(f, c)
<1>5. IsCount(f, count)
  BY <1>4
<1>6. NumbersUpTo(f) = count
  BY DEF NumbersUpTo, IsCount
<1> HIDE DEF count, step
<1>7. count[0] = 0 /\ \A k \in 1 .. n : count[k] = count[k - 1] + size[k]
  <2>1. \A k \in 0 .. n : count[k] = IF k = 0 THEN 0 ELSE count[k - 1] + Len(f.code[f.order[k]])
    BY <1>0, <1>5 DEF IsCount
  <2>. QED BY <2>1
<1> DEFINE P == {k \in 0 .. n : count[k] \in Nat}
<1>8. \A k \in 0 .. n : k \in P
  <2>1. 0 \in P
    BY <1>7
  <2>2. ASSUME NEW k \in 1 .. n, k - 1 \in P PROVE k \in P
    <3>1. count[k - 1] \in Nat /\ size[k] \in Nat /\ k \in 0 .. n
      BY <1>1, <2>2
    <3>. QED BY <1>7, <3>1
  <2> HIDE DEF P
  <2>. QED BY <2>1, <2>2, UpTo
<1>9. ASSUME NEW k \in 1 .. n
      PROVE  FirstNumber(f, f.order[k]) = count[k - 1] + 1
  <2>2. k \in DOMAIN f.order
    BY <1>0, FunctionsAssumption DEF FunctionsAssumption
  <2>1. \A j \in DOMAIN f.order : f.order[j] = f.order[k] => j = k
    BY <2>2, FunctionsAssumption DEF FunctionsAssumption
  <2>3. PlaceInOrder(f, f.order[k]) = k
    BY <2>1, <2>2 DEF PlaceInOrder
  <2>. QED BY <1>6, <2>3 DEF FirstNumber
<1>. QED BY <1>0, <1>6, <1>7, <1>8, <1>9

----------------------------------------------------------------------------
(* The ranges of an interval.                                              *)
LiveRanges == [start : Nat, end : Nat]

InOrder(s) == \A i, j \in 1 .. Len(s) : i < j => s[i].start <= s[j].start

Ascending(s) == \A i, j \in 1 .. Len(s) : i < j => s[i].start < s[j].start

(* Where a start goes in a sequence in order, and a new one in an ascending*)
(* sequence.                                                               *)
LEMMA InsertionFacts ==
  ASSUME NEW s \in Seq(LiveRanges), InOrder(s), NEW r \in LiveRanges
  PROVE  /\ Insertion(s, r) \in Seq(LiveRanges)
         /\ InOrder(Insertion(s, r))
         /\ Range(Insertion(s, r)) = Range(s) \cup {r}
         /\ Ascending(s) /\ (\A j \in 1 .. Len(s) : s[j].start # r.start) =>
               Ascending(Insertion(s, r))
<1>0. PICK n \in Nat : n = Len(s)
  OBVIOUS
<1>1. /\ DOMAIN s = 1 .. n /\ r.start \in Nat
      /\ \A j \in 1 .. n : s[j] \in LiveRanges /\ s[j].start \in Nat
  <2>1. DOMAIN s = 1 .. n /\ \A j \in 1 .. n : s[j] \in LiveRanges
    BY <1>0
  <2>2. \A x \in LiveRanges : x.start \in Nat
    BY DEF LiveRanges
  <2>. QED BY <2>1, <2>2
<1> DEFINE Fits(m) == \A j \in 1 .. n : j <= m <=> s[j].start <= r.start
<1>2. \E m \in 0 .. n : Fits(m)
  <2> DEFINE T == {m \in Nat : m <= n /\ \A j \in 1 .. n : j > m => s[j].start > r.start}
  <2>1. n \in T
    OBVIOUS
  <2>2. PICK m \in T : \A l \in T : m <= l
    BY <2>1, LeastNat
  <2>3. ASSUME NEW j \in 1 .. n, j <= m PROVE s[j].start <= r.start
    <3>1. m # 0 /\ m - 1 \in Nat /\ m - 1 <= n /\ m \in 1 .. n
      BY <2>3
    <3>2. m - 1 \notin T
      BY <2>2, <3>1
    <3>3. PICK i \in 1 .. n : i > m - 1 /\ ~ (s[i].start > r.start)
      BY <3>1, <3>2
    <3>4. i = m
      BY <3>1, <3>3
    <3>5. j = m \/ s[j].start <= s[m].start
      BY <1>0, <2>3, <3>1 DEF InOrder
    <3>. QED BY <1>1, <3>1, <3>3, <3>4, <3>5
  <2>4. ASSUME NEW j \in 1 .. n, ~ (j <= m) PROVE ~ (s[j].start <= r.start)
    BY <1>1, <2>4
  <2>5. m \in 0 .. n /\ Fits(m)
    BY <2>3, <2>4
  <2>. QED BY <2>5
<1>3. PICK k \in 0 .. n : Fits(k) /\ Insertion(s, r) = InsertAt(s, k + 1, r)
  <2> DEFINE k == CHOOSE m \in 0 .. n : Fits(m)
  <2>1. k \in 0 .. n /\ Fits(k)
    BY <1>2
  <2>2. Insertion(s, r) = InsertAt(s, k + 1, r)
    BY <1>0, <1>1 DEF Insertion
  <2>. QED BY <2>1, <2>2
<1>4. \A j \in 1 .. n : j <= k <=> s[j].start <= r.start
  BY <1>0, <1>1, <1>3
<1> HIDE DEF Fits
<1> DEFINE t == Insertion(s, r)
<1>5. /\ t \in Seq(LiveRanges) /\ Len(t) = n + 1
      /\ \A j \in 1 .. n + 1 : t[j] = IF j <= k THEN s[j] ELSE IF j = k + 1 THEN r ELSE s[j - 1]
  <2>1. /\ SubSeq(s, 1, k) \in Seq(LiveRanges) /\ Len(SubSeq(s, 1, k)) = k
        /\ \A j \in 1 .. k : SubSeq(s, 1, k)[j] = s[j]
    BY <1>0, <1>1
  <2>2. /\ SubSeq(s, k + 1, n) \in Seq(LiveRanges) /\ Len(SubSeq(s, k + 1, n)) = n - k
        /\ \A j \in 1 .. n - k : SubSeq(s, k + 1, n)[j] = s[k + j]
    BY <1>0, <1>1
  <2> DEFINE low == SubSeq(s, 1, k)
             high == SubSeq(s, k + 1, n)
  <2>3. t = (low \o <<r>>) \o high
    <3>1. (k + 1) - 1 = k
      OBVIOUS
    <3>2. InsertAt(s, k + 1, r) = SubSeq(s, 1, k) \o <<r>> \o SubSeq(s, k + 1, n)
      BY <1>0, <3>1 DEF InsertAt
    <3>. QED BY <1>3, <3>2
  <2> HIDE DEF low, high, t
  <2>4. /\ low \in Seq(LiveRanges) /\ Len(low) = k /\ \A j \in 1 .. k : low[j] = s[j]
        /\ high \in Seq(LiveRanges) /\ Len(high) = n - k /\ \A j \in 1 .. n - k : high[j] = s[k + j]
    BY <2>1, <2>2 DEF low, high
  <2> DEFINE b == low \o <<r>>
  <2>5. b \in Seq(LiveRanges) /\ Len(b) = k + 1
    <3>1. <<r>> \in Seq(LiveRanges) /\ Len(<<r>>) = 1
      OBVIOUS
    <3>. QED BY <2>4, <3>1, Concatenated
  <2>6. \A j \in 1 .. k + 1 : b[j] = IF j <= k THEN s[j] ELSE r
    <3>1. <<r>> \in Seq(LiveRanges) /\ Len(<<r>>) = 1 /\ <<r>>[1] = r
      OBVIOUS
    <3>2. \A j \in 1 .. k + 1 : b[j] = IF j <= k THEN low[j] ELSE <<r>>[j - k]
      BY <2>4, <3>1, Concatenated
    <3>3. \A j \in 1 .. k + 1 : ~ (j <= k) => j - k = 1
      OBVIOUS
    <3>4. \A j \in 1 .. k + 1 : j <= k => j \in 1 .. k
      OBVIOUS
    <3>. QED BY <2>4, <3>1, <3>2, <3>3, <3>4
  <2> HIDE DEF b
  <2>7. /\ b \o high \in Seq(LiveRanges) /\ Len(b \o high) = n + 1
        /\ \A j \in 1 .. n + 1 : (b \o high)[j] = IF j <= k + 1 THEN b[j] ELSE high[j - (k + 1)]
    <3>1. (k + 1) + (n - k) = n + 1
      OBVIOUS
    <3>2. PICK m, l \in Nat : m = k + 1 /\ l = n - k /\ m + l = n + 1
      BY <3>1
    <3>3. /\ high \in Seq(LiveRanges) /\ Len(high) = l
          /\ b \in Seq(LiveRanges) /\ Len(b) = m
      BY <2>4, <2>5, <3>2
    <3>4. /\ b \o high \in Seq(LiveRanges) /\ Len(b \o high) = m + l
          /\ \A j \in 1 .. m + l : (b \o high)[j] = IF j <= m THEN b[j] ELSE high[j - m]
      BY <3>3, Concatenated
    <3>. QED BY <3>2, <3>4
  <2>8. ASSUME NEW j \in 1 .. n + 1
        PROVE  t[j] = IF j <= k THEN s[j] ELSE IF j = k + 1 THEN r ELSE s[j - 1]
    <3>0. t = b \o high
      BY <2>3 DEF b
    <3>1. CASE j <= k + 1
      BY <2>6, <2>7, <3>0, <3>1
    <3>2. CASE ~ (j <= k + 1)
      <4>1. j - (k + 1) \in 1 .. n - k /\ k + (j - (k + 1)) = j - 1
        BY <3>2
      <4>. QED BY <2>4, <2>7, <3>0, <3>2, <4>1
    <3>. QED BY <3>1, <3>2
  <2>9. t = b \o high
    BY <2>3 DEF b
  <2>. QED BY <2>7, <2>8, <2>9
<1> HIDE DEF t
<1>6. InOrder(t)
  <2>1. ASSUME NEW i \in 1 .. n + 1, NEW j \in 1 .. n + 1, i < j
        PROVE  t[i].start <= t[j].start
    <3>1. \A a, b \in 1 .. n : a < b => s[a].start <= s[b].start
      BY <1>0 DEF InOrder
    <3>2. CASE j <= k
      BY <1>5, <2>1, <3>1, <3>2
    <3>3. CASE j = k + 1
      <4>1. i \in 1 .. n /\ i <= k
        BY <2>1, <3>3
      <4>. QED BY <1>4, <1>5, <3>3, <4>1
    <3>4. CASE j > k + 1
      <4>1. j - 1 \in 1 .. n /\ ~ (j - 1 <= k) /\ t[j] = s[j - 1]
        BY <1>5, <3>4
      <4>2. s[j - 1].start > r.start
        <5>1. s[j - 1].start \in Nat
          BY <1>0, <1>1, <4>1
        <5>. QED BY <1>1, <1>4, <4>1, <5>1
      <4>3. CASE i <= k
        <5>1. i \in 1 .. n /\ i < j - 1 /\ t[i] = s[i]
          BY <1>5, <3>4, <4>3
        <5>. QED BY <3>1, <4>1, <5>1
      <4>4. CASE i = k + 1
        <5>1. t[i] = r /\ s[j - 1].start \in Nat
          BY <1>1, <1>5, <4>1, <4>4
        <5>. QED BY <1>1, <4>1, <4>2, <5>1
      <4>5. CASE i > k + 1
        <5>1. i - 1 \in 1 .. n /\ i - 1 < j - 1 /\ t[i] = s[i - 1]
          BY <1>5, <2>1, <4>5
        <5>. QED BY <3>1, <4>1, <5>1
      <4>. QED BY <4>3, <4>4, <4>5
    <3>. QED BY <3>2, <3>3, <3>4
  <2>. QED BY <1>5, <2>1 DEF InOrder
<1>8. ASSUME Ascending(s), \A j \in 1 .. n : s[j].start # r.start
      PROVE  Ascending(t)
  <2>1. ASSUME NEW i \in 1 .. n + 1, NEW j \in 1 .. n + 1, i < j
        PROVE  t[i].start < t[j].start
    <3>1. \A a, b \in 1 .. n : a < b => s[a].start < s[b].start
      BY <1>0, <1>8 DEF Ascending
    <3>2. CASE j <= k
      <4>1. i \in 1 .. n /\ j \in 1 .. n /\ i <= k
        BY <2>1, <3>2
      <4>2. t[i] = s[i] /\ t[j] = s[j]
        BY <1>5, <3>2, <4>1
      <4>. QED BY <2>1, <3>1, <4>1, <4>2
    <3>3. CASE j = k + 1
      <4>1. i \in 1 .. n /\ i <= k
        BY <2>1, <3>3
      <4>2. s[i].start <= r.start /\ s[i].start # r.start /\ s[i].start \in Nat
        BY <1>1, <1>4, <1>8, <4>1
      <4>3. t[i] = s[i] /\ t[j] = r
        BY <1>5, <3>3, <4>1
      <4>. QED BY <1>1, <4>2, <4>3
    <3>4. CASE j > k + 1
      <4>1. j - 1 \in 1 .. n /\ ~ (j - 1 <= k) /\ t[j] = s[j - 1]
        BY <1>5, <3>4
      <4>2. s[j - 1].start > r.start
        <5>1. s[j - 1].start \in Nat
          BY <1>0, <1>1, <4>1
        <5>. QED BY <1>1, <1>4, <4>1, <5>1
      <4>3. CASE i <= k
        <5>1. i \in 1 .. n /\ i < j - 1 /\ t[i] = s[i]
          BY <1>5, <3>4, <4>3
        <5>. QED BY <3>1, <4>1, <5>1
      <4>4. CASE i = k + 1
        <5>1. t[i] = r
          BY <1>5, <4>4
        <5>. QED BY <4>1, <4>2, <5>1
      <4>5. CASE i > k + 1
        <5>1. i - 1 \in 1 .. n /\ i - 1 < j - 1 /\ t[i] = s[i - 1]
          BY <1>5, <2>1, <4>5
        <5>. QED BY <3>1, <4>1, <5>1
      <4>. QED BY <4>3, <4>4, <4>5
    <3>. QED BY <3>2, <3>3, <3>4
  <2>. QED BY <1>5, <2>1 DEF Ascending
<1>7. Range(t) = Range(s) \cup {r}
  <2>1. DOMAIN t = 1 .. n + 1
    BY <1>5
  <2>2. ASSUME NEW x \in Range(t) PROVE x \in Range(s) \cup {r}
    <3>1. PICK j \in 1 .. n + 1 : x = t[j]
      BY <2>1, <2>2 DEF Range
    <3>2. CASE j = k + 1
      BY <1>5, <3>1, <3>2
    <3>3. CASE j <= k
      <4>1. j \in DOMAIN s /\ x = s[j]
        BY <1>1, <1>5, <3>1, <3>3
      <4>. QED BY <4>1 DEF Range
    <3>4. CASE j > k + 1
      <4>1. j - 1 \in DOMAIN s /\ x = s[j - 1]
        BY <1>1, <1>5, <3>1, <3>4
      <4>. QED BY <4>1 DEF Range
    <3>. QED BY <3>2, <3>3, <3>4
  <2>3. r \in Range(t)
    <3>1. k + 1 \in 1 .. n + 1 /\ t[k + 1] = r
      BY <1>5
    <3>. QED BY <2>1, <3>1 DEF Range
  <2>4. ASSUME NEW x \in Range(s) PROVE x \in Range(t)
    <3>1. PICK j \in 1 .. n : x = s[j]
      BY <1>1 DEF Range
    <3>2. CASE j <= k
      <4>1. j \in 1 .. n + 1 /\ t[j] = x
        BY <1>5, <3>1, <3>2
      <4>. QED BY <2>1, <4>1 DEF Range
    <3>3. CASE ~ (j <= k)
      <4>1. j + 1 \in 1 .. n + 1 /\ ~ (j + 1 <= k) /\ j + 1 # k + 1 /\ (j + 1) - 1 = j
        BY <3>3
      <4>2. t[j + 1] = x
        BY <1>5, <3>1, <4>1
      <4>. QED BY <2>1, <4>1, <4>2 DEF Range
    <3>. QED BY <3>2, <3>3
  <2>. QED BY <2>2, <2>3, <2>4
<1>. QED BY <1>0, <1>5, <1>6, <1>7, <1>8 DEF t

----------------------------------------------------------------------------
(* What the evaluation gives a value in a block: a range is opened where   *)
(* the value is defined, or at the first instruction of a block that reads *)
(* it or that it is live out of ...                                        *)
Home(f, v, b) == v \in DefinedIn(f, b) \/ (v \in f.args /\ b = f.order[1])

DefinedAt(f, v, b) == CHOOSE n \in DOMAIN f.code[b] : v \in f.code[b][n].outs

StartIn(f, v, b) ==
    IF v \in DefinedIn(f, b) THEN FirstNumber(f, b) + DefinedAt(f, v, b) - 1
    ELSE IF v \in f.args /\ b = f.order[1] THEN 0 ELSE FirstNumber(f, b)

ReadIn(f, v, b) == {n \in DOMAIN f.code[b] : v \in Reads(f.code[b][n])}

Appears(f, v, b) == Home(f, v, b) \/ v \in LiveOut(f, b) \/ ReadIn(f, v, b) # {}

(* ... and ends at the last of these reads, or with the block.             *)
OutEnd(f, v, b) ==
    FirstNumber(f, b) + Len(f.code[b]) - (IF Home(f, v, b) THEN 0 ELSE 1)

IsSpan(f, v, b, r) ==
    /\ r \in LiveRanges /\ r.start = StartIn(f, v, b) /\ r.start <= r.end
    /\ v \in LiveOut(f, b) => OutEnd(f, v, b) <= r.end
    /\ \A n \in ReadIn(f, v, b) : FirstNumber(f, b) + n - 1 <= r.end
    /\ \/ Home(f, v, b) /\ r.end = r.start
       \/ v \in LiveOut(f, b) /\ r.end = OutEnd(f, v, b)
       \/ \E n \in ReadIn(f, v, b) : r.end = FirstNumber(f, b) + n - 1

RangeMaps(B) == UNION {[D -> LiveRanges] : D \in SUBSET B}

(* The maps after the reads of a block, one instruction at a time.         *)
IsReads(g, map, v, b, start, code) ==
    g = [n \in 0 .. Len(code) |->
          IF n = 0 THEN map
          ELSE IF v \in Reads(code[n])
               THEN ReadRange(g[n - 1], b, start, start + n - 1)
               ELSE g[n - 1]]

(* propagate() keeps the start and never shortens the range.               *)
LEMMA PropagateFacts ==
  ASSUME NEW r \in LiveRanges, NEW e \in Nat
  PROVE  /\ Propagate(r, e) \in LiveRanges
         /\ Propagate(r, e).start = r.start
         /\ Propagate(r, e).end = MaxOf(r.end, e)
         /\ r.end \in Nat /\ r.start \in Nat
  BY DEF Propagate, LiveRanges, MaxOf

(* One read changes the range of its block alone.                          *)
LEMMA ReadRangeFacts ==
  ASSUME NEW B, NEW map \in RangeMaps(B), NEW b \in B, NEW start \in Nat, NEW number \in Nat
  PROVE  LET after == ReadRange(map, b, start, number) IN
         /\ after \in RangeMaps(B) /\ DOMAIN after = DOMAIN map \cup {b}
         /\ \A c \in DOMAIN map : c # b => after[c] = map[c]
         /\ after[b] = IF b \in DOMAIN map THEN Propagate(map[b], number)
                       ELSE NewRange(start, number)
<1>1. PICK D \in SUBSET B : map \in [D -> LiveRanges]
  BY DEF RangeMaps
<1> DEFINE after == ReadRange(map, b, start, number)
<1>2. CASE b \in D
  <2>1. after = [map EXCEPT ![b] = Propagate(map[b], number)]
    BY <1>1, <1>2 DEF ReadRange
  <2>2. Propagate(map[b], number) \in LiveRanges
    BY <1>1, <1>2, PropagateFacts
  <2> HIDE DEF after
  <2>3. after \in [D -> LiveRanges]
    BY <1>1, <1>2, <2>1, <2>2
  <2>4. after \in RangeMaps(B)
    BY <2>3 DEF RangeMaps
  <2>. QED BY <1>1, <1>2, <2>1, <2>3, <2>4 DEF after
<1>3. CASE b \notin D
  <2>1. after = [x \in D \cup {b} |-> IF x \in D THEN map[x] ELSE NewRange(start, number)]
    BY <1>1, <1>3 DEF ReadRange, WithRange, Extended
  <2>2. NewRange(start, number) \in LiveRanges
    BY DEF NewRange, LiveRanges
  <2> HIDE DEF after
  <2>3. after \in [D \cup {b} -> LiveRanges]
    BY <1>1, <1>3, <2>1, <2>2
  <2>4. after \in RangeMaps(B)
    BY <2>3 DEF RangeMaps
  <2>. QED BY <1>1, <1>3, <2>1, <2>3, <2>4 DEF after
<1>. QED BY <1>2, <1>3

(* The reads of a whole block.                                             *)
ReadsDone(after, B, map, v, b, start, code) ==
    LET reads == {n \in DOMAIN code : v \in Reads(code[n])} IN
    /\ after \in RangeMaps(B)
    /\ DOMAIN after = DOMAIN map \cup (IF reads = {} THEN {} ELSE {b})
    /\ \A c \in DOMAIN map : c # b => after[c] = map[c]
    /\ b \in DOMAIN after =>
         /\ after[b] \in LiveRanges
         /\ after[b].start = IF b \in DOMAIN map THEN map[b].start ELSE start
         /\ b \in DOMAIN map => map[b].end <= after[b].end
         /\ \A n \in reads : start + n - 1 <= after[b].end
         /\ \/ b \in DOMAIN map /\ after[b].end = map[b].end
            \/ \E n \in reads : after[b].end = start + n - 1

(* The reads of a block leave the range of the block at the last of them.  *)
LEMMA AfterReadsFacts ==
  ASSUME NEW B, NEW map \in RangeMaps(B), NEW v, NEW b \in B, NEW start \in Nat,
         start # 0, NEW C, NEW code \in Seq(C)
  PROVE  ReadsDone(AfterReads(map, v, b, start, code), B, map, v, b, start, code)
<1>0. PICK size \in Nat : size = Len(code)
  OBVIOUS
<1>1. DOMAIN code = 1 .. size
  BY <1>0
<1> DEFINE X == RangeMaps(B)
           Step(k, x) == IF v \in Reads(code[k])
                         THEN ReadRange(x, b, start, start + k - 1) ELSE x
           step == [k \in 1 .. size |-> [x \in X |-> Step(k, x)]]
<1>2. step \in [1 .. size -> [X -> X]]
  <2>1. ASSUME NEW k \in 1 .. size, NEW x \in X PROVE Step(k, x) \in X
    <3>1. start + k - 1 \in Nat
      OBVIOUS
    <3>2. ReadRange(x, b, start, start + k - 1) \in X
      BY <3>1, ReadRangeFacts
    <3>. QED BY <3>2
  <2> HIDE DEF Step, X
  <2>. QED BY <2>1
<1> HIDE DEF Step
<1>3. PICK h \in [0 .. size -> X] : IsBuilt(h, size, map, step)
  <2> HIDE DEF step
  <2>. QED BY <1>2, BuiltExists
<1>4. \A k \in 0 .. size : h[k] = IF k = 0 THEN map ELSE Step(k, h[k - 1])
  <2> TAKE k \in 0 .. size
  <2>1. h[k] = IF k = 0 THEN map ELSE step[k][h[k - 1]]
    <3> HIDE DEF step
    <3>. QED BY <1>3 DEF IsBuilt
  <2>2. CASE k # 0
    <3>1. k \in 1 .. size /\ k - 1 \in 0 .. size
      BY <2>2
    <3>2. h[k - 1] \in X
      BY <1>3, <3>1
    <3>3. step[k][h[k - 1]] = Step(k, h[k - 1])
      BY <3>1, <3>2
    <3>. QED BY <2>1, <2>2, <3>3
  <2>. QED BY <2>1, <2>2
<1>5. IsReads(h, map, v, b, start, code)
  <2>1. h = [k \in 0 .. size |-> h[k]]
    BY <1>3
  <2>. QED BY <1>0, <1>4, <2>1 DEF IsReads, Step
<1> DEFINE g == CHOOSE z : IsReads(z, map, v, b, start, code)
<1>6. IsReads(g, map, v, b, start, code)
  BY <1>5
<1>7. AfterReads(map, v, b, start, code) = g[size]
  BY <1>0 DEF AfterReads, IsReads
<1> HIDE DEF g, step
<1>8. /\ g[0] = map
      /\ \A k \in 1 .. size : g[k] = Step(k, g[k - 1])
  <2>1. \A k \in 0 .. size : g[k] = IF k = 0 THEN map ELSE Step(k, g[k - 1])
    BY <1>0, <1>6 DEF IsReads, Step
  <2>. QED BY <2>1
<1> DEFINE ReadsTo(k) == {n \in 1 .. k : v \in Reads(code[n])}
           Good(k) ==
             /\ g[k] \in X
             /\ DOMAIN g[k] = DOMAIN map \cup (IF ReadsTo(k) = {} THEN {} ELSE {b})
             /\ \A c \in DOMAIN map : c # b => g[k][c] = map[c]
             /\ b \in DOMAIN g[k] =>
                  /\ g[k][b] \in LiveRanges
                  /\ g[k][b].start = IF b \in DOMAIN map THEN map[b].start ELSE start
                  /\ b \in DOMAIN map => map[b].end <= g[k][b].end
                  /\ \A n \in ReadsTo(k) : start + n - 1 <= g[k][b].end
                  /\ \/ b \in DOMAIN map /\ g[k][b].end = map[b].end
                     \/ \E n \in ReadsTo(k) : g[k][b].end = start + n - 1
           P == {k \in 0 .. size : Good(k)}
<1>9. 0 \in P
  <2>1. ReadsTo(0) = {}
    OBVIOUS
  <2>2. b \in DOMAIN map => map[b] \in LiveRanges /\ map[b].end \in Nat
    BY DEF RangeMaps, LiveRanges
  <2>3. Good(0)
    BY <1>8, <2>1, <2>2
  <2>. QED BY <2>3
<1>10. ASSUME NEW k \in 1 .. size, k - 1 \in P PROVE k \in P
  <2>1. Good(k - 1) /\ k - 1 \in 0 .. size
    BY <1>10
  <2>2. CASE v \notin Reads(code[k])
    <3>1. g[k] = g[k - 1]
      BY <1>8, <2>2 DEF Step
    <3>2. ReadsTo(k) = ReadsTo(k - 1)
      BY <2>2
    <3> HIDE DEF ReadsTo
    <3>3. Good(k)
      BY <2>1, <3>1, <3>2
    <3>. QED BY <3>3
  <2>3. CASE v \in Reads(code[k])
    <3> DEFINE m == g[k - 1]
               num == start + k - 1
               after == g[k]
    <3>1. num \in Nat /\ m \in X
      BY <2>1
    <3>2. after = ReadRange(m, b, start, num)
      BY <1>8, <2>3 DEF Step
    <3>3. ReadsTo(k) = ReadsTo(k - 1) \cup {k}
      BY <2>3
    <3>4. /\ DOMAIN m = DOMAIN map \cup (IF ReadsTo(k - 1) = {} THEN {} ELSE {b})
          /\ \A c \in DOMAIN map : c # b => m[c] = map[c]
          /\ b \in DOMAIN m =>
                  /\ m[b] \in LiveRanges
                  /\ m[b].start = IF b \in DOMAIN map THEN map[b].start ELSE start
                  /\ b \in DOMAIN map => map[b].end <= m[b].end
                  /\ \A n \in ReadsTo(k - 1) : start + n - 1 <= m[b].end
                  /\ \/ b \in DOMAIN map /\ m[b].end = map[b].end
                     \/ \E n \in ReadsTo(k - 1) : m[b].end = start + n - 1
      BY <2>1
    <3>5. \A n \in ReadsTo(k - 1) : start + n - 1 \in Nat
      OBVIOUS
    <3>6. b \in DOMAIN map => map[b] \in LiveRanges /\ map[b].end \in Nat
      BY DEF RangeMaps, LiveRanges
    <3> HIDE DEF m, num, ReadsTo, Good, X
    <3>7. /\ after \in X /\ DOMAIN after = DOMAIN m \cup {b}
          /\ \A c \in DOMAIN m : c # b => after[c] = m[c]
          /\ after[b] = IF b \in DOMAIN m THEN Propagate(m[b], num) ELSE NewRange(start, num)
      <4> HIDE DEF after
      <4> DEFINE r == ReadRange(m, b, start, num)
      <4>1. /\ r \in RangeMaps(B) /\ DOMAIN r = DOMAIN m \cup {b}
            /\ \A c \in DOMAIN m : c # b => r[c] = m[c]
            /\ r[b] = IF b \in DOMAIN m THEN Propagate(m[b], num) ELSE NewRange(start, num)
        <5>1. m \in RangeMaps(B)
          BY <3>1 DEF X
        <5>. QED BY <3>1, <5>1, ReadRangeFacts
      <4> HIDE DEF r
      <4>2. after = r
        BY <3>2 DEF r
      <4>. QED BY <4>1, <4>2 DEF X
    <3> HIDE DEF after
    <3>8. DOMAIN after = DOMAIN map \cup (IF ReadsTo(k) = {} THEN {} ELSE {b})
      BY <3>3, <3>4, <3>7
    <3>9. \A c \in DOMAIN map : c # b => after[c] = map[c]
      BY <3>4, <3>7
    <3>10. CASE b \in DOMAIN m
      <4>1. m[b] \in LiveRanges /\ after[b] = Propagate(m[b], num)
        BY <3>4, <3>7, <3>10
      <4>2. /\ after[b] \in LiveRanges /\ after[b].start = m[b].start
            /\ after[b].end = MaxOf(m[b].end, num) /\ m[b].end \in Nat
        BY <3>1, <4>1, PropagateFacts
      <4>3. m[b].end <= after[b].end /\ num <= after[b].end
            /\ (after[b].end = m[b].end \/ after[b].end = num)
        BY <3>1, <4>2 DEF MaxOf
      <4>9. after[b].end \in Nat
        BY <4>2 DEF LiveRanges
      <4>4. b \in DOMAIN map => map[b].end <= after[b].end
        BY <3>4, <3>6, <3>10, <4>2, <4>3, <4>9
      <4>5. \A n \in ReadsTo(k) : start + n - 1 <= after[b].end
        <5>1. \A n \in ReadsTo(k - 1) : start + n - 1 <= after[b].end
          BY <3>4, <3>5, <3>10, <4>2, <4>3, <4>9
        <5>. QED BY <3>3, <4>3, <5>1 DEF num
      <4>6. \/ b \in DOMAIN map /\ after[b].end = map[b].end
            \/ \E n \in ReadsTo(k) : after[b].end = start + n - 1
        BY <3>3, <3>4, <3>10, <4>3 DEF num
      <4>7. after[b].start = IF b \in DOMAIN map THEN map[b].start ELSE start
        BY <3>4, <3>10, <4>2
      <4>8. Good(k)
        BY <3>7, <3>8, <3>9, <4>2, <4>4, <4>5, <4>6, <4>7 DEF Good, after
      <4>. QED BY <4>8
    <3>11. CASE b \notin DOMAIN m
      <4>1. /\ after[b] \in LiveRanges /\ after[b].start = start /\ after[b].end = num
        BY <3>1, <3>7, <3>11 DEF NewRange, LiveRanges
      <4>2. b \notin DOMAIN map /\ ReadsTo(k - 1) = {}
        BY <3>4, <3>11
      <4>3. \A n \in ReadsTo(k) : n = k
        BY <3>3, <4>2
      <4>4. k \in ReadsTo(k)
        BY <3>3
      <4>6. num <= num
        BY <3>1
      <4>5. Good(k)
        BY <3>7, <3>8, <3>9, <4>1, <4>2, <4>3, <4>4, <4>6 DEF Good, after, num
      <4>. QED BY <4>5
    <3>. QED BY <3>10, <3>11
  <2>. QED BY <2>2, <2>3
<1> HIDE DEF P
<1>11. \A k \in 0 .. size : k \in P
  BY <1>9, <1>10, UpTo
<1>12. Good(size)
  BY <1>11 DEF P
<1>13. ReadsTo(size) = {n \in DOMAIN code : v \in Reads(code[n])}
  BY <1>1
<1> DEFINE rs == {n \in DOMAIN code : v \in Reads(code[n])}
<1>14. ReadsTo(size) = rs
  BY <1>13
<1> HIDE DEF rs, ReadsTo, X
<1>. QED BY <1>7, <1>12, <1>14 DEF rs, X, ReadsDone

----------------------------------------------------------------------------
(* What holds of a block of a function.                                    *)
LEMMA BlockFacts ==
  ASSUME NEW f \in Functions, NEW b \in Block(f)
  PROVE  /\ f.code[b] \in Seq(Range(f.code[b])) /\ Len(f.code[b]) \in Nat /\ Len(f.code[b]) # 0
         /\ FirstNumber(f, b) \in Nat /\ FirstNumber(f, b) # 0
         /\ f.live_in[b] \subseteq Vals(f) /\ Succs(f, b) \subseteq Block(f)
         /\ \A v : v \in DefinedIn(f, b) =>
              /\ DefinedAt(f, v, b) \in 1 .. Len(f.code[b])
              /\ v \in f.code[b][DefinedAt(f, v, b)].outs
         /\ \A v : StartIn(f, v, b) \in Nat
<1>1. f.code[b] \in Seq(Range(f.code[b])) \ {<<>>} /\ f.live_in[b] \subseteq Vals(f)
      /\ Succs(f, b) \subseteq Block(f)
  BY FunctionsAssumption DEF FunctionsAssumption
<1>2. Len(f.code[b]) \in Nat /\ Len(f.code[b]) # 0 /\ DOMAIN f.code[b] = 1 .. Len(f.code[b])
  BY <1>1
<1>3. FirstNumber(f, b) \in Nat /\ FirstNumber(f, b) # 0
  <2>1. b \in Range(f.order) /\ f.order \in Seq(Block(f))
    BY FunctionsAssumption DEF FunctionsAssumption
  <2>2. PICK k \in 1 .. Len(f.order) : f.order[k] = b
    BY <2>1 DEF Range
  <2>3. NumbersUpTo(f)[k - 1] \in Nat /\ FirstNumber(f, b) = NumbersUpTo(f)[k - 1] + 1
    <3>1. k - 1 \in 0 .. Len(f.order)
      BY <2>2
    <3>. QED BY <2>2, <3>1, NumberingFacts
  <2>. QED BY <2>3
<1>4. ASSUME NEW v, v \in DefinedIn(f, b)
      PROVE  DefinedAt(f, v, b) \in 1 .. Len(f.code[b]) /\ v \in f.code[b][DefinedAt(f, v, b)].outs
  <2>1. \E n \in DOMAIN f.code[b] : v \in f.code[b][n].outs
    BY <1>4 DEF DefinedIn
  <2>. QED BY <1>2, <2>1 DEF DefinedAt
<1>5. ASSUME NEW v PROVE StartIn(f, v, b) \in Nat
  <2>1. CASE v \in DefinedIn(f, b)
    BY <1>2, <1>3, <1>4, <2>1 DEF StartIn
  <2>. QED BY <1>3, <2>1 DEF StartIn
<1>. QED BY <1>1, <1>2, <1>3, <1>4, <1>5

(* A value that is live out of the block.                                  *)
LiveOutDone(after, B, map, b, start, size) ==
    /\ after \in RangeMaps(B) /\ DOMAIN after = DOMAIN map \cup {b}
    /\ \A c \in DOMAIN map : c # b => after[c] = map[c]
    /\ after[b] = IF b \in DOMAIN map THEN Propagate(map[b], start + size)
                  ELSE NewRange(start, start + size - 1)

(* A value live out of a block is held to its last instruction, or past it.*)
LEMMA LiveOutFacts ==
  ASSUME NEW B, NEW map \in RangeMaps(B), NEW b \in B, NEW start \in Nat, NEW size \in Nat,
         start # 0
  PROVE  LiveOutDone(LiveOutRange(map, b, start, size), B, map, b, start, size)
<1>1. PICK D \in SUBSET B : map \in [D -> LiveRanges]
  BY DEF RangeMaps
<1> DEFINE after == LiveOutRange(map, b, start, size)
<1>2. CASE b \in D
  <2>1. after = [map EXCEPT ![b] = Propagate(map[b], start + size)]
    BY <1>1, <1>2 DEF LiveOutRange
  <2>2. Propagate(map[b], start + size) \in LiveRanges
    BY <1>1, <1>2, PropagateFacts
  <2> HIDE DEF after
  <2>3. after \in [D -> LiveRanges]
    BY <1>1, <1>2, <2>1, <2>2
  <2>4. after \in RangeMaps(B)
    BY <2>3 DEF RangeMaps
  <2>. QED BY <1>1, <1>2, <2>1, <2>3, <2>4 DEF after, LiveOutDone
<1>3. CASE b \notin D
  <2>1. after = [x \in D \cup {b} |-> IF x \in D THEN map[x]
                                      ELSE NewRange(start, start + size - 1)]
    BY <1>1, <1>3 DEF LiveOutRange, WithRange, Extended
  <2>2. NewRange(start, start + size - 1) \in LiveRanges
    BY DEF NewRange, LiveRanges
  <2> HIDE DEF after
  <2>3. after \in [D \cup {b} -> LiveRanges]
    BY <1>1, <1>3, <2>1, <2>2
  <2>4. after \in RangeMaps(B)
    BY <2>3 DEF RangeMaps
  <2>. QED BY <1>1, <1>3, <2>1, <2>3, <2>4 DEF after, LiveOutDone
<1>. QED BY <1>2, <1>3

(* What eval_usages() makes of a value's ranges when it comes to a block.  *)
Evaluates(f, v, b, map) ==
    AfterReads(AfterLiveOut(map, v, b, FirstNumber(f, b), f.code[b], LiveOut(f, b)),
               v, b, FirstNumber(f, b), f.code[b])

(* The live-out set and the reads of a block make the range IsSpan tells.  *)
LEMMA EvaluatesFacts ==
  ASSUME NEW f \in Functions, NEW b \in Block(f), NEW v \in Vals(f),
         NEW map \in RangeMaps(Block(f)),
         b \in DOMAIN map <=> Home(f, v, b),
         b \in DOMAIN map => map[b] = NewRange(StartIn(f, v, b), StartIn(f, v, b))
  PROVE  LET after == Evaluates(f, v, b, map) IN
         /\ after \in RangeMaps(Block(f))
         /\ DOMAIN after = DOMAIN map \cup (IF Appears(f, v, b) THEN {b} ELSE {})
         /\ \A c \in DOMAIN map : c # b => after[c] = map[c]
         /\ Appears(f, v, b) => IsSpan(f, v, b, after[b])
<1> DEFINE B == Block(f)
           code == f.code[b]
           size == Len(code)
           start == FirstNumber(f, b)
           m == AfterLiveOut(map, v, b, start, code, LiveOut(f, b))
           s == StartIn(f, v, b)
           out == v \in LiveOut(f, b)
           home == Home(f, v, b)
           end == OutEnd(f, v, b)
<1>1. /\ code \in Seq(Range(code)) /\ size \in Nat /\ size # 0
      /\ start \in Nat /\ start # 0 /\ s \in Nat
  BY BlockFacts
<1>2. home => s <= start + size
  <2>1. CASE v \in DefinedIn(f, b)
    <3>1. DefinedAt(f, v, b) \in 1 .. size
      BY <2>1, BlockFacts
    <3> HIDE DEF size, start
    <3>. QED BY <1>1, <2>1, <3>1 DEF StartIn, start
  <2>2. CASE v \notin DefinedIn(f, b)
    BY <1>1, <2>2 DEF StartIn, Home
  <2>. QED BY <2>1, <2>2
<1>3. ~ home => s = start
  BY DEF Home, StartIn
<1>4. end = start + size - (IF home THEN 0 ELSE 1)
  BY DEF OutEnd
<1>5. start <= start + size - 1 /\ start + size - 1 \in Nat
  <2> HIDE DEF size, start
  <2>. QED BY <1>1
<1> DEFINE first == NewRange(s, s)
<1>6. first \in LiveRanges /\ first.start = s /\ first.end = s
  <2> HIDE DEF s
  <2>. QED BY <1>1 DEF NewRange, LiveRanges
<1>7. /\ m \in RangeMaps(B)
      /\ DOMAIN m = DOMAIN map \cup (IF out THEN {b} ELSE {})
      /\ \A c \in DOMAIN map : c # b => m[c] = map[c]
      /\ b \in DOMAIN m =>
           /\ m[b] \in LiveRanges /\ m[b].start = s /\ s <= m[b].end
           /\ out => m[b].end = end
           /\ ~ out => home /\ m[b].end = s
  <2>1. CASE ~ out
    <3>1. m = map
      BY <2>1 DEF AfterLiveOut
    <3> HIDE DEF m, first, s
    <3>. QED BY <1>1, <1>6, <2>1, <3>1 DEF first, s
  <2>2. CASE out
    <3>1. m = LiveOutRange(map, b, start, size)
      BY <2>2 DEF AfterLiveOut
    <3> HIDE DEF m, start, size, s, end
    <3>2. /\ m \in RangeMaps(B) /\ DOMAIN m = DOMAIN map \cup {b}
          /\ \A c \in DOMAIN map : c # b => m[c] = map[c]
          /\ m[b] = IF b \in DOMAIN map THEN Propagate(map[b], start + size)
                    ELSE NewRange(start, start + size - 1)
      <4> DEFINE r == LiveOutRange(map, b, start, size)
      <4>1. /\ r \in RangeMaps(B) /\ DOMAIN r = DOMAIN map \cup {b}
            /\ \A c \in DOMAIN map : c # b => r[c] = map[c]
            /\ r[b] = IF b \in DOMAIN map THEN Propagate(map[b], start + size)
                      ELSE NewRange(start, start + size - 1)
        <5>1. LiveOutDone(r, B, map, b, start, size)
          BY <1>1, LiveOutFacts
        <5> HIDE DEF r
        <5>. QED BY <5>1 DEF LiveOutDone
      <4> HIDE DEF r
      <4>2. m = r
        BY <3>1 DEF r
      <4>. QED BY <4>1, <4>2
    <3>3. CASE home
      <4>1. m[b] = Propagate(first, start + size)
        BY <3>2, <3>3 DEF s
      <4> HIDE DEF first
      <4>2. start + size \in Nat
        BY <1>1
      <4>3. /\ m[b] \in LiveRanges /\ m[b].start = s /\ m[b].end = MaxOf(s, start + size)
        BY <1>6, <4>1, <4>2, PropagateFacts
      <4>4. m[b].end = start + size
        BY <1>1, <1>2, <3>3, <4>3 DEF MaxOf
      <4>. QED BY <1>1, <1>2, <1>4, <2>2, <3>2, <3>3, <4>3, <4>4
    <3>4. CASE ~ home
      <4>1. m[b] = NewRange(start, start + size - 1)
        BY <3>2, <3>4
      <4>2. /\ m[b] \in LiveRanges /\ m[b].start = start /\ m[b].end = start + size - 1
        BY <1>1, <1>5, <4>1 DEF NewRange, LiveRanges
      <4>. QED BY <1>1, <1>3, <1>4, <1>5, <2>2, <3>2, <3>4, <4>2
    <3>. QED BY <3>3, <3>4
  <2>. QED BY <2>1, <2>2
<1> DEFINE after == Evaluates(f, v, b, map)
           reads == ReadIn(f, v, b)
<1>8. after = AfterReads(m, v, b, start, code)
  BY DEF Evaluates
<1>9. /\ after \in RangeMaps(B)
      /\ DOMAIN after = DOMAIN m \cup (IF reads = {} THEN {} ELSE {b})
      /\ \A c \in DOMAIN m : c # b => after[c] = m[c]
      /\ b \in DOMAIN after =>
           /\ after[b] \in LiveRanges
           /\ after[b].start = IF b \in DOMAIN m THEN m[b].start ELSE start
           /\ b \in DOMAIN m => m[b].end <= after[b].end
           /\ \A n \in reads : start + n - 1 <= after[b].end
           /\ \/ b \in DOMAIN m /\ after[b].end = m[b].end
              \/ \E n \in reads : after[b].end = start + n - 1
  <2> DEFINE r == AfterReads(m, v, b, start, code)
             rs == {n \in DOMAIN code : v \in Reads(code[n])}
  <2> HIDE DEF m, start, after, reads, code
  <2>1. /\ r \in RangeMaps(B)
        /\ DOMAIN r = DOMAIN m \cup (IF rs = {} THEN {} ELSE {b})
        /\ \A c \in DOMAIN m : c # b => r[c] = m[c]
        /\ b \in DOMAIN r =>
           /\ r[b] \in LiveRanges
           /\ r[b].start = IF b \in DOMAIN m THEN m[b].start ELSE start
           /\ b \in DOMAIN m => m[b].end <= r[b].end
           /\ \A n \in rs : start + n - 1 <= r[b].end
           /\ \/ b \in DOMAIN m /\ r[b].end = m[b].end
              \/ \E n \in rs : r[b].end = start + n - 1
    <3>1. ReadsDone(r, B, m, v, b, start, code)
      BY <1>1, <1>7, AfterReadsFacts
    <3> HIDE DEF r
    <3>. QED BY <3>1 DEF ReadsDone
  <2>2. reads = rs
    BY DEF reads, ReadIn, code
  <2> HIDE DEF r, rs
  <2>3. after = r
    BY <1>8 DEF r
  <2>. QED BY <2>1, <2>2, <2>3
<1> HIDE DEF m, after
<1>10. DOMAIN after = DOMAIN map \cup (IF Appears(f, v, b) THEN {b} ELSE {})
  BY <1>7, <1>9 DEF Appears
<1>11. \A c \in DOMAIN map : c # b => after[c] = map[c]
  BY <1>7, <1>9
<1>12. ASSUME Appears(f, v, b) PROVE IsSpan(f, v, b, after[b])
  <2>0. b \in DOMAIN after
    BY <1>10, <1>12
  <2>1. after[b] \in LiveRanges /\ after[b].end \in Nat
    BY <1>9, <2>0 DEF LiveRanges
  <2>3. \A n \in reads : start + n - 1 <= after[b].end
    BY <1>9, <2>0
  <2>4. out => end <= after[b].end
    BY <1>7, <1>9, <2>0
  <2>5. \/ home /\ after[b].end = s
        \/ out /\ after[b].end = end
        \/ \E n \in reads : after[b].end = start + n - 1
    BY <1>7, <1>9, <2>0
  <2>6. after[b].start = s
    BY <1>3, <1>7, <1>9, <2>0
  <2>7. s <= after[b].end
    <3>1. CASE b \in DOMAIN m
      <4>1. s <= m[b].end /\ m[b].end <= after[b].end /\ m[b].end \in Nat
        BY <1>7, <1>9, <2>0, <3>1 DEF LiveRanges
      <4> HIDE DEF s
      <4>. QED BY <1>1, <2>1, <4>1
    <3>2. CASE b \notin DOMAIN m
      <4>1. PICK n \in reads : after[b].end = start + n - 1
        BY <1>9, <2>0, <3>2
      <4>2. n \in 1 .. size /\ s = start
        BY <1>1, <1>3, <1>7, <3>2, <4>1 DEF ReadIn
      <4> HIDE DEF s, start, size
      <4>. QED BY <1>1, <4>1, <4>2
    <3>. QED BY <3>1, <3>2
  <2>. QED BY <2>1, <2>3, <2>4, <2>5, <2>6, <2>7 DEF IsSpan
<1>. QED BY <1>9, <1>10, <1>11, <1>12 DEF after

----------------------------------------------------------------------------
(* A value is defined once.                                                *)
LEMMA DefinedOnce ==
  ASSUME NEW f \in Functions, NEW b \in Block(f), NEW n \in DOMAIN f.code[b],
         NEW v \in f.code[b][n].outs
  PROVE  /\ v \notin f.args /\ v \in DefinedIn(f, b) /\ DefinedAt(f, v, b) = n
         /\ \A c \in Block(f) : v \in DefinedIn(f, c) => c = b
<1>1. \A at, other \in Instructions(f) :
        at # other => Inst(f, at).outs \cap Inst(f, other).outs = {}
  BY AnalysedAssumption DEF AnalysedAssumption
<1>2. \A at \in Instructions(f) : Inst(f, at).outs \cap f.args = {}
  BY AnalysedAssumption DEF AnalysedAssumption
<1>3. ASSUME NEW c \in Block(f), NEW m \in DOMAIN f.code[c], v \in f.code[c][m].outs
      PROVE  c = b /\ m = n
  <2>1. <<b, n>> \in Instructions(f) /\ <<c, m>> \in Instructions(f)
    BY DEF Instructions
  <2>2. Inst(f, <<b, n>>) = f.code[b][n] /\ Inst(f, <<c, m>>) = f.code[c][m]
    BY DEF Inst
  <2>3. <<b, n>> = <<c, m>>
    BY <1>1, <1>3, <2>1, <2>2
  <2>. QED BY <2>3
<1>4. v \notin f.args
  <2>1. <<b, n>> \in Instructions(f) /\ Inst(f, <<b, n>>) = f.code[b][n]
    BY DEF Instructions, Inst
  <2>. QED BY <1>2, <2>1
<1>5. v \in DefinedIn(f, b)
  BY DEF DefinedIn
<1>6. DefinedAt(f, v, b) = n
  <2>1. DefinedAt(f, v, b) \in DOMAIN f.code[b] /\ v \in f.code[b][DefinedAt(f, v, b)].outs
    BY DEF DefinedAt
  <2>. QED BY <1>3, <2>1
<1>7. ASSUME NEW c \in Block(f), v \in DefinedIn(f, c) PROVE c = b
  <2>1. PICK m \in DOMAIN f.code[c] : v \in f.code[c][m].outs
    BY <1>7 DEF DefinedIn
  <2>. QED BY <1>3, <2>1
<1>. QED BY <1>4, <1>5, <1>6, <1>7

(* The instruction that defines it, as the passes look it up.              *)
LEMMA DefinitionIs ==
  ASSUME NEW f \in Functions, NEW b \in Block(f), NEW n \in DOMAIN f.code[b],
         NEW v \in f.code[b][n].outs
  PROVE  DefinitionOf(f, v) = <<b, n>>
<1>1. <<b, n>> \in Instructions(f) /\ v \in Inst(f, <<b, n>>).outs
  BY DEF Instructions, Inst
<1>2. ASSUME NEW at \in Instructions(f), v \in Inst(f, at).outs PROVE at = <<b, n>>
  <2>1. Inst(f, at).outs \cap Inst(f, <<b, n>>).outs # {}
    BY <1>1, <1>2
  <2>. QED BY <1>1, <2>1, AnalysedAssumption DEF AnalysedAssumption
<1>. QED BY <1>1, <1>2 DEF DefinitionOf

(* What feeds a phi is no phi and no argument, is defined alone, and ends  *)
(* with its block.                                                         *)
LEMMA CopiesAlone ==
  ASSUME NEW f \in Functions, NEW b \in Block(f), NEW n \in DOMAIN f.code[b],
         NEW v \in f.code[b][n].outs, FeedsPhi(f, v)
  PROVE  f.code[b][n].kind # "pcopy" /\ f.code[b][n].outs = {v} /\ v \notin LiveOut(f, b)
<1>1. <<b, n>> \in Instructions(f) /\ Inst(f, <<b, n>>) = f.code[b][n]
  BY DEF Instructions, Inst
<1>2. v \in Vals(f)
  BY DEF Vals, DefinedIn
<1>3. \A at \in Instructions(f) :
        v \in Inst(f, at).outs => /\ Inst(f, at).kind # "pcopy"
                                  /\ Inst(f, at).outs = {v}
                                  /\ v \notin LiveOut(f, at[1])
  BY <1>2, CopiesAssumption DEF CopiesAssumption
<1>. QED BY <1>1, <1>3

----------------------------------------------------------------------------
(* The evaluation: the ranges opened at the definitions, then, block after *)
(* block, the ranges of the values that appear in the block.               *)
Passed == {func.order[k] : k \in 1 .. pos - 1}

Opened(v) == {b \in Block(func) : Home(func, v, b)}

AtDefinition(v, b) == NewRange(StartIn(func, v, b), StartIn(func, v, b))

LocalSpans ==
    /\ DOMAIN spans = func.args \cup UNION {DefinedIn(func, b) : b \in Passed}
    /\ \A v \in DOMAIN spans :
          /\ spans[v] \in RangeMaps(Block(func)) /\ DOMAIN spans[v] = Opened(v)
          /\ \A b \in Opened(v) : spans[v][b] = AtDefinition(v, b)

UsageSpans ==
    /\ DOMAIN spans = Vals(func)
    /\ \A v \in Vals(func) :
          /\ spans[v] \in RangeMaps(Block(func))
          /\ DOMAIN spans[v] = Opened(v) \cup {b \in Passed : Appears(func, v, b)}
          /\ \A b \in DOMAIN spans[v] :
                IF b \in Passed THEN IsSpan(func, v, b, spans[v][b])
                ELSE spans[v][b] = AtDefinition(v, b)

SpansInvariant ==
    /\ func \in Functions
    /\ phase \in {"locals", "usages", "evaluated"}
    /\ pos \in 1 .. Len(func.order) + 1
    /\ phase = "evaluated" => pos = Len(func.order) + 1
    /\ inst_number = NumbersUpTo(func)[pos - 1]
    /\ IF phase = "locals" THEN LocalSpans ELSE UsageSpans

(* setup_arguments() opens the ranges of the arguments in the first block. *)
LEMMA SpansAtFirst == Init => SpansInvariant
<1> SUFFICES ASSUME Init PROVE SpansInvariant
  OBVIOUS
<1>1. /\ func \in Functions /\ phase = "locals" /\ pos = 1 /\ inst_number = 0
      /\ spans = [v \in func.args |-> [b \in {func.order[1]} |-> NewRange(0, 0)]]
  BY DEF Init
<1>2. PICK n \in Nat : n = Len(func.order) /\ n # 0 /\ func.order[1] \in Block(func)
  <2>1. func.order \in Seq(Block(func)) \ {<<>>}
    BY <1>1, FunctionsAssumption DEF FunctionsAssumption
  <2>2. Len(func.order) \in Nat /\ Len(func.order) # 0
    BY <2>1
  <2>3. func.order[1] \in Block(func)
    BY <2>1, <2>2
  <2>. QED BY <2>2, <2>3
<1>3. Passed = {}
  BY <1>1 DEF Passed
<1>4. inst_number = NumbersUpTo(func)[pos - 1] /\ pos \in 1 .. Len(func.order) + 1
  BY <1>1, <1>2, NumberingFacts
<1>5. ASSUME NEW v \in func.args
      PROVE  /\ spans[v] \in RangeMaps(Block(func)) /\ DOMAIN spans[v] = Opened(v)
             /\ \A b \in Opened(v) : spans[v][b] = AtDefinition(v, b)
  <2>1. \A b \in Block(func) : v \notin DefinedIn(func, b)
    <3>1. ASSUME NEW b \in Block(func), v \in DefinedIn(func, b) PROVE FALSE
      <4>1. PICK m \in DOMAIN func.code[b] : v \in func.code[b][m].outs
        BY <3>1 DEF DefinedIn
      <4>. QED BY <1>1, <4>1, DefinedOnce
    <3>. QED BY <3>1
  <2>2. Opened(v) = {func.order[1]}
    BY <1>2, <2>1 DEF Opened, Home
  <2>3. spans[v] = [b \in {func.order[1]} |-> NewRange(0, 0)]
    BY <1>1
  <2>4. NewRange(0, 0) \in LiveRanges
    BY DEF NewRange, LiveRanges
  <2>5. spans[v] \in [{func.order[1]} -> LiveRanges]
    BY <2>3, <2>4
  <2>6. {func.order[1]} \in SUBSET Block(func)
    BY <1>2
  <2>7. spans[v] \in RangeMaps(Block(func))
    BY <2>5, <2>6 DEF RangeMaps
  <2>8. AtDefinition(v, func.order[1]) = NewRange(0, 0)
    BY <1>2, <2>1 DEF AtDefinition, StartIn
  <2>. QED BY <2>2, <2>3, <2>7, <2>8
<1>6. LocalSpans
  BY <1>1, <1>3, <1>5 DEF LocalSpans
<1>. QED BY <1>1, <1>4, <1>6 DEF SpansInvariant

(* The next block is not one of those before it.                           *)
LEMMA NextBlock ==
  ASSUME SpansInvariant, pos <= Len(func.order)
  PROVE  /\ ThisBlock \in Block(func) \ Passed
         /\ {func.order[k] : k \in 1 .. (pos + 1) - 1} = Passed \cup {ThisBlock}
         /\ pos + 1 \in 1 .. Len(func.order) + 1
         /\ inst_number + 1 = FirstNumber(func, ThisBlock)
         /\ inst_number + Len(Code) = NumbersUpTo(func)[(pos + 1) - 1]
<1>1. PICK n \in Nat : n = Len(func.order)
  BY FunctionsAssumption DEF FunctionsAssumption, SpansInvariant
<1>2. pos \in 1 .. n /\ func \in Functions /\ inst_number = NumbersUpTo(func)[pos - 1]
  BY <1>1 DEF SpansInvariant
<1>3. func.order \in Seq(Block(func)) /\ DOMAIN func.order = 1 .. n
      /\ \A j, k \in 1 .. n : j # k => func.order[j] # func.order[k]
  BY <1>1, <1>2, FunctionsAssumption DEF FunctionsAssumption
<1>4. ThisBlock \in Block(func) \ Passed
  BY <1>1, <1>2, <1>3 DEF ThisBlock, Passed
<1>5. 1 .. (pos + 1) - 1 = (1 .. pos - 1) \cup {pos}
  BY <1>2
<1>6. {func.order[k] : k \in 1 .. (pos + 1) - 1} = Passed \cup {ThisBlock}
  BY <1>5 DEF Passed, ThisBlock
<1>7. /\ NumbersUpTo(func)[pos] = NumbersUpTo(func)[pos - 1] + Len(func.code[func.order[pos]])
      /\ FirstNumber(func, func.order[pos]) = NumbersUpTo(func)[pos - 1] + 1
  BY <1>1, <1>2, NumberingFacts
<1>8. (pos + 1) - 1 = pos
  BY <1>2
<1>. QED BY <1>1, <1>2, <1>4, <1>6, <1>7, <1>8 DEF ThisBlock, Code

(* setup_locals() opens the ranges of what the next block defines.         *)
LEMMA SpansWithLocals ==
  ASSUME SpansInvariant, SetupLocals
  PROVE  SpansInvariant'
<1> DEFINE b == ThisBlock
           local(v) == CHOOSE m \in DOMAIN Code : v \in Code[m].outs
           new == [v \in DefinedIn(func, b) |->
                     [c \in {b} |-> NewRange(inst_number + local(v), inst_number + local(v))]]
<1>1. /\ phase = "locals" /\ pos <= Len(func.order) /\ LocalSpans /\ func \in Functions
      /\ spans' = Extended(spans, new)
      /\ inst_number' = inst_number + Len(Code) /\ pos' = pos + 1
      /\ func' = func /\ phase' = phase
  BY DEF SetupLocals, SpansInvariant
<1>2. /\ b \in Block(func) \ Passed
      /\ Passed' = Passed \cup {b}
      /\ pos' \in 1 .. Len(func'.order) + 1
      /\ inst_number + 1 = FirstNumber(func, b)
      /\ inst_number' = NumbersUpTo(func')[pos' - 1]
  BY <1>1, NextBlock DEF Passed
<1>3. inst_number \in Nat
  <2>1. pos - 1 \in 0 .. Len(func.order) /\ inst_number = NumbersUpTo(func)[pos - 1]
    BY <1>1 DEF SpansInvariant
  <2>. QED BY <1>1, <2>1, NumberingFacts
<1>4. ASSUME NEW v \in DefinedIn(func, b)
      PROVE  /\ new[v] \in RangeMaps(Block(func)) /\ DOMAIN new[v] = Opened(v)
             /\ \A c \in Opened(v) : new[v][c] = AtDefinition(v, c)
             /\ v \notin DOMAIN spans
  <2>1. PICK m \in DOMAIN func.code[b] : v \in func.code[b][m].outs
    BY DEF DefinedIn
  <2>2. /\ v \notin func.args /\ DefinedAt(func, v, b) = m
        /\ \A c \in Block(func) : v \in DefinedIn(func, c) => c = b
    BY <1>1, <1>2, <2>1, DefinedOnce
  <2>3. Opened(v) = {b}
    BY <1>2, <2>2 DEF Opened, Home
  <2>4. local(v) = m
    BY <2>2 DEF DefinedAt, Code
  <2> HIDE DEF local
  <2>5. new[v] = [c \in {b} |-> NewRange(inst_number + m, inst_number + m)]
    BY <2>4
  <2> HIDE DEF new
  <2>6. m \in Nat
    <3>1. m \in 1 .. Len(func.code[b])
      BY <1>1, <1>2, <2>1, BlockFacts
    <3>. QED BY <3>1
  <2>7. StartIn(func, v, b) = inst_number + m
    <3>1. StartIn(func, v, b) = FirstNumber(func, b) + m - 1
      BY <2>2 DEF StartIn
    <3>2. FirstNumber(func, b) + m - 1 = inst_number + m
      BY <1>2, <1>3, <2>6
    <3>. QED BY <3>1, <3>2
  <2>8. NewRange(inst_number + m, inst_number + m) \in LiveRanges
    BY <1>3, <2>6 DEF NewRange, LiveRanges
  <2>9. new[v] \in [{b} -> LiveRanges]
    BY <2>5, <2>8
  <2>10. new[v] \in RangeMaps(Block(func))
    BY <1>2, <2>9 DEF RangeMaps
  <2>11. v \notin DOMAIN spans
    <3>1. \A c \in Passed : c \in Block(func) => v \notin DefinedIn(func, c)
      BY <1>2, <2>2
    <3>2. Passed \subseteq Block(func)
      <4>1. func.order \in Seq(Block(func)) /\ pos \in Nat /\ pos <= Len(func.order) + 1
        BY <1>1, FunctionsAssumption DEF FunctionsAssumption, SpansInvariant
      <4>2. \A k \in 1 .. pos - 1 : func.order[k] \in Block(func)
        BY <4>1
      <4>. QED BY <4>2 DEF Passed
    <3>3. v \notin UNION {DefinedIn(func, c) : c \in Passed}
      BY <3>1, <3>2
    <3>. QED BY <1>1, <2>2, <3>3 DEF LocalSpans
  <2>. QED BY <2>3, <2>5, <2>7, <2>10, <2>11 DEF AtDefinition
<1>5. DOMAIN new = DefinedIn(func, b)
  OBVIOUS
<1> HIDE DEF new, b
<1>6. /\ DOMAIN spans' = DOMAIN spans \cup DefinedIn(func, b)
      /\ \A v \in DOMAIN spans : spans'[v] = spans[v]
      /\ \A v \in DefinedIn(func, b) : spans'[v] = new[v]
  BY <1>1, <1>4, <1>5 DEF Extended
<1>7. DOMAIN spans' = func.args \cup UNION {DefinedIn(func, c) : c \in Passed'}
  BY <1>1, <1>2, <1>6 DEF LocalSpans
<1>8. \A v \in DOMAIN spans' :
          /\ spans'[v] \in RangeMaps(Block(func)) /\ DOMAIN spans'[v] = Opened(v)
          /\ \A c \in Opened(v) : spans'[v][c] = AtDefinition(v, c)
  BY <1>1, <1>4, <1>6 DEF LocalSpans
<1>9. LocalSpans'
  BY <1>1, <1>7, <1>8 DEF LocalSpans, Opened, AtDefinition
<1>. QED BY <1>1, <1>2, <1>9 DEF SpansInvariant

(* After the last block every value has the range of its definition.       *)
LEMMA SpansWhenUsagesStart ==
  ASSUME SpansInvariant, StartUsages
  PROVE  SpansInvariant'
<1>1. /\ phase = "locals" /\ pos > Len(func.order) /\ LocalSpans /\ func \in Functions
      /\ phase' = "usages" /\ pos' = 1 /\ inst_number' = 0
      /\ func' = func /\ spans' = spans
  BY DEF StartUsages, SpansInvariant
<1>2. PICK n \in Nat : n = Len(func.order)
  BY FunctionsAssumption DEF FunctionsAssumption, SpansInvariant
<1>3. pos - 1 = n
  BY <1>1, <1>2 DEF SpansInvariant
<1>4. Passed = Block(func)
  <2>1. Range(func.order) = Block(func) /\ DOMAIN func.order = 1 .. n
    BY <1>1, <1>2, FunctionsAssumption DEF FunctionsAssumption
  <2>. QED BY <1>3, <2>1 DEF Passed, Range
<1>5. Passed' = {}
  BY <1>1 DEF Passed
<1>6. DOMAIN spans = Vals(func)
  BY <1>1, <1>4 DEF LocalSpans, Vals
<1>7. UsageSpans'
  <2>1. \A v \in Vals(func) : DOMAIN spans'[v] = Opened(v)
                                \cup {b \in Passed' : Appears(func, v, b)}
    BY <1>1, <1>5, <1>6 DEF LocalSpans
  <2>2. \A v \in Vals(func) : \A b \in DOMAIN spans'[v] :
                b \notin Passed' /\ spans'[v][b] = AtDefinition(v, b)
    BY <1>1, <1>5, <1>6 DEF LocalSpans
  <2>3. \A v \in Vals(func) : spans'[v] \in RangeMaps(Block(func))
    BY <1>1, <1>6 DEF LocalSpans
  <2>. QED BY <1>1, <1>6, <2>1, <2>2, <2>3 DEF UsageSpans, Opened, AtDefinition
<1>8. inst_number' = NumbersUpTo(func')[pos' - 1] /\ pos' \in 1 .. Len(func'.order) + 1
  BY <1>1, <1>2, NumberingFacts
<1>. QED BY <1>1, <1>7, <1>8 DEF SpansInvariant

(* eval_usages() completes the ranges of the next block and no others.     *)
LEMMA SpansWithUsages ==
  ASSUME SpansInvariant, EvalUsages
  PROVE  SpansInvariant'
<1> DEFINE b == ThisBlock
           after(v) == Evaluates(func, v, b, spans[v])
<1>1. /\ phase = "usages" /\ pos <= Len(func.order) /\ UsageSpans /\ func \in Functions
      /\ inst_number' = inst_number + Len(Code) /\ pos' = pos + 1
      /\ func' = func /\ phase' = phase
  BY DEF EvalUsages, SpansInvariant
<1>2. /\ b \in Block(func) /\ b \notin Passed
      /\ Passed' = Passed \cup {b}
      /\ pos' \in 1 .. Len(func'.order) + 1
      /\ inst_number + 1 = FirstNumber(func, b)
      /\ inst_number' = NumbersUpTo(func')[pos' - 1]
  BY <1>1, NextBlock DEF Passed
<1>3. spans' = [v \in Vals(func) |-> after(v)]
  <2>1. spans' = [v \in DOMAIN spans |->
                   AfterReads(AfterLiveOut(spans[v], v, b, inst_number + 1, Code,
                                           LiveOut(func, b)),
                              v, b, inst_number + 1, Code)]
    BY DEF EvalUsages
  <2>2. DOMAIN spans = Vals(func)
    BY <1>1 DEF UsageSpans
  <2>. QED BY <1>2, <2>1, <2>2 DEF Evaluates, Code
<1> HIDE DEF b
<1>4. ASSUME NEW v \in Vals(func)
      PROVE  /\ spans'[v] \in RangeMaps(Block(func))
             /\ DOMAIN spans'[v] = Opened(v) \cup {c \in Passed' : Appears(func, v, c)}
             /\ \A c \in DOMAIN spans'[v] :
                  IF c \in Passed' THEN IsSpan(func, v, c, spans'[v][c])
                  ELSE spans'[v][c] = AtDefinition(v, c)
  <2> DEFINE map == spans[v]
             r == spans'[v]
  <2>1. /\ map \in RangeMaps(Block(func))
        /\ DOMAIN map = Opened(v) \cup {c \in Passed : Appears(func, v, c)}
        /\ \A c \in DOMAIN map : IF c \in Passed THEN IsSpan(func, v, c, map[c])
                                 ELSE map[c] = AtDefinition(v, c)
    BY <1>1 DEF UsageSpans
  <2>2. b \in DOMAIN map <=> Home(func, v, b)
    BY <1>2, <2>1 DEF Opened
  <2>3. b \in DOMAIN map => map[b] = NewRange(StartIn(func, v, b), StartIn(func, v, b))
    BY <1>2, <2>1 DEF AtDefinition
  <2>4. r = after(v)
    BY <1>3
  <2> HIDE DEF map
  <2>5. LET m == Evaluates(func, v, b, map) IN
        /\ m \in RangeMaps(Block(func))
        /\ DOMAIN m = DOMAIN map \cup (IF Appears(func, v, b) THEN {b} ELSE {})
        /\ \A c \in DOMAIN map : c # b => m[c] = map[c]
        /\ Appears(func, v, b) => IsSpan(func, v, b, m[b])
    BY <1>1, <1>2, <2>1, <2>2, <2>3, EvaluatesFacts
  <2>6. r = Evaluates(func, v, b, map)
    BY <2>4 DEF map
  <2> HIDE DEF r
  <2>7. /\ r \in RangeMaps(Block(func))
        /\ DOMAIN r = DOMAIN map \cup (IF Appears(func, v, b) THEN {b} ELSE {})
        /\ \A c \in DOMAIN map : c # b => r[c] = map[c]
        /\ Appears(func, v, b) => IsSpan(func, v, b, r[b])
    BY <2>5, <2>6
  <2>8. DOMAIN r = Opened(v) \cup {c \in Passed' : Appears(func, v, c)}
    BY <1>2, <2>1, <2>7
  <2>9. ASSUME NEW c \in DOMAIN r
        PROVE  IF c \in Passed' THEN IsSpan(func, v, c, r[c]) ELSE r[c] = AtDefinition(v, c)
    <3>1. CASE c = b
      <4>1. Appears(func, v, b)
        BY <1>2, <2>2, <2>7, <2>9, <3>1 DEF Appears
      <4>. QED BY <1>2, <2>7, <3>1, <4>1
    <3>2. CASE c # b
      <4>1. c \in DOMAIN map /\ r[c] = map[c] /\ (c \in Passed' <=> c \in Passed)
        BY <1>2, <2>7, <2>9, <3>2
      <4>. QED BY <2>1, <4>1
    <3>. QED BY <3>1, <3>2
  <2>. QED BY <2>7, <2>8, <2>9 DEF r
<1>5. DOMAIN spans' = Vals(func)
  BY <1>3
<1>6. UsageSpans'
  BY <1>1, <1>4, <1>5 DEF UsageSpans, Opened, AtDefinition
<1>. QED BY <1>1, <1>2, <1>6 DEF SpansInvariant

(* result() leaves the ranges alone.                                       *)
LEMMA SpansAtResult ==
  ASSUME SpansInvariant, Result
  PROVE  SpansInvariant'
<1>1. /\ phase = "usages" /\ pos > Len(func.order) /\ phase' = "evaluated"
      /\ func' = func /\ pos' = pos /\ inst_number' = inst_number /\ spans' = spans
  BY DEF Result
<1>2. PICK n \in Nat : n = Len(func.order)
  BY FunctionsAssumption DEF FunctionsAssumption, SpansInvariant
<1>3. pos = n + 1
  BY <1>1, <1>2 DEF SpansInvariant
<1>4. UsageSpans'
  BY <1>1 DEF SpansInvariant, UsageSpans, Passed, Opened, AtDefinition
<1>. QED BY <1>1, <1>2, <1>3, <1>4 DEF SpansInvariant

(* No step breaks the invariant.                                           *)
LEMMA SpansStay == SpansInvariant /\ [IntervalsNext]_ivars => SpansInvariant'
<1> SUFFICES ASSUME SpansInvariant, [IntervalsNext]_ivars PROVE SpansInvariant'
  OBVIOUS
<1>1. CASE SetupLocals
  BY <1>1, SpansWithLocals
<1>2. CASE StartUsages
  BY <1>2, SpansWhenUsagesStart
<1>3. CASE EvalUsages
  BY <1>3, SpansWithUsages
<1>4. CASE Result
  BY <1>4, SpansAtResult
<1>5. CASE UNCHANGED ivars
  <2>1. func' = func /\ phase' = phase /\ pos' = pos /\ inst_number' = inst_number /\ spans' = spans
    BY <1>5 DEF ivars
  <2>2. LocalSpans' <=> LocalSpans
    BY <2>1 DEF LocalSpans, Passed, Opened, AtDefinition
  <2>3. UsageSpans' <=> UsageSpans
    BY <2>1 DEF UsageSpans, Passed, Opened, AtDefinition
  <2>. QED BY <2>1, <2>2, <2>3 DEF SpansInvariant
<1>. QED BY <1>1, <1>2, <1>3, <1>4, <1>5 DEF IntervalsNext

(* The invariant behind the theorems on intervals: at every point of the   *)
(* evaluation each block passed has, for every value that is live in it,   *)
(* the range the definition, the reads and live_out ask for, and no other. *)
THEOREM RangesAsEvaluated == IntervalsSpec => []SpansInvariant
<1>. QED BY SpansAtFirst, SpansStay, PTL DEF IntervalsSpec

----------------------------------------------------------------------------
(* Once every block is passed, each value has a range in every block it    *)
(* appears in.                                                             *)
AllPassed == phase # "locals" /\ pos = Len(func.order) + 1

EachSpan ==
    \A v \in Vals(func) :
        /\ spans[v] \in RangeMaps(Block(func))
        /\ DOMAIN spans[v] = {b \in Block(func) : Appears(func, v, b)}
        /\ \A b \in DOMAIN spans[v] : IsSpan(func, v, b, spans[v][b])

(* Once every block has been passed, every range is complete.              *)
LEMMA SpansAtEnd ==
  ASSUME SpansInvariant, AllPassed
  PROVE  func \in Functions /\ DOMAIN spans = Vals(func) /\ EachSpan
<1>1. /\ func \in Functions /\ UsageSpans /\ pos = Len(func.order) + 1
  BY DEF SpansInvariant, AllPassed
<1>2. PICK n \in Nat : n = Len(func.order)
  BY <1>1, FunctionsAssumption DEF FunctionsAssumption
<1>3. Passed = Block(func)
  <2>1. Range(func.order) = Block(func) /\ DOMAIN func.order = 1 .. n /\ pos - 1 = n
    BY <1>1, <1>2, FunctionsAssumption DEF FunctionsAssumption
  <2>. QED BY <2>1 DEF Passed, Range
<1>4. \A v \in Vals(func) :
        DOMAIN spans[v] = {b \in Block(func) : Appears(func, v, b)}
  BY <1>1, <1>3 DEF UsageSpans, Opened, Appears
<1>. QED BY <1>1, <1>3, <1>4 DEF UsageSpans, EachSpan

(* A value that appears in a block is there from the start of its range on *)
(* or read by a parallel copy ...                                          *)
LEMMA HereAfterStart ==
  ASSUME NEW f \in Functions, NEW b \in Block(f), NEW v \in Vals(f), Appears(f, v, b),
         NEW n \in Int, StartIn(f, v, b) <= n, n <= FirstNumber(f, b) + Len(f.code[b]) - 1
  PROVE  LET d == n - FirstNumber(f, b) + 1 IN
         \/ v \in f.live_in[b] \cup PhisOf(f, b)
                   \cup (UNION {f.code[b][m].outs : m \in 1 .. d})
                   \cup (IF b = f.order[1] THEN f.args ELSE {})
         \/ FeedsPhi(f, v)
<1> DEFINE d == n - FirstNumber(f, b) + 1
<1>1. CASE v \in DefinedIn(f, b)
  <2>1. PICK m \in Nat : m = DefinedAt(f, v, b) /\ v \in f.code[b][m].outs /\ m # 0
    BY <1>1, BlockFacts
  <2>2. PICK first \in Nat : first = FirstNumber(f, b)
    BY BlockFacts
  <2>3. first + m - 1 <= n
    BY <1>1, <2>1, <2>2 DEF StartIn
  <2>4. m \in 1 .. d
    BY <2>1, <2>2, <2>3
  <2>. QED BY <2>1, <2>4
<1>2. CASE v \in f.args /\ b = f.order[1]
  BY <1>2
<1>3. CASE ~ Home(f, v, b) /\ v \in LiveOut(f, b)
  <2>1. f.live_in[b] = Exposed(f, b) \cup (LiveOut(f, b) \ DefinedIn(f, b))
    BY AnalysedAssumption DEF AnalysedAssumption
  <2>. QED BY <1>3, <2>1 DEF Home
<1>4. CASE ~ Home(f, v, b) /\ ReadIn(f, v, b) # {}
  <2>1. PICK m \in DOMAIN f.code[b] : v \in Reads(f.code[b][m])
    BY <1>4 DEF ReadIn
  <2>2. CASE f.code[b][m].kind = "pcopy"
    <3>1. <<b, m>> \in Instructions(f) /\ Inst(f, <<b, m>>) = f.code[b][m]
      BY DEF Instructions, Inst
    <3>2. FeedsPhi(f, v)
      BY <2>1, <2>2, <3>1 DEF FeedsPhi
    <3>. QED BY <3>2
  <2>3. CASE f.code[b][m].kind # "pcopy"
    <3>1. \A j \in 1 .. (m - 1) : v \notin f.code[b][j].outs
      <4>1. DOMAIN f.code[b] = 1 .. Len(f.code[b]) /\ Len(f.code[b]) \in Nat
        BY BlockFacts
      <4>2. \A j \in 1 .. (m - 1) : j \in DOMAIN f.code[b]
        BY <2>1, <4>1
      <4>. QED BY <1>4, <4>2 DEF Home, DefinedIn
    <3>2. v \in Exposed(f, b)
      BY <2>1, <2>3, <3>1 DEF Exposed
    <3>3. f.live_in[b] = Exposed(f, b) \cup (LiveOut(f, b) \ DefinedIn(f, b))
      BY AnalysedAssumption DEF AnalysedAssumption
    <3>. QED BY <3>2, <3>3
  <2>. QED BY <2>2, <2>3
<1>. QED BY <1>1, <1>2, <1>3, <1>4 DEF Appears, Home

(* ... and needed up to the end of its range.                              *)
LEMMA LaterBeforeEnd ==
  ASSUME NEW f \in Functions, NEW b \in Block(f), NEW v \in Vals(f), NEW r, IsSpan(f, v, b, r),
         NEW n \in r.start .. (r.end - 1)
  PROVE  LET d == n - FirstNumber(f, b) + 1 IN
         /\ n <= FirstNumber(f, b) + Len(f.code[b]) - 1
         /\ \/ v \in LiveOut(f, b) \cup ReadOnEdge(f, b)
                \cup UNION {Reads(f.code[b][m]) :
                               m \in {j \in (d + 1) .. Len(f.code[b]) :
                                        f.code[b][j].kind # "pcopy"}}
            \/ FeedsPhi(f, v)
<1> DEFINE d == n - FirstNumber(f, b) + 1
<1>0. PICK first, size \in Nat : first = FirstNumber(f, b) /\ size = Len(f.code[b])
  BY BlockFacts
<1>1. r \in LiveRanges /\ r.start \in Nat /\ r.end \in Nat /\ n \in Nat /\ n <= r.end - 1
  BY DEF IsSpan, LiveRanges
<1>2. CASE r.end = r.start
  BY <1>1, <1>2
<1>3. CASE v \in LiveOut(f, b) /\ r.end = OutEnd(f, v, b)
  <2>1. r.end = first + size - (IF Home(f, v, b) THEN 0 ELSE 1)
    BY <1>0, <1>3 DEF OutEnd
  <2>2. r.end <= first + size
    <3>1. CASE Home(f, v, b)
      BY <1>0, <2>1, <3>1
    <3>2. CASE ~ Home(f, v, b)
      BY <1>0, <2>1, <3>2
    <3>. QED BY <3>1, <3>2
  <2>. QED BY <1>0, <1>1, <1>3, <2>2
<1>4. ASSUME NEW m \in ReadIn(f, v, b), r.end = FirstNumber(f, b) + m - 1
      PROVE  /\ n <= FirstNumber(f, b) + Len(f.code[b]) - 1
             /\ \/ v \in UNION {Reads(f.code[b][j]) :
                                   j \in {i \in (d + 1) .. Len(f.code[b]) :
                                            f.code[b][i].kind # "pcopy"}}
                \/ FeedsPhi(f, v)
  <2>1. m \in 1 .. size /\ v \in Reads(f.code[b][m]) /\ m \in DOMAIN f.code[b]
    BY <1>0, <1>4, BlockFacts DEF ReadIn
  <2>2. r.end = first + m - 1
    BY <1>0, <1>4
  <2>3. n <= first + size - 1 /\ m \in (n - first + 1 + 1) .. size
    BY <1>1, <2>1, <2>2
  <2>4. CASE f.code[b][m].kind = "pcopy"
    <3>1. <<b, m>> \in Instructions(f) /\ Inst(f, <<b, m>>) = f.code[b][m]
      BY <2>1 DEF Instructions, Inst
    <3>2. FeedsPhi(f, v)
      BY <2>1, <2>4, <3>1 DEF FeedsPhi
    <3>. QED BY <1>0, <2>3, <3>2
  <2>5. CASE f.code[b][m].kind # "pcopy"
    BY <1>0, <2>1, <2>3, <2>5
  <2>. QED BY <2>4, <2>5
<1>. QED BY <1>2, <1>3, <1>4 DEF IsSpan

(* No range that eval_usages() makes holds a register at a point where no  *)
(* path can still read the value: not past the last read of a block the    *)
(* value does not leave, and never before the definition.                  *)
THEOREM NeverHeldTooLong == IntervalsSpec => []NotHeldTooLong
<1>1. SpansInvariant => NotHeldTooLong
  <2> SUFFICES ASSUME SpansInvariant, Evaluated,
                      NEW v \in Vals(func), NEW b \in DOMAIN spans[v],
                      NEW n \in spans[v][b].start .. (spans[v][b].end - 1)
               PROVE  \/ v \in HeldAfter(func, b, n - FirstNumber(func, b) + 1)
                      \/ FeedsPhi(func, v)
    BY DEF NotHeldTooLong
  <2>1. func \in Functions /\ b \in Block(func) /\ Appears(func, v, b)
        /\ IsSpan(func, v, b, spans[v][b])
    <3>1. AllPassed
      BY DEF SpansInvariant, Evaluated, AllPassed
    <3>. QED BY <3>1, SpansAtEnd DEF EachSpan
  <2>2. n \in Int /\ StartIn(func, v, b) <= n
    BY <2>1 DEF IsSpan, LiveRanges
  <2> DEFINE d == n - FirstNumber(func, b) + 1
             here == func.live_in[b] \cup PhisOf(func, b)
                       \cup (UNION {func.code[b][m].outs : m \in 1 .. d})
                       \cup (IF b = func.order[1] THEN func.args ELSE {})
             later == LiveOut(func, b) \cup ReadOnEdge(func, b)
                       \cup UNION {Reads(func.code[b][m]) :
                               m \in {j \in (d + 1) .. Len(func.code[b]) :
                                        func.code[b][j].kind # "pcopy"}}
  <2>3. n <= FirstNumber(func, b) + Len(func.code[b]) - 1 /\ (v \in later \/ FeedsPhi(func, v))
    BY <2>1, LaterBeforeEnd
  <2>4. v \in here \/ FeedsPhi(func, v)
    BY <2>1, <2>2, <2>3, HereAfterStart
  <2>. QED BY <2>3, <2>4 DEF HeldAfter
<1>. QED BY <1>1, RangesAsEvaluated, PTL

----------------------------------------------------------------------------
(* What SortedByStart puts together, range by range.                       *)
IsSorting(v, g, n) ==
    g = [k \in 0 .. n |-> IF k = 0 THEN <<>> ELSE Insertion(g[k - 1], v[k])]

(* The prefixes of the sort exist.                                         *)
LEMMA SortingExists ==
  ASSUME NEW v, NEW n \in Nat
  PROVE  \E g : IsSorting(v, g, n)
<1> DEFINE P == {m \in 0 .. n : \E g : IsSorting(v, g, m)}
<1>1. 0 \in P
  <2> DEFINE g == [k \in 0 .. 0 |-> <<>>]
  <2>1. IsSorting(v, g, 0)
    BY DEF IsSorting
  <2>. QED BY <2>1
<1>2. ASSUME NEW m \in 1 .. n, m - 1 \in P PROVE m \in P
  <2>1. PICK g : IsSorting(v, g, m - 1)
    BY <1>2
  <2> DEFINE h == [k \in 0 .. m |-> IF k = m THEN Insertion(g[m - 1], v[m]) ELSE g[k]]
  <2>2. ASSUME NEW k \in 0 .. m
        PROVE  h[k] = IF k = 0 THEN <<>> ELSE Insertion(h[k - 1], v[k])
    <3>1. CASE k = m
      <4>1. k # 0 /\ k - 1 \in 0 .. m /\ k - 1 # m
        BY <3>1
      <4>2. h[k - 1] = g[m - 1]
        BY <3>1, <4>1
      <4>. QED BY <3>1, <4>1, <4>2
    <3>2. CASE k # m
      <4>1. k \in 0 .. m - 1 /\ (k # 0 => k - 1 \in 0 .. m /\ k - 1 # m)
        BY <3>2
      <4>2. g[k] = IF k = 0 THEN <<>> ELSE Insertion(g[k - 1], v[k])
        BY <2>1, <4>1 DEF IsSorting
      <4>. QED BY <3>2, <4>1, <4>2
    <3>. QED BY <3>1, <3>2
  <2>3. h = [k \in 0 .. m |-> h[k]]
    OBVIOUS
  <2>4. IsSorting(v, h, m)
    <3> HIDE DEF h
    <3>. QED BY <2>2, <2>3 DEF IsSorting
  <2>. QED BY <2>4
<1> HIDE DEF P
<1>3. n \in P
  BY <1>1, <1>2, UpTo
<1>. QED BY <1>3 DEF P

(* The starts of the ranges differ.                                        *)
StartsDiffer(v) == \A i, j \in 1 .. Len(v) : i # j => v[i].start # v[j].start

(* The sort keeps the ranges and puts their starts in order.               *)
LEMMA SortedFacts ==
  ASSUME NEW v \in Seq(LiveRanges)
  PROVE  /\ SortedByStart(v) \in Seq(LiveRanges)
         /\ StartsDiffer(v) => Ascending(SortedByStart(v))
         /\ Range(SortedByStart(v)) = Range(v)
<1>0. PICK n \in Nat : n = Len(v) /\ DOMAIN v = 1 .. n
  OBVIOUS
<1> DEFINE g == CHOOSE g : IsSorting(v, g, n)
<1>1. IsSorting(v, g, n)
  BY SortingExists
<1>2. SortedByStart(v) = g[n]
  BY <1>0 DEF SortedByStart, IsSorting
<1> HIDE DEF g
<1>3. /\ g[0] = <<>>
      /\ \A k \in 1 .. n : g[k] = Insertion(g[k - 1], v[k])
  <2>1. \A k \in 0 .. n : g[k] = IF k = 0 THEN <<>> ELSE Insertion(g[k - 1], v[k])
    BY <1>1 DEF IsSorting
  <2>. QED BY <2>1
<1> DEFINE Placed(k) == {v[j] : j \in 1 .. k}
           Good(k) == /\ g[k] \in Seq(LiveRanges) /\ InOrder(g[k]) /\ Range(g[k]) = Placed(k)
                      /\ StartsDiffer(v) => Ascending(g[k])
           P == {k \in 0 .. n : Good(k)}
<1>4. 0 \in P
  <2>1. Placed(0) = {}
    OBVIOUS
  <2>2. <<>> \in Seq(LiveRanges) /\ InOrder(<<>>) /\ Ascending(<<>>) /\ Range(<<>>) = {}
    BY DEF InOrder, Ascending, Range
  <2>3. Good(0)
    BY <1>3, <2>1, <2>2
  <2>. QED BY <2>3
<1>5. ASSUME NEW k \in 1 .. n, k - 1 \in P PROVE k \in P
  <2> DEFINE s == g[k - 1]
  <2>1. /\ s \in Seq(LiveRanges) /\ InOrder(s) /\ Range(s) = Placed(k - 1)
        /\ StartsDiffer(v) => Ascending(s)
    BY <1>5
  <2>2. v[k] \in LiveRanges
    BY <1>0
  <2>3. StartsDiffer(v) => \A j \in 1 .. Len(s) : s[j].start # v[k].start
    <3> SUFFICES ASSUME StartsDiffer(v) PROVE \A j \in 1 .. Len(s) : s[j].start # v[k].start
      OBVIOUS
    <3>1. TAKE j \in 1 .. Len(s)
    <3>2. s[j] \in Placed(k - 1)
      <4> HIDE DEF s, Placed
      <4>1. j \in DOMAIN s
        BY <2>1, <3>1
      <4>. QED BY <2>1, <4>1 DEF Range
    <3>3. PICK i \in 1 .. k - 1 : s[j] = v[i]
      BY <3>2
    <3>4. i \in 1 .. Len(v) /\ k \in 1 .. Len(v) /\ i # k
      BY <1>0, <3>3
    <3>. QED BY <3>3, <3>4 DEF StartsDiffer
  <2>4. Placed(k) = Placed(k - 1) \cup {v[k]}
    <3>1. 1 .. k = (1 .. k - 1) \cup {k}
      OBVIOUS
    <3>. QED BY <3>1
  <2>5. g[k] = Insertion(s, v[k])
    BY <1>3
  <2> HIDE DEF s, Placed
  <2>6. Good(k)
    BY <2>1, <2>2, <2>3, <2>4, <2>5, InsertionFacts
  <2>. QED BY <2>6
<1> HIDE DEF P
<1>8. \A k \in 0 .. n : k \in P
  BY <1>4, <1>5, UpTo
<1>6. n \in P
  BY <1>8
<1>7. Range(v) = Placed(n)
  BY <1>0 DEF Range
<1>. QED BY <1>2, <1>6, <1>7 DEF P

----------------------------------------------------------------------------
(* The loop of canonicalize() from any of its states on.                   *)
MergeStates == [u : Seq(LiveRanges), n : Nat \ {0, 1}]

IsMerge(m) ==
    m = [at \in MergeStates |-> IF at.n > Len(at.u) THEN at.u ELSE m[MergeStep(at.u, at.n)]]

MergeFrom(u, n) == (CHOOSE m : IsMerge(m))[[u |-> u, n |-> n]]

(* A range that touches the one before it.                                 *)
FastRemoved(after, u, n) ==
    /\ after \in Seq(LiveRanges) /\ Len(after) = Len(u) - 1
    /\ after[n - 1] = Propagate(u[n - 1], u[n].end)
    /\ \A k \in 1 .. Len(u) - 1 :
         k # n - 1 => after[k] = IF k = n THEN u[Len(u)] ELSE u[k]

(* What remove_fast() leaves where.                                        *)
LEMMA RemovedFast ==
  ASSUME NEW u \in Seq(LiveRanges), NEW n \in 2 .. Len(u)
  PROVE  FastRemoved(RemoveFast([u EXCEPT ![n - 1] = Propagate(u[n - 1], u[n].end)], n), u, n)
<1>0. PICK size \in Nat : size = Len(u) /\ DOMAIN u = 1 .. size /\ n \in 2 .. size
  OBVIOUS
<1> DEFINE r == Propagate(u[n - 1], u[n].end)
           w == [u EXCEPT ![n - 1] = r]
           x == [w EXCEPT ![n] = Last(w)]
<1>1. n - 1 \in 1 .. size /\ n \in 1 .. size /\ size \in 1 .. size
  BY <1>0
<1>2. r \in LiveRanges
  <2>1. u[n - 1] \in LiveRanges /\ u[n] \in LiveRanges
    BY <1>0, <1>1
  <2>2. u[n].end \in Nat
    BY <2>1 DEF LiveRanges
  <2>. QED BY <2>1, <2>2, PropagateFacts
<1> HIDE DEF r
<1>3. /\ w \in Seq(LiveRanges) /\ Len(w) = size /\ w[n - 1] = r
      /\ \A k \in 1 .. size : k # n - 1 => w[k] = u[k]
  BY <1>0, <1>1, <1>2
<1> HIDE DEF w
<1>4. Last(w) = w[size] /\ w[size] \in LiveRanges
  BY <1>1, <1>3 DEF Last
<1>5. /\ x \in Seq(LiveRanges) /\ Len(x) = size /\ x[n] = w[size]
      /\ \A k \in 1 .. size : k # n => x[k] = w[k]
  BY <1>1, <1>3, <1>4
<1> DEFINE after == RemoveFast([u EXCEPT ![n - 1] = Propagate(u[n - 1], u[n].end)], n)
<1>6. after = Front(x)
  BY DEF RemoveFast, w, r
<1> HIDE DEF x, after
<1>7. /\ after \in Seq(LiveRanges) /\ Len(after) = size - 1
      /\ \A k \in 1 .. size - 1 : after[k] = x[k]
  <2>1. after = SubSeq(x, 1, size - 1)
    BY <1>5, <1>6 DEF Front
  <2>. QED BY <1>1, <1>5, <2>1
<1>8. after[n - 1] = r
  <2>1. n - 1 \in 1 .. size - 1 /\ n - 1 # n
    BY <1>0
  <2>. QED BY <1>1, <1>3, <1>5, <1>7, <2>1
<1>9. ASSUME NEW k \in 1 .. size - 1, k # n - 1
      PROVE  after[k] = IF k = n THEN u[size] ELSE u[k]
  <2>1. k \in 1 .. size /\ size # n - 1
    BY <1>0
  <2>. QED BY <1>1, <1>3, <1>5, <1>7, <1>9, <2>1
<1>10. FastRemoved(after, u, n)
  BY <1>0, <1>7, <1>8, <1>9 DEF r, FastRemoved
<1>. QED BY <1>10 DEF after

(* The loop of canonicalize() is one step and then the loop again.         *)
LEMMA MergeUnfolds ==
  ASSUME NEW u \in Seq(LiveRanges), NEW n \in Nat \ {0, 1}
  PROVE  /\ MergeTouching(u) = MergeFrom(u, 2)
         /\ n > Len(u) => MergeFrom(u, n) = u
         /\ ~ (n > Len(u)) =>
              MergeFrom(u, n) =
                IF RangesTouch(u[n], u[n - 1])
                THEN MergeFrom(RemoveFast([u EXCEPT ![n - 1] =
                                             Propagate(u[n - 1], u[n].end)], n), n)
                ELSE MergeFrom(u, n + 1)
<1> DEFINE D == MergeStates
           stop == {at \in D : at.n > Len(at.u)}
           step == [at \in D |-> IF at \in stop THEN at ELSE MergeStep(at.u, at.n)]
           out == [at \in D |-> at.u]
<1>1. ASSUME NEW at \in D \ stop PROVE MergeStep(at.u, at.n) \in D
  <2>1. at.u \in Seq(LiveRanges) /\ at.n \in Nat \ {0, 1} /\ at.n \in 2 .. Len(at.u)
    BY DEF MergeStates
  <2> DEFINE r == RemoveFast([at.u EXCEPT ![at.n - 1] =
                                Propagate(at.u[at.n - 1], at.u[at.n].end)], at.n)
  <2>2. r \in Seq(LiveRanges)
    BY <2>1, RemovedFast DEF FastRemoved
  <2>3. MergeStep(at.u, at.n) = IF RangesTouch(at.u[at.n], at.u[at.n - 1])
                                THEN [u |-> r, n |-> at.n] ELSE [u |-> at.u, n |-> at.n + 1]
    <3>1. at.n - 1 \in DOMAIN at.u
      BY <2>1
    <3>. QED BY <3>1 DEF MergeStep
  <2> HIDE DEF r
  <2>4. at.n + 1 \in Nat \ {0, 1}
    BY <2>1
  <2>. QED BY <2>1, <2>2, <2>3, <2>4 DEF MergeStates
<1>2. step \in [D -> D]
  BY <1>1
<1>3. PICK m : IsLoop(m, D, stop, step, out)
  <2> HIDE DEF step, out, stop, D
  <2>. QED BY <1>2, LoopExists
<1>4. IsMerge(m)
  <2>1. m = [at \in D |-> IF at \in stop THEN out[at] ELSE m[step[at]]]
    BY <1>3 DEF IsLoop
  <2>2. \A at \in D : (IF at \in stop THEN out[at] ELSE m[step[at]])
                      = (IF at.n > Len(at.u) THEN at.u ELSE m[MergeStep(at.u, at.n)])
    OBVIOUS
  <2>. QED BY <2>1, <2>2 DEF IsMerge
<1> DEFINE w == CHOOSE any : IsMerge(any)
<1>5. IsMerge(w)
  BY <1>4
<1>6. MergeTouching(u) = MergeFrom(u, 2)
  BY DEF MergeTouching, MergeFrom, IsMerge, MergeStates, LiveRanges
<1>7. \A x, y : MergeFrom(x, y) = w[[u |-> x, n |-> y]]
  BY DEF MergeFrom
<1> HIDE DEF w, stop, step, out
<1> DEFINE at == [u |-> u, n |-> n]
<1>8. at \in D
  BY DEF MergeStates
<1>9. w[at] = IF n > Len(u) THEN u ELSE w[MergeStep(u, n)]
  BY <1>5, <1>8 DEF IsMerge
<1> DEFINE r == RemoveFast([u EXCEPT ![n - 1] = Propagate(u[n - 1], u[n].end)], n)
<1>10. ~ (n > Len(u)) => MergeStep(u, n) = IF RangesTouch(u[n], u[n - 1])
                                           THEN [u |-> r, n |-> n] ELSE [u |-> u, n |-> n + 1]
  <2>1. ~ (n > Len(u)) => n - 1 \in DOMAIN u
    OBVIOUS
  <2>. QED BY <2>1 DEF MergeStep
<1> HIDE DEF r
<1>11. MergeFrom(u, n) = w[at] /\ MergeFrom(r, n) = w[[u |-> r, n |-> n]]
       /\ MergeFrom(u, n + 1) = w[[u |-> u, n |-> n + 1]]
  BY <1>7
<1>12. CASE n > Len(u)
  BY <1>6, <1>9, <1>11, <1>12
<1>13. CASE ~ (n > Len(u)) /\ RangesTouch(u[n], u[n - 1])
  <2>1. MergeFrom(u, n) = MergeFrom(r, n)
    BY <1>9, <1>10, <1>11, <1>13
  <2>. QED BY <1>6, <1>13, <2>1 DEF r
<1>14. CASE ~ (n > Len(u)) /\ ~ RangesTouch(u[n], u[n - 1])
  <2>1. MergeFrom(u, n) = MergeFrom(u, n + 1)
    BY <1>9, <1>10, <1>11, <1>14
  <2>. QED BY <1>6, <1>14, <2>1
<1>. QED BY <1>12, <1>13, <1>14

(* Ranges of which no two neighbours touch are left alone.                 *)
LEMMA NothingTouches ==
  ASSUME NEW u \in Seq(LiveRanges), \A n \in 2 .. Len(u) : ~ RangesTouch(u[n], u[n - 1])
  PROVE  MergeTouching(u) = u /\ MergeFrom(u, 2) = u
<1>0. PICK size \in Nat : size = Len(u)
  OBVIOUS
<1>1. CASE size < 2
  <2>1. 2 \in Nat \ {0, 1} /\ 2 > Len(u)
    BY <1>0, <1>1
  <2>. QED BY <2>1, MergeUnfolds
<1>2. CASE size >= 2
  <2> DEFINE P == {k \in 0 .. size - 1 : MergeFrom(u, size + 1 - k) = u}
  <2>1. 0 \in P
    <3>1. size + 1 - 0 \in Nat \ {0, 1} /\ size + 1 - 0 > Len(u)
      BY <1>0, <1>2
    <3>2. MergeFrom(u, size + 1 - 0) = u
      BY <3>1, MergeUnfolds
    <3>. QED BY <1>2, <3>2
  <2>2. ASSUME NEW k \in 1 .. size - 1, k - 1 \in P PROVE k \in P
    <3>1. PICK n \in 2 .. size : n = size + 1 - k
      BY <1>2
    <3>2. n + 1 = size + 1 - (k - 1) /\ n \in Nat \ {0, 1} /\ ~ (n > Len(u))
      BY <1>0, <3>1
    <3>3. MergeFrom(u, n) = MergeFrom(u, n + 1)
      BY <1>0, <3>1, <3>2, MergeUnfolds
    <3>. QED BY <2>2, <3>1, <3>2, <3>3
  <2>3. size - 1 \in P
    <3> HIDE DEF P
    <3>1. PICK last \in Nat : last = size - 1
      BY <1>2
    <3>2. \A k \in 0 .. last : k \in P
      BY <2>1, <2>2, <3>1, UpTo
    <3>. QED BY <3>1, <3>2
  <2>4. size + 1 - (size - 1) = 2
    BY <1>2
  <2>5. MergeFrom(u, 2) = u
    BY <2>3, <2>4
  <2>. QED BY <2>5, MergeUnfolds
<1>. QED BY <1>1, <1>2

----------------------------------------------------------------------------
(* The ranges of a value: only the first of them, where it is defined, may *)
(* reach up to the start of another.                                       *)
IsChain(R) ==
    /\ R \subseteq LiveRanges /\ R # {}
    /\ \A r \in R : r.start <= r.end
    /\ \A r, s \in R : r.start < s.start =>
          /\ r.end <= s.start
          /\ (\E q \in R : q.start < r.start) => r.end < s.start

(* What an interval keeps of its ranges.                                   *)
Covers(c, R) ==
    /\ c \in Seq(LiveRanges) /\ Len(c) # 0
    /\ \E r \in R : c[1].start = r.start
    /\ \A r \in R : c[1].start <= r.start /\ r.end <= c[Len(c)].end
    /\ \A r \in R : \E j \in 1 .. Len(c) : c[j].start <= r.start /\ r.end <= c[j].end

(* The elements of a sequence of ranges.                                   *)
LEMMA RangeElements ==
  ASSUME NEW s \in Seq(LiveRanges)
  PROVE  /\ \A j \in 1 .. Len(s) : s[j] \in Range(s) /\ s[j] \in LiveRanges
         /\ \A x \in Range(s) : \E j \in 1 .. Len(s) : x = s[j]
         /\ DOMAIN s = 1 .. Len(s) /\ Len(s) \in Nat
<1>1. DOMAIN s = 1 .. Len(s) /\ Len(s) \in Nat /\ \A j \in 1 .. Len(s) : s[j] \in LiveRanges
  OBVIOUS
<1>. QED BY <1>1 DEF Range

(* The numbers of a range.                                                 *)
LEMMA RangeNumbers ==
  ASSUME NEW r \in LiveRanges
  PROVE  r.start \in Nat /\ r.end \in Nat
  BY DEF LiveRanges

(* Sorted ranges apart from one another, which lie around those of R.      *)
LEMMA SortedCovers ==
  ASSUME NEW t \in Seq(LiveRanges), Ascending(t), NEW R, R # {}, R \subseteq LiveRanges,
         \A x \in Range(t) : x.start <= x.end /\ \E r \in R : r.start = x.start,
         \A x, y \in Range(t) : x.start < y.start => x.end <= y.start,
         \A r \in R : \E x \in Range(t) : x.start <= r.start /\ r.end <= x.end
  PROVE  Covers(t, R)
<1>0. PICK n \in Nat : n = Len(t)
  OBVIOUS
<1>1. /\ \A j \in 1 .. n : t[j] \in Range(t) /\ t[j].start \in Nat /\ t[j].end \in Nat
      /\ \A x \in Range(t) : \E j \in 1 .. n : x = t[j]
  BY <1>0, RangeElements, RangeNumbers
<1>2. \A r \in R : r.start \in Nat /\ r.end \in Nat
  BY RangeNumbers
<1>3. ASSUME NEW r \in R
      PROVE  \E j \in 1 .. n : t[j].start <= r.start /\ r.end <= t[j].end
  BY <1>1, <1>3
<1>4. n # 0
  BY <1>3
<1>5. ASSUME NEW j \in 1 .. n PROVE t[1].start <= t[j].start /\ t[j].end <= t[n].end
  <2>1. 1 \in 1 .. n /\ n \in 1 .. n
    BY <1>4
  <2>2. j = 1 \/ t[1].start < t[j].start
    BY <1>0, <2>1 DEF Ascending
  <2>3. j = n \/ t[j].start < t[n].start
    BY <1>0, <2>1 DEF Ascending
  <2>4. j # n => t[j].end <= t[n].start /\ t[n].start <= t[n].end
    BY <1>1, <2>1, <2>3
  <2>5. PICK a, b, x, y, z \in Nat : /\ a = t[1].start /\ b = t[n].end /\ x = t[j].start
                                    /\ y = t[j].end /\ z = t[n].start
    BY <1>1, <2>1
  <2>6. a <= x
    BY <2>2, <2>5
  <2>7. y <= b
    BY <2>4, <2>5
  <2>. QED BY <2>5, <2>6, <2>7
<1>6. ASSUME NEW r \in R PROVE t[1].start <= r.start /\ r.end <= t[n].end
  <2>1. PICK j \in 1 .. n : t[j].start <= r.start /\ r.end <= t[j].end
    BY <1>3
  <2>2. 1 \in 1 .. n /\ n \in 1 .. n
    BY <1>4
  <2>3. PICK a, b, x, y \in Nat : /\ a = t[1].start /\ b = t[n].end
                                 /\ x = t[j].start /\ y = t[j].end
    BY <1>1, <2>2
  <2>4. a <= x /\ y <= b
    BY <1>5, <2>3
  <2>5. PICK p, q \in Nat : p = r.start /\ q = r.end
    BY <1>2
  <2>6. x <= p /\ q <= y
    BY <2>1, <2>3, <2>5
  <2>7. a <= p /\ q <= b
    BY <2>4, <2>6
  <2>. QED BY <2>3, <2>5, <2>7
<1>7. \E r \in R : t[1].start = r.start
  <2>1. t[1] \in Range(t)
    BY <1>1, <1>4
  <2>2. PICK r \in R : r.start = t[1].start
    BY <2>1
  <2>. QED BY <2>2
<1>. QED BY <1>0, <1>3, <1>4, <1>6, <1>7 DEF Covers

(* In a sorted chain only the first range and the second may touch.        *)
LEMMA ChainApart ==
  ASSUME NEW s \in Seq(LiveRanges), Ascending(s), IsChain(Range(s)),
         NEW i \in 1 .. Len(s), NEW j \in 1 .. Len(s), i < j
  PROVE  /\ s[i].end <= s[j].start
         /\ i # 1 \/ j # 2 => s[i].end < s[j].start
<1>0. PICK n \in Nat : n = Len(s)
  OBVIOUS
<1>1. /\ \A k \in 1 .. n : s[k] \in Range(s) /\ s[k].start \in Nat /\ s[k].end \in Nat
      /\ \A k, m \in 1 .. n : k < m => s[k].start < s[m].start
  BY <1>0, RangeElements, RangeNumbers DEF Ascending
<1>2. \A k, m \in 1 .. n : k < m =>
        /\ s[k].end <= s[m].start
        /\ (\E q \in Range(s) : q.start < s[k].start) => s[k].end < s[m].start
  BY <1>1 DEF IsChain
<1>3. CASE i # 1
  <2>1. 1 \in 1 .. n /\ s[1] \in Range(s) /\ s[1].start < s[i].start
    BY <1>0, <1>1, <1>3
  <2>. QED BY <1>0, <1>2, <2>1
<1>4. CASE i = 1 /\ j # 2
  <2>1. 2 \in 1 .. n /\ s[1].end <= s[2].start /\ s[2].start < s[j].start
    BY <1>0, <1>1, <1>2, <1>4
  <2>2. 1 \in 1 .. n /\ j \in 1 .. n
    BY <1>0, <2>1
  <2>. QED BY <1>1, <1>4, <2>1, <2>2
<1>. QED BY <1>0, <1>2, <1>3, <1>4

(* Of ranges that nowhere touch, canonicalize() changes nothing.           *)
LEMMA CanonicalApart ==
  ASSUME NEW s \in Seq(LiveRanges), Ascending(s), IsChain(Range(s)),
         2 <= Len(s) => ~ RangesTouch(s[2], s[1])
  PROVE  Covers(SortedByStart(MergeTouching(s)), Range(s))
<1>0. PICK n \in Nat : n = Len(s)
  OBVIOUS
<1>1. \A k \in 1 .. n : s[k] \in Range(s) /\ s[k].start \in Nat /\ s[k].end \in Nat
  BY <1>0, RangeElements, RangeNumbers
<1>2. ASSUME NEW k \in 2 .. n PROVE ~ RangesTouch(s[k], s[k - 1])
  <2>1. k \in 1 .. n /\ k - 1 \in 1 .. n /\ k - 1 < k
    OBVIOUS
  <2>2. CASE k = 2
    <3>1. k - 1 = 1 /\ 2 <= Len(s)
      BY <1>0, <2>2
    <3>. QED BY <2>2, <3>1
  <2>3. CASE k # 2
    <3>1. s[k - 1].end < s[k].start
      BY <1>0, <2>1, <2>3, ChainApart
    <3>. QED BY <1>1, <2>1, <3>1 DEF RangesTouch
  <2>. QED BY <2>2, <2>3
<1>3. MergeTouching(s) = s
  BY <1>0, <1>2, NothingTouches
<1>4. StartsDiffer(s)
  <2>1. \A i, j \in 1 .. n : i < j => s[i].start < s[j].start
    BY <1>0 DEF Ascending
  <2>2. \A i, j \in 1 .. n : i # j => s[i].start # s[j].start
    BY <1>1, <2>1
  <2>. QED BY <1>0, <2>2 DEF StartsDiffer
<1> DEFINE t == SortedByStart(s)
<1>5. t \in Seq(LiveRanges) /\ Ascending(t) /\ Range(t) = Range(s)
  BY <1>4, SortedFacts
<1> HIDE DEF t
<1>6. /\ Range(s) # {} /\ Range(s) \subseteq LiveRanges
      /\ \A x \in Range(s) : x.start <= x.end
      /\ \A x, y \in Range(s) : x.start < y.start => x.end <= y.start
  BY DEF IsChain
<1>7. \A x \in Range(s) : x.start <= x.start /\ x.end <= x.end
  BY <1>6, RangeNumbers
<1>8. Covers(t, Range(s))
  BY <1>5, <1>6, <1>7, SortedCovers
<1>. QED BY <1>3, <1>8 DEF t

(* Of ranges of which the first two touch, canonicalize() joins those two. *)
LEMMA CanonicalJoined ==
  ASSUME NEW s \in Seq(LiveRanges), Ascending(s), IsChain(Range(s)),
         2 <= Len(s), RangesTouch(s[2], s[1])
  PROVE  Covers(SortedByStart(MergeTouching(s)), Range(s))
<1>0. PICK n \in Nat : n = Len(s) /\ 2 <= n
  OBVIOUS
<1> DEFINE R == Range(s)
           merged == Propagate(s[1], s[2].end)
           u == RemoveFast([s EXCEPT ![2 - 1] = Propagate(s[2 - 1], s[2].end)], 2)
<1>1. /\ \A k \in 1 .. n : s[k] \in R /\ s[k] \in LiveRanges
                           /\ s[k].start \in Nat /\ s[k].end \in Nat /\ s[k].start <= s[k].end
      /\ \A x \in R : \E k \in 1 .. n : x = s[k]
  BY <1>0, RangeElements, RangeNumbers DEF IsChain
<1>2. \A i, j \in 1 .. n : i < j =>
        /\ s[i].start < s[j].start /\ s[i].end <= s[j].start
        /\ i # 1 \/ j # 2 => s[i].end < s[j].start
  BY <1>0, ChainApart DEF Ascending
<1>3. 1 \in 1 .. n /\ 2 \in 1 .. n
  BY <1>0
<1>4. /\ merged \in LiveRanges /\ merged.start = s[1].start /\ merged.end = s[2].end
  <2>1. merged \in LiveRanges /\ merged.start = s[1].start
        /\ merged.end = MaxOf(s[1].end, s[2].end)
    BY <1>1, <1>3, PropagateFacts
  <2>2. s[1].end <= s[2].end
    BY <1>1, <1>2, <1>3
  <2>3. MaxOf(s[1].end, s[2].end) = s[2].end
    BY <1>1, <1>3, <2>2 DEF MaxOf
  <2>. QED BY <2>1, <2>3
<1>5. MergeTouching(s) = MergeFrom(u, 2)
  <2>1. 2 \in Nat \ {0, 1} /\ ~ (2 > Len(s)) /\ 2 - 1 = 1
    BY <1>0
  <2>. QED BY <2>1, MergeUnfolds
<1>6. /\ u \in Seq(LiveRanges) /\ Len(u) = n - 1 /\ u[1] = merged
      /\ \A k \in 1 .. n - 1 : k # 1 => u[k] = IF k = 2 THEN s[n] ELSE s[k]
  <2>1. 2 \in 2 .. Len(s) /\ 2 - 1 = 1
    BY <1>0
  <2>2. FastRemoved(u, s, 2)
    BY <2>1, RemovedFast
  <2> HIDE DEF u
  <2>3. /\ u \in Seq(LiveRanges) /\ Len(u) = Len(s) - 1
        /\ u[2 - 1] = Propagate(s[2 - 1], s[2].end)
        /\ \A k \in 1 .. Len(s) - 1 : k # 2 - 1 => u[k] = IF k = 2 THEN s[Len(s)] ELSE s[k]
    BY <2>2 DEF FastRemoved
  <2>. QED BY <1>0, <2>1, <2>3 DEF merged
<1> HIDE DEF u, merged
<1>7. ASSUME NEW k \in 1 .. n - 1
      PROVE  \/ k = 1 /\ u[k] = merged
             \/ k # 1 /\ \E j \in 3 .. n : u[k] = s[j] /\ j = (IF k = 2 THEN n ELSE k)
  <2>1. CASE k = 1
    BY <1>6, <2>1
  <2>2. CASE k # 1
    <3>1. (IF k = 2 THEN n ELSE k) \in 3 .. n
      BY <1>0, <2>2
    <3>. QED BY <1>6, <2>2, <3>1
  <2>. QED BY <2>1, <2>2
<1>8. ASSUME NEW j \in 3 .. n
      PROVE  j \in 1 .. n /\ merged.end < s[j].start /\ merged.start < s[j].start
  <2>1. j \in 1 .. n /\ 2 < j /\ 1 < j
    OBVIOUS
  <2>2. s[2].end < s[j].start /\ s[1].start < s[j].start
    BY <1>2, <1>3, <2>1
  <2>. QED BY <1>4, <2>1, <2>2
<1>9. merged.start \in Nat /\ merged.end \in Nat /\ merged.start <= merged.end
  <2>1. s[1].start <= s[1].end /\ s[1].end <= s[2].start /\ s[2].start <= s[2].end
    BY <1>1, <1>2, <1>3
  <2>. QED BY <1>1, <1>3, <1>4, <2>1
<1>10. ASSUME NEW i \in 3 .. n, NEW j \in 3 .. n, i # j
       PROVE  ~ RangesTouch(s[i], s[j]) /\ s[i].start # s[j].start
  <2>1. i \in 1 .. n /\ j \in 1 .. n /\ i # 1 /\ j # 1 /\ (i < j \/ j < i)
    BY <1>10
  <2>2. s[i].end < s[j].start \/ s[j].end < s[i].start
    BY <1>2, <2>1
  <2>3. s[i].start < s[j].start \/ s[j].start < s[i].start
    BY <1>2, <2>1
  <2>. QED BY <1>1, <2>1, <2>2, <2>3 DEF RangesTouch
<1>11. ASSUME NEW k \in 2 .. Len(u) PROVE ~ RangesTouch(u[k], u[k - 1])
  <2>1. k \in 1 .. n - 1 /\ k - 1 \in 1 .. n - 1 /\ k # 1
    BY <1>6
  <2>2. PICK j \in 3 .. n : u[k] = s[j] /\ j = (IF k = 2 THEN n ELSE k)
    BY <1>7, <2>1
  <2>3. CASE k - 1 = 1
    <3>1. u[k - 1] = merged
      BY <1>6, <2>3
    <3>2. merged.end < s[j].start /\ s[j].start \in Nat
      BY <1>1, <1>8
    <3>3. ~ RangesTouch(s[j], merged)
      BY <1>9, <3>2 DEF RangesTouch
    <3>. QED BY <2>2, <3>1, <3>3
  <2>4. CASE k - 1 # 1
    <3>1. PICK i \in 3 .. n : u[k - 1] = s[i] /\ i = (IF k - 1 = 2 THEN n ELSE k - 1)
      BY <1>7, <2>1, <2>4
    <3>2. i # j
      <4>1. j = k /\ k < n
        BY <2>1, <2>2, <2>4
      <4>2. CASE k - 1 = 2
        BY <3>1, <4>1, <4>2
      <4>3. CASE k - 1 # 2
        BY <3>1, <4>1, <4>3
      <4>. QED BY <4>2, <4>3
    <3>. QED BY <1>10, <2>2, <3>1, <3>2
  <2>. QED BY <2>3, <2>4
<1>12. MergeFrom(u, 2) = u
  BY <1>6, <1>11, NothingTouches
<1>13. StartsDiffer(u)
  <2>1. ASSUME NEW k \in 1 .. n - 1, NEW l \in 1 .. n - 1, k < l
        PROVE  u[k].start # u[l].start
    <3>1. l # 1
      BY <2>1
    <3>2. PICK j \in 3 .. n : u[l] = s[j] /\ j = (IF l = 2 THEN n ELSE l)
      BY <1>7, <3>1
    <3>3. CASE k = 1
      <4>1. u[k] = merged
        BY <1>6, <3>3
      <4>. QED BY <1>1, <1>8, <1>9, <3>2, <4>1
    <3>4. CASE k # 1
      <4>1. PICK i \in 3 .. n : u[k] = s[i] /\ i = (IF k = 2 THEN n ELSE k)
        BY <1>7, <3>4
      <4>2. j = l /\ l < n
        BY <2>1, <3>2, <3>4
      <4>3. i # j
        <5>1. CASE k = 2
          BY <4>1, <4>2, <5>1
        <5>2. CASE k # 2
          BY <2>1, <4>1, <4>2, <5>2
        <5>. QED BY <5>1, <5>2
      <4>. QED BY <1>10, <3>2, <4>1, <4>3
    <3>. QED BY <3>3, <3>4
  <2>2. \A k, l \in 1 .. n - 1 : k # l => k < l \/ l < k
    OBVIOUS
  <2>3. Len(u) = n - 1
    BY <1>6
  <2>. QED BY <2>1, <2>2, <2>3 DEF StartsDiffer
<1> DEFINE t == SortedByStart(u)
<1>14. t \in Seq(LiveRanges) /\ Ascending(t) /\ Range(t) = Range(u)
  BY <1>6, <1>13, SortedFacts
<1> HIDE DEF t
<1> DEFINE others == {s[j] : j \in 3 .. n}
<1>15. Range(u) = {merged} \cup others
  <2>1. \A x \in Range(u) : \E k \in 1 .. n - 1 : x = u[k]
    BY <1>6, RangeElements
  <2>2. \A x \in Range(u) : x \in {merged} \cup others
    BY <1>7, <2>1
  <2>3. merged \in Range(u)
    <3>1. 1 \in 1 .. Len(u)
      BY <1>0, <1>6
    <3>. QED BY <1>6, <3>1, RangeElements
  <2>4. ASSUME NEW j \in 3 .. n PROVE s[j] \in Range(u)
    <3>1. CASE j = n
      <4>1. 2 \in 1 .. n - 1 /\ u[2] = s[n]
        BY <1>6, <3>1
      <4>2. 2 \in 1 .. Len(u)
        BY <1>6, <4>1
      <4>. QED BY <1>6, <3>1, <4>1, <4>2, RangeElements
    <3>2. CASE j # n
      <4>1. j \in 1 .. n - 1 /\ u[j] = s[j] /\ j \in 1 .. Len(u)
        BY <1>6, <3>2
      <4>. QED BY <1>6, <4>1, RangeElements
    <3>. QED BY <3>1, <3>2
  <2>. QED BY <2>2, <2>3, <2>4
<1>16. ASSUME NEW x \in Range(t) PROVE x.start <= x.end /\ \E r \in R : r.start = x.start
  <2>1. CASE x = merged
    <3>1. s[1] \in R /\ s[1].start = x.start
      BY <1>1, <1>3, <1>4, <2>1
    <3>. QED BY <1>9, <2>1, <3>1
  <2>2. CASE x \in others
    <3>1. PICK j \in 3 .. n : x = s[j]
      BY <2>2
    <3>2. j \in 1 .. n
      OBVIOUS
    <3>. QED BY <1>1, <3>1, <3>2
  <2>. QED BY <1>14, <1>15, <2>1, <2>2
<1>17. ASSUME NEW x \in Range(t), NEW y \in Range(t), x.start < y.start
       PROVE  x.end <= y.start
  <2>1. CASE x = merged /\ y = merged
    BY <1>9, <1>17, <2>1
  <2>2. CASE x = merged /\ y \in others
    <3>1. PICK j \in 3 .. n : y = s[j]
      BY <2>2
    <3>. QED BY <1>1, <1>8, <1>9, <2>2, <3>1
  <2>3. CASE x \in others /\ y = merged
    <3>1. PICK j \in 3 .. n : x = s[j]
      BY <2>3
    <3>2. y.start < x.start
      BY <1>8, <2>3, <3>1
    <3>3. x.start \in Nat /\ y.start \in Nat
      BY <1>1, <1>8, <1>9, <2>3, <3>1
    <3>. QED BY <1>17, <3>2, <3>3
  <2>4. CASE x \in others /\ y \in others
    <3>1. PICK i \in 3 .. n, j \in 3 .. n : x = s[i] /\ y = s[j]
      BY <2>4
    <3>2. i \in 1 .. n /\ j \in 1 .. n
      OBVIOUS
    <3>3. CASE i < j
      BY <1>2, <3>1, <3>2, <3>3
    <3>4. CASE ~ (i < j)
      <4>1. i = j \/ s[j].start < s[i].start
        BY <1>2, <3>2, <3>4
      <4>. QED BY <1>1, <1>17, <3>1, <3>2, <4>1
    <3>. QED BY <3>3, <3>4
  <2>. QED BY <1>14, <1>15, <2>1, <2>2, <2>3, <2>4
<1>18. ASSUME NEW r \in R PROVE \E x \in Range(t) : x.start <= r.start /\ r.end <= x.end
  <2>1. PICK k \in 1 .. n : r = s[k]
    BY <1>1
  <2>2. CASE k = 1 \/ k = 2
    <3>1. merged \in Range(t)
      BY <1>14, <1>15
    <3>2. s[1].start <= s[2].start /\ s[1].end <= s[2].end
      BY <1>1, <1>2, <1>3
    <3>3. merged.start <= r.start /\ r.end <= merged.end
      BY <1>1, <1>3, <1>4, <2>1, <2>2, <3>2
    <3>. QED BY <3>1, <3>3
  <2>3. CASE k # 1 /\ k # 2
    <3>1. k \in 3 .. n
      BY <2>3
    <3>2. s[k] \in Range(t)
      BY <1>14, <1>15, <3>1
    <3>3. s[k].start <= s[k].start /\ s[k].end <= s[k].end
      BY <1>1
    <3>. QED BY <2>1, <3>2, <3>3
  <2>. QED BY <2>2, <2>3
<1>19. R # {} /\ R \subseteq LiveRanges
  BY DEF IsChain
<1>20. Covers(t, R)
  <2> HIDE DEF R
  <2>. QED BY <1>14, <1>16, <1>17, <1>18, <1>19, SortedCovers
<1>. QED BY <1>5, <1>12, <1>20 DEF t

(* The interval of a chain.                                                *)
LEMMA CanonicalCovers ==
  ASSUME NEW v \in Seq(LiveRanges), StartsDiffer(v), IsChain(Range(v))
  PROVE  Covers(Canonical(v), Range(v))
<1> DEFINE s == SortedByStart(v)
<1>1. s \in Seq(LiveRanges) /\ Ascending(s) /\ Range(s) = Range(v)
  BY SortedFacts
<1> HIDE DEF s
<1>2. Covers(SortedByStart(MergeTouching(s)), Range(s))
  <2>1. IsChain(Range(s))
    BY <1>1
  <2>2. CASE 2 <= Len(s) => ~ RangesTouch(s[2], s[1])
    BY <1>1, <2>1, <2>2, CanonicalApart
  <2>3. CASE 2 <= Len(s) /\ RangesTouch(s[2], s[1])
    BY <1>1, <2>1, <2>3, CanonicalJoined
  <2>. QED BY <2>2, <2>3
<1>. QED BY <1>1, <1>2 DEF Canonical, s

(* Intervals of chains of which two ranges meet.                           *)
LEMMA CoversMeet ==
  ASSUME NEW R, NEW S, NEW iv, NEW other, R \subseteq LiveRanges, S \subseteq LiveRanges,
         Covers(iv.ranges, R), Covers(other.ranges, S),
         NEW r \in R, NEW q \in S, RangesMeet(r, q)
  PROVE  Intersects(iv, other)
<1> DEFINE c == iv.ranges
           d == other.ranges
<1>1. /\ \A j \in 1 .. Len(c) : c[j].start \in Nat /\ c[j].end \in Nat
      /\ \A k \in 1 .. Len(d) : d[k].start \in Nat /\ d[k].end \in Nat
      /\ DOMAIN c = 1 .. Len(c) /\ DOMAIN d = 1 .. Len(d)
      /\ Len(c) \in Nat /\ Len(d) \in Nat /\ Len(c) # 0 /\ Len(d) # 0
      /\ c # <<>> /\ d # <<>>
  <2>1. c \in Seq(LiveRanges) /\ d \in Seq(LiveRanges) /\ Len(c) # 0 /\ Len(d) # 0
    BY DEF Covers
  <2>2. c # <<>> /\ d # <<>>
    BY <2>1
  <2>3. /\ \A j \in 1 .. Len(c) : c[j] \in LiveRanges
        /\ \A k \in 1 .. Len(d) : d[k] \in LiveRanges
        /\ DOMAIN c = 1 .. Len(c) /\ DOMAIN d = 1 .. Len(d)
        /\ Len(c) \in Nat /\ Len(d) \in Nat
    BY <2>1, RangeElements
  <2>. QED BY <2>1, <2>2, <2>3, RangeNumbers
<1>2. /\ r.start \in Nat /\ r.end \in Nat /\ q.start \in Nat /\ q.end \in Nat
      /\ r.start < q.end /\ r.end > q.start
  BY RangeNumbers DEF RangesMeet
<1>3. PICK j \in 1 .. Len(c) : c[j].start <= r.start /\ r.end <= c[j].end
  BY DEF Covers
<1>4. PICK k \in 1 .. Len(d) : d[k].start <= q.start /\ q.end <= d[k].end
  BY DEF Covers
<1>5. /\ c[1].start <= r.start /\ r.end <= c[Len(c)].end
      /\ d[1].start <= q.start /\ q.end <= d[Len(d)].end
  BY DEF Covers
<1>6. /\ Start(iv) = c[1].start /\ Finish(iv) = c[Len(c)].end
      /\ Start(other) = d[1].start /\ Finish(other) = d[Len(d)].end
  <2>1. c \in Seq(LiveRanges) /\ d \in Seq(LiveRanges)
    BY DEF Covers
  <2>2. Head(c) = c[1] /\ Head(d) = d[1] /\ Last(c) = c[Len(c)] /\ Last(d) = d[Len(d)]
    BY <1>1, <2>1 DEF Last
  <2>. QED BY <2>2 DEF Start, Finish
<1> HIDE DEF c, d
<1>7. 1 \in 1 .. Len(c) /\ Len(c) \in 1 .. Len(c) /\ 1 \in 1 .. Len(d) /\ Len(d) \in 1 .. Len(d)
  BY <1>1
<1>8. ~ (Start(iv) >= Finish(other) \/ Finish(iv) <= Start(other))
  <2> DEFINE sc == c[1].start
             ec == c[Len(c)].end
             sd == d[1].start
             ed == d[Len(d)].end
  <2>1. sc \in Nat /\ ec \in Nat /\ sd \in Nat /\ ed \in Nat
    BY <1>1, <1>7
  <2>2. sc <= r.start /\ r.end <= ec /\ sd <= q.start /\ q.end <= ed
    BY <1>5
  <2> HIDE DEF sc, ec, sd, ed
  <2>3. ~ (sc >= ed \/ ec <= sd)
    BY <1>2, <2>1, <2>2
  <2>. QED BY <1>6, <2>3 DEF sc, ec, sd, ed
<1>9. RangesMeet(c[j], d[k])
  BY <1>1, <1>2, <1>3, <1>4 DEF RangesMeet
<1>. QED BY <1>1, <1>8, <1>9 DEF Intersects, c, d

----------------------------------------------------------------------------
(* The loop of canonicalize() keeps at least one range.                    *)
LEMMA MergeKeeps ==
  ASSUME NEW u \in Seq(LiveRanges), Len(u) # 0
  PROVE  MergeTouching(u) \in Seq(LiveRanges) /\ Len(MergeTouching(u)) # 0
<1> DEFINE Kept(x) == x \in Seq(LiveRanges) /\ Len(x) # 0
           Within(m) == \A w \in Seq(LiveRanges) : \A n \in Nat \ {0, 1} :
                           Len(w) # 0 /\ Len(w) < n + m => Kept(MergeFrom(w, n))
<1>0. PICK size \in Nat : size = Len(u)
  OBVIOUS
<1> DEFINE P == {m \in 0 .. size : Within(m)}
<1>1. Within(0)
  <2>1. ASSUME NEW w \in Seq(LiveRanges), NEW n \in Nat \ {0, 1}, Len(w) # 0, Len(w) < n + 0
        PROVE  Kept(MergeFrom(w, n))
    <3>1. n > Len(w)
      BY <2>1
    <3>2. MergeFrom(w, n) = w
      BY <3>1, MergeUnfolds
    <3>. QED BY <2>1, <3>2
  <2>. QED BY <2>1
<1>2. ASSUME NEW m \in 1 .. size, Within(m - 1) PROVE Within(m)
  <2>1. ASSUME NEW w \in Seq(LiveRanges), NEW n \in Nat \ {0, 1}, Len(w) # 0, Len(w) < n + m
        PROVE  Kept(MergeFrom(w, n))
    <3>0. PICK l \in Nat : l = Len(w)
      OBVIOUS
    <3> DEFINE after == RemoveFast([w EXCEPT ![n - 1] = Propagate(w[n - 1], w[n].end)], n)
    <3>1. CASE n > Len(w)
      <4>1. MergeFrom(w, n) = w
        BY <3>1, MergeUnfolds
      <4>. QED BY <2>1, <4>1
    <3>2. CASE ~ (n > Len(w)) /\ RangesTouch(w[n], w[n - 1])
      <4>1. n \in 2 .. Len(w)
        BY <3>0, <3>2
      <4>2. after \in Seq(LiveRanges) /\ Len(after) = l - 1
        BY <3>0, <4>1, RemovedFast DEF FastRemoved
      <4>3. MergeFrom(w, n) = MergeFrom(after, n)
        BY <3>2, MergeUnfolds
      <4> HIDE DEF after
      <4>4. Len(after) # 0 /\ Len(after) < n + (m - 1)
        BY <2>1, <3>0, <4>1, <4>2
      <4>. QED BY <1>2, <4>2, <4>3, <4>4
    <3>3. CASE ~ (n > Len(w)) /\ ~ RangesTouch(w[n], w[n - 1])
      <4>1. MergeFrom(w, n) = MergeFrom(w, n + 1)
        BY <3>3, MergeUnfolds
      <4>2. n + 1 \in Nat \ {0, 1} /\ Len(w) < (n + 1) + (m - 1)
        BY <2>1, <3>0
      <4>. QED BY <1>2, <2>1, <4>1, <4>2
    <3>. QED BY <3>1, <3>2, <3>3
  <2>. QED BY <2>1
<1> HIDE DEF Within
<1>3. 0 \in P /\ \A m \in 1 .. size : m - 1 \in P => m \in P
  BY <1>1, <1>2
<1> HIDE DEF P
<1>4. \A m \in 0 .. size : m \in P
  BY <1>3, UpTo
<1>5. Within(size)
  <2>1. size \in P
    BY <1>4
  <2>. QED BY <2>1 DEF P
<1>6. Kept(MergeFrom(u, 2))
  <2>1. 2 \in Nat \ {0, 1} /\ Len(u) < 2 + size
    BY <1>0
  <2>. QED BY <1>5, <2>1 DEF Within
<1>7. MergeTouching(u) = MergeFrom(u, 2)
  <2>1. 2 \in Nat \ {0, 1}
    OBVIOUS
  <2>. QED BY <2>1, MergeUnfolds
<1>. QED BY <1>6, <1>7

(* An interval has at least one range.                                     *)
IsInterval(iv) == iv.ranges \in Seq(LiveRanges) /\ Len(iv.ranges) # 0

(* Sequences of no ranges.                                                 *)
LEMMA EmptyRange ==
  ASSUME NEW s \in Seq(LiveRanges)
  PROVE  Len(s) = 0 <=> Range(s) = {}
<1>1. PICK n \in Nat : n = Len(s) /\ DOMAIN s = 1 .. n
  OBVIOUS
<1>2. n # 0 => 1 \in DOMAIN s
  BY <1>1
<1>3. n = 0 => DOMAIN s = {}
  BY <1>1
<1>. QED BY <1>1, <1>2, <1>3 DEF Range

(* canonicalize() leaves at least one range.                               *)
LEMMA CanonicalKeeps ==
  ASSUME NEW v \in Seq(LiveRanges), Len(v) # 0
  PROVE  Canonical(v) \in Seq(LiveRanges) /\ Len(Canonical(v)) # 0
<1>1. SortedByStart(v) \in Seq(LiveRanges) /\ Len(SortedByStart(v)) # 0
  BY SortedFacts, EmptyRange
<1> DEFINE m == MergeTouching(SortedByStart(v))
<1>2. m \in Seq(LiveRanges) /\ Len(m) # 0
  BY <1>1, MergeKeeps
<1> HIDE DEF m
<1>3. SortedByStart(m) \in Seq(LiveRanges) /\ Len(SortedByStart(m)) # 0
  BY <1>2, SortedFacts, EmptyRange
<1>. QED BY <1>3 DEF Canonical, m

(* merge_with() makes an interval.                                         *)
LEMMA MergedInterval ==
  ASSUME NEW iv, NEW other, IsInterval(iv), IsInterval(other)
  PROVE  IsInterval(MergeWith(iv, other))
<1> DEFINE v == iv.ranges \o other.ranges
<1>0. PICK a, b \in Seq(LiveRanges) : a = iv.ranges /\ b = other.ranges
  BY DEF IsInterval
<1>1. v \in Seq(LiveRanges) /\ Len(v) = Len(a) + Len(b)
  BY <1>0, Concatenated
<1>2. Len(a) \in Nat /\ Len(b) \in Nat /\ Len(a) # 0
  BY <1>0 DEF IsInterval
<1> HIDE DEF v
<1>3. Len(v) # 0
  BY <1>1, <1>2
<1>4. Canonical(v) \in Seq(LiveRanges) /\ Len(Canonical(v)) # 0
  BY <1>1, <1>3, CanonicalKeeps
<1>. QED BY <1>4 DEF IsInterval, MergeWith, v

(* The numbers of an interval.                                             *)
LEMMA IntervalNumbers ==
  ASSUME NEW iv, IsInterval(iv)
  PROVE  /\ Start(iv) \in Nat /\ Finish(iv) \in Nat
         /\ \A j \in DOMAIN iv.ranges : iv.ranges[j].start \in Nat /\ iv.ranges[j].end \in Nat
<1> DEFINE c == iv.ranges
<1>1. c \in Seq(LiveRanges) /\ Len(c) # 0
  BY DEF IsInterval
<1> HIDE DEF c
<1>2. \A j \in DOMAIN c : c[j].start \in Nat /\ c[j].end \in Nat
  BY <1>1, RangeElements, RangeNumbers
<1>3. 1 \in DOMAIN c /\ Len(c) \in DOMAIN c /\ Head(c) = c[1] /\ Last(c) = c[Len(c)]
  BY <1>1 DEF Last
<1>. QED BY <1>2, <1>3 DEF Start, Finish, c

(* It does not matter which of two intervals is asked.                     *)
LEMMA IntersectsSymmetric ==
  ASSUME NEW iv, NEW other, IsInterval(iv), IsInterval(other), Intersects(iv, other)
  PROVE  Intersects(other, iv)
<1>1. /\ Start(iv) \in Nat /\ Finish(iv) \in Nat /\ Start(other) \in Nat /\ Finish(other) \in Nat
      /\ \A j \in DOMAIN iv.ranges : iv.ranges[j].start \in Nat /\ iv.ranges[j].end \in Nat
      /\ \A j \in DOMAIN other.ranges : other.ranges[j].start \in Nat /\ other.ranges[j].end \in Nat
  BY IntervalNumbers
<1>2. PICK j \in DOMAIN iv.ranges, k \in DOMAIN other.ranges :
          RangesMeet(iv.ranges[j], other.ranges[k])
  BY DEF Intersects
<1>3. RangesMeet(other.ranges[k], iv.ranges[j])
  BY <1>1, <1>2 DEF RangesMeet
<1>4. ~ (Start(other) >= Finish(iv) \/ Finish(other) <= Start(iv))
  BY <1>1 DEF Intersects
<1>. QED BY <1>3, <1>4 DEF Intersects

(* What covers the ranges of a value is an interval.                       *)
LEMMA CoversInterval ==
  ASSUME NEW iv, NEW R, Covers(iv.ranges, R)
  PROVE  IsInterval(iv)
BY DEF Covers, IsInterval

----------------------------------------------------------------------------
(* A block that comes later has larger numbers.                            *)
LEMMA NumbersApart ==
  ASSUME NEW f \in Functions, NEW j \in 1 .. Len(f.order), NEW k \in 1 .. Len(f.order), j < k
  PROVE  FirstNumber(f, f.order[j]) + Len(f.code[f.order[j]]) <= FirstNumber(f, f.order[k])
<1>0. PICK n \in Nat : n = Len(f.order)
  BY FunctionsAssumption DEF FunctionsAssumption
<1> DEFINE count == NumbersUpTo(f)
           size(i) == Len(f.code[f.order[i]])
<1>1. /\ \A i \in 0 .. n : count[i] \in Nat
      /\ \A i \in 1 .. n : /\ count[i] = count[i - 1] + size(i)
                           /\ FirstNumber(f, f.order[i]) = count[i - 1] + 1
  BY <1>0, NumberingFacts
<1>2. \A i \in 1 .. n : size(i) \in Nat
  <2>1. \A i \in 1 .. n : f.order[i] \in Block(f)
    <3>1. f.order \in Seq(Block(f))
      BY FunctionsAssumption DEF FunctionsAssumption
    <3>. QED BY <1>0, <3>1
  <2>. QED BY <2>1, BlockFacts
<1> HIDE DEF count, size
<1> DEFINE P == {i \in 0 .. n : i >= j => count[j] <= count[i]}
<1>3. 0 \in P
  OBVIOUS
<1>4. ASSUME NEW i \in 1 .. n, i - 1 \in P PROVE i \in P
  <2>1. i - 1 \in 0 .. n /\ i \in 0 .. n /\ j \in 0 .. n
    BY <1>0
  <2>2. count[i - 1] \in Nat /\ count[i] \in Nat /\ count[j] \in Nat /\ size(i) \in Nat
        /\ count[i] = count[i - 1] + size(i)
    BY <1>1, <1>2, <2>1
  <2>3. CASE i = j
    BY <2>1, <2>2, <2>3
  <2>4. CASE i # j
    <3>1. i >= j => count[j] <= count[i - 1]
      BY <1>4, <2>1, <2>4
    <3>. QED BY <2>1, <2>2, <3>1
  <2>. QED BY <2>3, <2>4
<1> HIDE DEF P
<1>5. \A i \in 0 .. n : i \in P
  BY <1>3, <1>4, UpTo
<1>6. count[j] <= count[k - 1]
  <2>1. k - 1 \in 0 .. n /\ k - 1 >= j
    BY <1>0
  <2>. QED BY <1>5, <2>1 DEF P
<1>7. /\ count[j] = count[j - 1] + size(j) /\ count[j - 1] \in Nat /\ count[j] \in Nat
      /\ count[k - 1] \in Nat /\ size(j) \in Nat
      /\ FirstNumber(f, f.order[j]) = count[j - 1] + 1
      /\ FirstNumber(f, f.order[k]) = count[k - 1] + 1
  BY <1>0, <1>1, <1>2
<1>8. FirstNumber(f, f.order[j]) + size(j) <= FirstNumber(f, f.order[k])
  BY <1>6, <1>7
<1>. QED BY <1>8 DEF size

(* Whatever a value is to a block, its range there starts no later than    *)
(* the numbers of the block end, and ends with them.                       *)
LEMMA SpanWithin ==
  ASSUME NEW f \in Functions, NEW b \in Block(f), NEW v \in Vals(f), NEW r, IsSpan(f, v, b, r)
  PROVE  /\ r \in LiveRanges /\ r.start <= r.end
         /\ r.start < FirstNumber(f, b) + Len(f.code[b])
         /\ r.end <= FirstNumber(f, b) + Len(f.code[b])
         /\ ~ Home(f, v, b) \/ v \notin LiveOut(f, b) =>
               r.end < FirstNumber(f, b) + Len(f.code[b])
         /\ b # f.order[1] => FirstNumber(f, b) <= r.start
<1>1. PICK first, size \in Nat : /\ first = FirstNumber(f, b) /\ size = Len(f.code[b])
                                 /\ first # 0 /\ size # 0
  BY BlockFacts
<1>2. /\ r \in LiveRanges /\ r.start \in Nat /\ r.end \in Nat /\ r.start <= r.end
      /\ r.start = StartIn(f, v, b)
  BY DEF IsSpan, LiveRanges
<1>3. /\ r.start < first + size
      /\ b # f.order[1] => first <= r.start
  <2>1. CASE v \in DefinedIn(f, b)
    <3>1. PICK m \in 1 .. size : m = DefinedAt(f, v, b)
      BY <1>1, <2>1, BlockFacts
    <3>2. r.start = first + m - 1
      BY <1>1, <1>2, <2>1, <3>1 DEF StartIn
    <3>. QED BY <1>1, <3>2
  <2>2. CASE v \notin DefinedIn(f, b)
    <3>1. r.start = (IF v \in f.args /\ b = f.order[1] THEN 0 ELSE first)
      BY <1>1, <1>2, <2>2 DEF StartIn
    <3>. QED BY <1>1, <3>1
  <2>. QED BY <2>1, <2>2
<1>4. r.end <= first + size
      /\ (~ Home(f, v, b) \/ v \notin LiveOut(f, b) => r.end < first + size)
  <2>1. CASE Home(f, v, b) /\ r.end = r.start
    BY <1>1, <1>2, <1>3, <2>1
  <2>2. CASE v \in LiveOut(f, b) /\ r.end = OutEnd(f, v, b)
    <3>1. r.end = first + size - (IF Home(f, v, b) THEN 0 ELSE 1)
      BY <1>1, <2>2 DEF OutEnd
    <3>2. CASE Home(f, v, b)
      BY <1>1, <2>2, <3>1, <3>2
    <3>3. CASE ~ Home(f, v, b)
      BY <1>1, <2>2, <3>1, <3>3
    <3>. QED BY <3>2, <3>3
  <2>3. ASSUME NEW m \in ReadIn(f, v, b), r.end = FirstNumber(f, b) + m - 1
        PROVE  r.end < first + size
    <3>1. m \in 1 .. size
      BY <1>1, BlockFacts DEF ReadIn
    <3>2. r.end = first + m - 1
      BY <1>1, <2>3
    <3>. QED BY <1>1, <3>1, <3>2
  <2>4. \/ Home(f, v, b) /\ r.end = r.start
        \/ v \in LiveOut(f, b) /\ r.end = OutEnd(f, v, b)
        \/ \E m \in ReadIn(f, v, b) : r.end = FirstNumber(f, b) + m - 1
    BY DEF IsSpan
  <2>5. CASE \E m \in ReadIn(f, v, b) : r.end = FirstNumber(f, b) + m - 1
    <3>1. r.end < first + size
      BY <2>3, <2>5
    <3>. QED BY <1>1, <1>2, <3>1
  <2>. QED BY <2>1, <2>2, <2>4, <2>5
<1>. QED BY <1>1, <1>2, <1>3, <1>4

(* No value but a copy for a phi appears in a block before its own.        *)
LEMMA HomeFirst ==
  ASSUME NEW f \in Functions, NEW v \in Vals(f), ~ FeedsPhi(f, v),
         NEW j \in 1 .. Len(f.order), Home(f, v, f.order[j]),
         NEW k \in 1 .. Len(f.order), Appears(f, v, f.order[k])
  PROVE  j <= k
<1> DEFINE b == f.order[j]
           c == f.order[k]
<1>0. /\ b \in Block(f) /\ c \in Block(f) /\ j \in DOMAIN f.order /\ k \in DOMAIN f.order
      /\ Len(f.order) \in Nat
      /\ \A i, l \in DOMAIN f.order : i # l => f.order[i] # f.order[l]
  BY FunctionsAssumption DEF FunctionsAssumption
<1>1. CASE v \in f.args /\ b = f.order[1]
  <2>1. 1 \in DOMAIN f.order
    BY <1>0
  <2>2. j = 1
    BY <1>0, <1>1, <2>1
  <2>. QED BY <2>2
<1>2. CASE v \in DefinedIn(f, b) /\ c # b
  <2>1. v \notin DefinedIn(f, c) /\ v \notin f.args
    <3>1. PICK m \in DOMAIN f.code[b] : v \in f.code[b][m].outs
      BY <1>2 DEF DefinedIn
    <3>. QED BY <1>0, <1>2, <3>1, DefinedOnce
  <2>2. v \in f.live_in[c]
    <3>1. f.live_in[c] = Exposed(f, c) \cup (LiveOut(f, c) \ DefinedIn(f, c))
      BY <1>0, AnalysedAssumption DEF AnalysedAssumption
    <3>2. CASE v \in LiveOut(f, c)
      BY <2>1, <3>1, <3>2
    <3>3. ASSUME NEW m \in ReadIn(f, v, c) PROVE v \in Exposed(f, c)
      <4>1. m \in DOMAIN f.code[c] /\ v \in Reads(f.code[c][m])
        BY <3>3 DEF ReadIn
      <4>2. f.code[c][m].kind # "pcopy"
        <5>1. <<c, m>> \in Instructions(f) /\ Inst(f, <<c, m>>) = f.code[c][m]
          BY <1>0, <4>1 DEF Instructions, Inst
        <5>. QED BY <4>1, <5>1 DEF FeedsPhi
      <4>3. DOMAIN f.code[c] = 1 .. Len(f.code[c])
        BY <1>0, BlockFacts
      <4>4. \A i \in 1 .. (m - 1) : i \in DOMAIN f.code[c]
        BY <1>0, <4>1, <4>3, BlockFacts
      <4>5. \A i \in 1 .. (m - 1) : v \notin f.code[c][i].outs
        BY <2>1, <4>4 DEF DefinedIn
      <4>. QED BY <4>1, <4>2, <4>5 DEF Exposed
    <3>. QED BY <2>1, <3>1, <3>2, <3>3 DEF Appears, Home
  <2>3. \A i \in k .. Len(f.order) : f.live_in[c] \cap DefinedIn(f, f.order[i]) = {}
    BY <1>0, AnalysedAssumption DEF AnalysedAssumption
  <2>4. j \notin k .. Len(f.order)
    BY <1>2, <2>2, <2>3
  <2>. QED BY <1>0, <2>4
<1>3. CASE c = b
  BY <1>0, <1>3
<1>. QED BY <1>1, <1>2, <1>3 DEF Home

(* The ranges of a value, in the blocks it appears in.                     *)
SpanSet(v) == {spans[v][b] : b \in DOMAIN spans[v]}

(* The ranges of a value are in the order of their blocks, and apart.      *)
LEMMA SpansApart ==
  ASSUME SpansInvariant, AllPassed, NEW v \in Vals(func),
         NEW j \in 1 .. Len(func.order), NEW k \in 1 .. Len(func.order), j < k,
         func.order[j] \in DOMAIN spans[v], func.order[k] \in DOMAIN spans[v]
  PROVE  LET r == spans[v][func.order[j]]
             s == spans[v][func.order[k]]
         IN  /\ r.start < s.start /\ r.end <= s.start
             /\ ~ Home(func, v, func.order[j]) \/ v \notin LiveOut(func, func.order[j]) =>
                   r.end < s.start
<1> DEFINE b == func.order[j]
           c == func.order[k]
           r == spans[v][b]
           s == spans[v][c]
<1>1. /\ func \in Functions /\ b \in Block(func) /\ c \in Block(func)
      /\ IsSpan(func, v, b, r) /\ IsSpan(func, v, c, s)
  BY SpansAtEnd DEF EachSpan
<1>2. PICK first, size, next \in Nat :
         /\ first = FirstNumber(func, b) /\ size = Len(func.code[b])
         /\ next = FirstNumber(func, c)
  BY <1>1, BlockFacts
<1>3. first + size <= next
  BY <1>1, <1>2, NumbersApart
<1>4. c # func.order[1]
  <2>1. 1 \in DOMAIN func.order /\ k \in DOMAIN func.order /\ k # 1
    BY <1>1, FunctionsAssumption DEF FunctionsAssumption
  <2>. QED BY <1>1, <2>1, FunctionsAssumption DEF FunctionsAssumption
<1>5. next <= s.start /\ s \in LiveRanges
  BY <1>1, <1>2, <1>4, SpanWithin
<1> DEFINE within == ~ Home(func, v, b) \/ v \notin LiveOut(func, b)
<1>6. /\ r \in LiveRanges /\ r.start < first + size /\ r.end <= first + size
      /\ within => r.end < first + size
  BY <1>1, <1>2, SpanWithin
<1>7. r.start \in Nat /\ r.end \in Nat /\ s.start \in Nat
  BY <1>5, <1>6, RangeNumbers
<1> HIDE DEF r, s, within
<1>8. r.start < s.start /\ r.end <= s.start /\ (within => r.end < s.start)
  <2>1. PICK a, e, o \in Nat : a = r.start /\ e = r.end /\ o = s.start
    BY <1>7
  <2>2. next <= o
    BY <1>5, <2>1
  <2>3. a < first + size /\ e <= first + size /\ (within => e < first + size)
    BY <1>6, <2>1
  <2>4. a < o /\ e <= o
    BY <1>3, <2>2, <2>3
  <2>5. within => e < o
    BY <1>3, <2>2, <2>3
  <2>. QED BY <2>1, <2>4, <2>5
<1>. QED BY <1>8 DEF r, s, within

(* Only the range of the defining block may touch the next one.            *)
LEMMA SpansChain ==
  ASSUME SpansInvariant, AllPassed, NEW v \in Vals(func)
  PROVE  IsChain(SpanSet(v))
<1>1. /\ func \in Functions /\ spans[v] \in RangeMaps(Block(func))
      /\ DOMAIN spans[v] = {b \in Block(func) : Appears(func, v, b)}
      /\ \A b \in DOMAIN spans[v] : IsSpan(func, v, b, spans[v][b])
  BY SpansAtEnd DEF EachSpan
<1>2. PICK n \in Nat : /\ n = Len(func.order) /\ DOMAIN func.order = 1 .. n /\ n # 0
                       /\ Range(func.order) = Block(func)
  BY <1>1, FunctionsAssumption DEF FunctionsAssumption
<1>3. \A b \in Block(func) : \E k \in 1 .. n : b = func.order[k]
  BY <1>2 DEF Range
<1>4. SpanSet(v) # {}
  <2>1. \E b \in Block(func) : Home(func, v, b)
    <3>1. CASE v \in func.args
      <4>1. func.order[1] \in Block(func)
        BY <1>2 DEF Range
      <4>. QED BY <3>1, <4>1 DEF Home
    <3>2. CASE v \notin func.args
      BY <3>2 DEF Vals, Home
    <3>. QED BY <3>1, <3>2
  <2>. QED BY <1>1, <2>1 DEF SpanSet, Appears
<1>5. \A r \in SpanSet(v) : r \in LiveRanges /\ r.start <= r.end
  BY <1>1 DEF SpanSet, IsSpan
<1>6. ASSUME NEW r \in SpanSet(v), NEW s \in SpanSet(v), r.start < s.start
      PROVE  /\ r.end <= s.start
             /\ (\E q \in SpanSet(v) : q.start < r.start) => r.end < s.start
  <2>1. PICK b, c \in DOMAIN spans[v] : r = spans[v][b] /\ s = spans[v][c]
    BY DEF SpanSet
  <2>2. PICK j, k \in 1 .. n : b = func.order[j] /\ c = func.order[k]
    BY <1>1, <1>3, <2>1
  <2>3. \A x \in SpanSet(v) : x.start \in Nat
    BY <1>5, RangeNumbers
  <2>4. j < k
    <3>1. j # k
      BY <1>6, <2>1, <2>2, <2>3
    <3>2. k < j => s.start < r.start
      BY <1>2, <2>1, <2>2, SpansApart
    <3>. QED BY <1>6, <2>3, <3>1, <3>2
  <2>5. /\ r.end <= s.start
        /\ ~ Home(func, v, b) \/ v \notin LiveOut(func, b) => r.end < s.start
    BY <1>2, <2>1, <2>2, <2>4, SpansApart
  <2>6. ASSUME NEW q \in SpanSet(v), q.start < r.start, ~ FeedsPhi(func, v)
        PROVE  ~ Home(func, v, b)
    <3>1. PICK d \in DOMAIN spans[v] : q = spans[v][d]
      BY DEF SpanSet
    <3>2. PICK i \in 1 .. n : d = func.order[i]
      BY <1>1, <1>3, <3>1
    <3>3. i < j
      <4>1. i # j
        BY <2>1, <2>2, <2>3, <2>6, <3>1, <3>2
      <4>2. j < i => r.start < q.start
        BY <1>2, <2>1, <2>2, <3>1, <3>2, SpansApart
      <4>. QED BY <2>3, <2>6, <4>1, <4>2
    <3>4. Appears(func, v, d)
      BY <1>1, <3>1
    <3>. QED BY <1>1, <1>2, <2>2, <2>6, <3>2, <3>3, <3>4, HomeFirst
  <2>7. ASSUME FeedsPhi(func, v), Home(func, v, b) PROVE v \notin LiveOut(func, b)
    <3>1. v \notin func.args
      BY <1>1, <2>7, CopiesAssumption DEF CopiesAssumption
    <3>2. PICK m \in DOMAIN func.code[b] : v \in func.code[b][m].outs
      BY <2>7, <3>1 DEF Home, DefinedIn
    <3>. QED BY <1>1, <2>1, <2>7, <3>2, CopiesAlone
  <2>. QED BY <2>5, <2>6, <2>7
<1>. QED BY <1>4, <1>5, <1>6 DEF IsChain

----------------------------------------------------------------------------
(* A range before the others.                                              *)
LEMMA Prepended ==
  ASSUME NEW s \in Seq(LiveRanges), StartsDiffer(s), NEW r \in LiveRanges,
         \A q \in Range(s) : q.start # r.start
  PROVE  /\ <<r>> \o s \in Seq(LiveRanges) /\ StartsDiffer(<<r>> \o s)
         /\ Range(<<r>> \o s) = {r} \cup Range(s)
<1>0. PICK m \in Nat : m = Len(s)
  OBVIOUS
<1> DEFINE one == <<r>>
           new == one \o s
<1>1. one \in Seq(LiveRanges) /\ Len(one) = 1 /\ one[1] = r
  OBVIOUS
<1> HIDE DEF one
<1>2. /\ new \in Seq(LiveRanges) /\ Len(new) = 1 + m
      /\ \A i \in 1 .. 1 + m : new[i] = IF i <= 1 THEN one[i] ELSE s[i - 1]
  <2>1. /\ new \in Seq(LiveRanges) /\ Len(new) = Len(one) + Len(s)
        /\ \A i \in 1 .. Len(one) + Len(s) :
             new[i] = IF i <= Len(one) THEN one[i] ELSE s[i - Len(one)]
    BY <1>1, Concatenated
  <2>. QED BY <1>0, <1>1, <2>1
<1> HIDE DEF new
<1>3. /\ new[1] = r /\ 1 \in 1 .. 1 + m
      /\ \A i \in 1 .. m : new[i + 1] = s[i] /\ i + 1 \in 1 .. 1 + m
  <2>1. \A i \in 1 .. m : i + 1 \in 1 .. 1 + m /\ ~ (i + 1 <= 1) /\ (i + 1) - 1 = i
    OBVIOUS
  <2>2. 1 \in 1 .. 1 + m /\ 1 <= 1
    OBVIOUS
  <2>. QED BY <1>1, <1>2, <2>1, <2>2
<1>4. \A i \in 1 .. 1 + m : i # 1 => i - 1 \in 1 .. m /\ (i - 1) + 1 = i
  OBVIOUS
<1>5. \A i \in 1 .. m : s[i] \in Range(s)
  BY <1>0, RangeElements
<1>6. ASSUME NEW i \in 1 .. 1 + m, NEW j \in 1 .. 1 + m, i < j
      PROVE  new[i].start # new[j].start
  <2>1. j - 1 \in 1 .. m /\ new[j] = s[j - 1]
    <3>1. j # 1
      BY <1>6
    <3>2. j - 1 \in 1 .. m /\ (j - 1) + 1 = j
      BY <1>4, <3>1
    <3>. QED BY <1>3, <3>2
  <2>2. CASE i = 1
    BY <1>3, <1>5, <2>1, <2>2
  <2>3. CASE i # 1
    <3>1. i - 1 \in 1 .. m /\ (i - 1) + 1 = i /\ i - 1 # j - 1
      BY <1>4, <1>6, <2>3
    <3>2. new[i] = s[i - 1]
      BY <1>3, <3>1
    <3>. QED BY <1>0, <2>1, <3>1, <3>2 DEF StartsDiffer
  <2>. QED BY <2>2, <2>3
<1>7. StartsDiffer(new)
  <2>1. \A i, j \in 1 .. 1 + m : i # j => i < j \/ j < i
    OBVIOUS
  <2>. QED BY <1>2, <1>6, <2>1 DEF StartsDiffer
<1>8. Range(new) = {r} \cup Range(s)
  <2>1. ASSUME NEW x \in Range(new) PROVE x \in {r} \cup Range(s)
    <3>1. PICK i \in 1 .. 1 + m : x = new[i]
      BY <1>2, RangeElements
    <3>2. CASE i # 1
      <4>1. i - 1 \in 1 .. m /\ (i - 1) + 1 = i
        BY <1>4, <3>2
      <4>2. x = s[i - 1]
        BY <1>3, <3>1, <4>1
      <4>. QED BY <1>5, <4>1, <4>2
    <3>. QED BY <1>3, <3>1, <3>2
  <2>2. r \in Range(new)
    BY <1>2, <1>3, RangeElements
  <2>3. ASSUME NEW x \in Range(s) PROVE x \in Range(new)
    <3>1. PICK i \in 1 .. m : x = s[i]
      BY <1>0, RangeElements
    <3>2. x = new[i + 1] /\ i + 1 \in 1 .. Len(new)
      BY <1>2, <1>3, <3>1
    <3>. QED BY <1>2, <3>2, RangeElements
  <2>. QED BY <2>1, <2>2, <2>3
<1>. QED BY <1>2, <1>7, <1>8 DEF new, one

(* The sequence the ranges come in, block after block.                     *)
IsGathered(g, map, order) ==
    g = [k \in 0 .. Len(order) |->
          IF k = 0 THEN <<>>
          ELSE IF order[k] \in DOMAIN map THEN <<map[order[k]]>> \o g[k - 1] ELSE g[k - 1]]

(* result() gathers the ranges of the value, each once.                    *)
LEMMA RangesOfFacts ==
  ASSUME NEW v, NEW B, spans[v] \in RangeMaps(B), DOMAIN spans[v] \subseteq Range(func.order),
         func.order \in Seq(B),
         \A j, k \in 1 .. Len(func.order) :
            j # k /\ func.order[j] \in DOMAIN spans[v] /\ func.order[k] \in DOMAIN spans[v] =>
               spans[v][func.order[j]].start # spans[v][func.order[k]].start
  PROVE  /\ RangesOf(v) \in Seq(LiveRanges) /\ StartsDiffer(RangesOf(v))
         /\ Range(RangesOf(v)) = SpanSet(v)
<1> DEFINE map == spans[v]
           order == func.order
<1>0. PICK n \in Nat : n = Len(order) /\ DOMAIN order = 1 .. n
  OBVIOUS
<1> DEFINE X == Seq(LiveRanges)
           Step(k, x) == IF order[k] \in DOMAIN map THEN <<map[order[k]]>> \o x ELSE x
           step == [k \in 1 .. n |-> [x \in X |-> Step(k, x)]]
<1>1. \A b \in DOMAIN map : map[b] \in LiveRanges
  BY DEF RangeMaps
<1>2. ASSUME NEW k \in 1 .. n, NEW x \in X PROVE Step(k, x) \in X
  <2>1. CASE order[k] \in DOMAIN map
    <3>1. <<map[order[k]]>> \in Seq(LiveRanges)
      BY <1>1, <2>1
    <3>. QED BY <2>1, <3>1
  <2>. QED BY <2>1
<1> HIDE DEF Step
<1>3. step \in [1 .. n -> [X -> X]]
  <2> HIDE DEF X
  <2>. QED BY <1>2
<1>4. PICK h \in [0 .. n -> X] : IsBuilt(h, n, <<>>, step)
  <2>1. <<>> \in X
    OBVIOUS
  <2> HIDE DEF step, X
  <2>. QED BY <1>3, <2>1, BuiltExists
<1>5. \A k \in 0 .. n : h[k] = IF k = 0 THEN <<>> ELSE Step(k, h[k - 1])
  <2> TAKE k \in 0 .. n
  <2>1. h[k] = IF k = 0 THEN <<>> ELSE step[k][h[k - 1]]
    <3> HIDE DEF step
    <3>. QED BY <1>4 DEF IsBuilt
  <2>2. CASE k # 0
    <3>1. k \in 1 .. n /\ k - 1 \in 0 .. n
      BY <2>2
    <3>2. h[k - 1] \in X
      BY <1>4, <3>1
    <3>3. step[k][h[k - 1]] = Step(k, h[k - 1])
      BY <3>1, <3>2
    <3>. QED BY <2>1, <2>2, <3>3
  <2>. QED BY <2>1, <2>2
<1>6. IsGathered(h, map, order)
  <2>1. h = [k \in 0 .. n |-> h[k]]
    BY <1>4
  <2>. QED BY <1>0, <1>5, <2>1 DEF IsGathered, Step
<1> DEFINE g == CHOOSE z : IsGathered(z, map, order)
<1>7. IsGathered(g, map, order)
  BY <1>6
<1>8. RangesOf(v) = g[n]
  BY <1>0 DEF RangesOf, IsGathered
<1> HIDE DEF g, step
<1>9. g[0] = <<>> /\ \A k \in 1 .. n : g[k] = Step(k, g[k - 1])
  <2>1. \A k \in 0 .. n : g[k] = IF k = 0 THEN <<>> ELSE Step(k, g[k - 1])
    BY <1>0, <1>7 DEF IsGathered, Step
  <2>. QED BY <2>1
<1> DEFINE Here(k) == {map[order[j]] : j \in {i \in 1 .. k : order[i] \in DOMAIN map}}
           Good(k) == g[k] \in Seq(LiveRanges) /\ StartsDiffer(g[k]) /\ Range(g[k]) = Here(k)
           P == {k \in 0 .. n : Good(k)}
<1>10. 0 \in P
  <2>1. <<>> \in Seq(LiveRanges) /\ StartsDiffer(<<>>) /\ Range(<<>>) = {}
    BY DEF StartsDiffer, Range
  <2>2. Here(0) = {}
    OBVIOUS
  <2> HIDE DEF Here
  <2>3. Good(0)
    BY <1>9, <2>1, <2>2
  <2>. QED BY <2>3
<1>11. ASSUME NEW k \in 1 .. n, k - 1 \in P PROVE k \in P
  <2>1. g[k - 1] \in Seq(LiveRanges) /\ StartsDiffer(g[k - 1]) /\ Range(g[k - 1]) = Here(k - 1)
    BY <1>11
  <2>2. 1 .. k = (1 .. k - 1) \cup {k} /\ g[k] = Step(k, g[k - 1])
    BY <1>9
  <2>3. CASE order[k] \notin DOMAIN map
    <3>1. Here(k) = Here(k - 1)
      BY <2>2, <2>3
    <3>2. g[k] = g[k - 1]
      BY <2>2, <2>3 DEF Step
    <3> HIDE DEF Here
    <3>3. Good(k)
      BY <2>1, <3>1, <3>2
    <3>. QED BY <3>3
  <2>4. CASE order[k] \in DOMAIN map
    <3> DEFINE r == map[order[k]]
    <3>1. Here(k) = {r} \cup Here(k - 1)
      BY <2>2, <2>4
    <3>2. g[k] = <<r>> \o g[k - 1]
      BY <2>2, <2>4 DEF Step
    <3>3. r \in LiveRanges
      BY <1>1, <2>4
    <3>4. ASSUME NEW q \in Here(k - 1) PROVE q.start # r.start
      <4>1. PICK j \in 1 .. k - 1 : order[j] \in DOMAIN map /\ q = map[order[j]]
        OBVIOUS
      <4>2. j \in 1 .. Len(func.order) /\ k \in 1 .. Len(func.order) /\ j # k
        BY <1>0, <4>1
      <4>. QED BY <2>4, <4>1, <4>2
    <3> HIDE DEF Here, r
    <3>5. Good(k)
      BY <2>1, <3>1, <3>2, <3>3, <3>4, Prepended
    <3>. QED BY <3>5
  <2>. QED BY <2>3, <2>4
<1> HIDE DEF P
<1>12. \A k \in 0 .. n : k \in P
  BY <1>10, <1>11, UpTo
<1>13. n \in P
  BY <1>12
<1>14. Good(n)
  BY <1>13 DEF P
<1>15. Here(n) = SpanSet(v)
  <2>1. \A b \in DOMAIN map : \E j \in 1 .. n : b = order[j]
    BY <1>0 DEF Range
  <2>2. ASSUME NEW x \in SpanSet(v) PROVE x \in Here(n)
    <3>1. PICK b \in DOMAIN map : x = map[b]
      BY DEF SpanSet
    <3>2. PICK j \in 1 .. n : b = order[j]
      BY <2>1
    <3>. QED BY <3>1, <3>2
  <2>3. ASSUME NEW x \in Here(n) PROVE x \in SpanSet(v)
    <3>1. PICK j \in 1 .. n : order[j] \in DOMAIN map /\ x = map[order[j]]
      BY <2>3
    <3>. QED BY <3>1 DEF SpanSet
  <2> HIDE DEF Here
  <2>. QED BY <2>2, <2>3
<1> HIDE DEF Here
<1>. QED BY <1>8, <1>14, <1>15

(* The interval of a value covers its ranges, and nothing else starts it.  *)
IntervalsCover ==
    Evaluated => \A v \in Vals(func) : Covers(intervals[v].ranges, SpanSet(v))

(* result() makes intervals that cover the ranges.                         *)
LEMMA CoverAtResult ==
  ASSUME SpansInvariant, Result
  PROVE  IntervalsCover'
<1>1. /\ phase = "usages" /\ pos > Len(func.order) /\ func' = func /\ spans' = spans
      /\ intervals' = [v \in DOMAIN spans |->
                         NewInterval(RangesOf(v), IF v \in call_live_out
                                                  THEN "CALL_LIVE_OUT" ELSE "NOTHING")]
  BY DEF Result
<1>2. AllPassed
  <2>1. Len(func.order) \in Nat
    BY FunctionsAssumption DEF FunctionsAssumption, SpansInvariant
  <2>. QED BY <1>1, <2>1 DEF AllPassed, SpansInvariant
<1>3. func \in Functions /\ DOMAIN spans = Vals(func) /\ EachSpan
  BY <1>2, SpansAtEnd
<1>4. ASSUME NEW v \in Vals(func)
      PROVE  Covers(intervals'[v].ranges, SpanSet(v))
  <2>1. spans[v] \in RangeMaps(Block(func)) /\ DOMAIN spans[v] \subseteq Block(func)
    BY <1>3 DEF EachSpan
  <2>2. /\ func.order \in Seq(Block(func)) /\ Range(func.order) = Block(func)
        /\ DOMAIN spans[v] \subseteq Range(func.order)
    BY <1>3, <2>1, FunctionsAssumption DEF FunctionsAssumption
  <2>3. ASSUME NEW j \in 1 .. Len(func.order), NEW k \in 1 .. Len(func.order), j # k,
               func.order[j] \in DOMAIN spans[v], func.order[k] \in DOMAIN spans[v]
        PROVE  spans[v][func.order[j]].start # spans[v][func.order[k]].start
    <3>1. spans[v][func.order[j]] \in LiveRanges /\ spans[v][func.order[k]] \in LiveRanges
      BY <2>1, <2>3 DEF RangeMaps
    <3>2. CASE j < k
      BY <1>2, <2>3, <3>1, <3>2, SpansApart, RangeNumbers
    <3>3. CASE k < j
      BY <1>2, <2>3, <3>1, <3>3, SpansApart, RangeNumbers
    <3>. QED BY <2>3, <3>2, <3>3
  <2>4. /\ RangesOf(v) \in Seq(LiveRanges) /\ StartsDiffer(RangesOf(v))
        /\ Range(RangesOf(v)) = SpanSet(v)
    BY <2>1, <2>2, <2>3, RangesOfFacts
  <2>5. IsChain(SpanSet(v))
    BY <1>2, SpansChain
  <2>6. Covers(Canonical(RangesOf(v)), SpanSet(v))
    BY <2>4, <2>5, CanonicalCovers
  <2>7. intervals'[v].ranges = Canonical(RangesOf(v))
    BY <1>1, <1>3 DEF NewInterval
  <2>. QED BY <2>6, <2>7
<1>. QED BY <1>1, <1>4 DEF IntervalsCover, SpanSet

(* Before result() there is nothing to show.                               *)
LEMMA CoverAtFirst == Init => IntervalsCover
  BY DEF Init, IntervalsCover, Evaluated

(* Nothing after result() changes the ranges or the intervals.             *)
LEMMA CoverStays ==
  SpansInvariant /\ IntervalsCover /\ [IntervalsNext]_ivars => IntervalsCover'
<1> SUFFICES ASSUME SpansInvariant, IntervalsCover, [IntervalsNext]_ivars PROVE IntervalsCover'
  OBVIOUS
<1>1. CASE SetupLocals \/ StartUsages \/ EvalUsages
  BY <1>1 DEF SetupLocals, StartUsages, EvalUsages, IntervalsCover, Evaluated
<1>2. CASE Result
  BY <1>2, CoverAtResult
<1>3. CASE UNCHANGED ivars
  BY <1>3 DEF ivars, IntervalsCover, Evaluated, SpanSet
<1>. QED BY <1>1, <1>2, <1>3 DEF IntervalsNext

(* The intervals cover the ranges they are made of.                        *)
LEMMA CoverAlways == IntervalsSpec => []IntervalsCover
<1>. QED BY CoverAtFirst, CoverStays, RangesAsEvaluated, PTL DEF IntervalsSpec

(* After sorting and merging, the first range of an interval is that of    *)
(* the defining block: start() - 1 leads to the defining instruction, and  *)
(* no block of a loop that comes earlier in the preorder is in front.      *)
THEOREM AlwaysStartsAtDefinition == IntervalsSpec => []StartsAtDefinition
<1>1. SpansInvariant /\ IntervalsCover => StartsAtDefinition
  <2> SUFFICES ASSUME SpansInvariant, IntervalsCover, Evaluated,
                      NEW v \in Vals(func) \ func.args, ~ FeedsPhi(func, v)
               PROVE  Start(intervals[v]) = NumberAt(func, DefinitionOf(func, v))
    BY DEF StartsAtDefinition
  <2>0. AllPassed /\ v \in Vals(func)
    BY DEF SpansInvariant, Evaluated, AllPassed
  <2>1. /\ func \in Functions
        /\ DOMAIN spans[v] = {b \in Block(func) : Appears(func, v, b)}
        /\ \A b \in DOMAIN spans[v] : IsSpan(func, v, b, spans[v][b])
    BY <2>0, SpansAtEnd DEF EachSpan
  <2>2. PICK b \in Block(func) : v \in DefinedIn(func, b)
    BY DEF Vals
  <2>3. PICK n \in DOMAIN func.code[b] : v \in func.code[b][n].outs
    BY <2>2 DEF DefinedIn
  <2>4. DefinedAt(func, v, b) = n
    BY <2>1, <2>3, DefinedOnce
  <2>5. DefinitionOf(func, v) = <<b, n>>
    BY <2>1, <2>3, DefinitionIs
  <2> DEFINE s == spans[v][b]
             c == intervals[v].ranges
  <2>6. b \in DOMAIN spans[v] /\ s.start = FirstNumber(func, b) + n - 1
    <3>1. b \in DOMAIN spans[v]
      BY <2>1, <2>2 DEF Appears, Home
    <3>2. s.start = StartIn(func, v, b)
      BY <2>1, <3>1 DEF IsSpan
    <3>. QED BY <2>2, <2>4, <3>1, <3>2 DEF StartIn
  <2>7. s.start = NumberAt(func, DefinitionOf(func, v))
    BY <2>5, <2>6 DEF NumberAt
  <2>8. Covers(c, SpanSet(v))
    BY <2>0 DEF IntervalsCover
  <2>9. PICK r \in SpanSet(v) : c[1].start = r.start
    BY <2>8 DEF Covers
  <2>10. PICK d \in DOMAIN spans[v] : r = spans[v][d]
    BY DEF SpanSet
  <2>11. c[1].start <= s.start /\ s \in LiveRanges /\ r \in LiveRanges
    BY <2>1, <2>6, <2>8, <2>10 DEF Covers, SpanSet, IsSpan
  <2>12. s.start <= r.start
    <3>1. Range(func.order) = Block(func) /\ DOMAIN func.order = 1 .. Len(func.order)
      BY <2>1, FunctionsAssumption DEF FunctionsAssumption
    <3>2. PICK j, k \in 1 .. Len(func.order) : b = func.order[j] /\ d = func.order[k]
      BY <2>1, <2>10, <3>1 DEF Range
    <3>3. j <= k
      <4>1. Home(func, v, b) /\ Appears(func, v, d)
        BY <2>1, <2>2, <2>10 DEF Home
      <4>. QED BY <2>0, <2>1, <3>2, <4>1, HomeFirst
    <3>4. CASE j = k
      BY <2>10, <2>11, <3>2, <3>4, RangeNumbers
    <3>5. CASE j < k
      <4>1. s.start < r.start
        BY <2>0, <2>6, <2>10, <3>2, <3>5, SpansApart
      <4>. QED BY <2>11, <4>1, RangeNumbers
    <3>. QED BY <3>3, <3>4, <3>5
  <2>13. Start(intervals[v]) = c[1].start
    <3>1. c \in Seq(LiveRanges) /\ Len(c) # 0
      BY <2>8 DEF Covers
    <3> HIDE DEF c
    <3>2. Head(c) = c[1]
      BY <3>1
    <3>. QED BY <3>2 DEF Start, c
  <2>14. c[1].start = s.start
    <3>1. PICK x, y \in Nat : x = s.start /\ y = r.start
      BY <2>11, RangeNumbers
    <3>2. y <= x /\ x <= y
      BY <2>9, <2>11, <2>12, <3>1
    <3>. QED BY <2>9, <3>1, <3>2
  <2>. QED BY <2>7, <2>13, <2>14
<1>. QED BY <1>1, RangesAsEvaluated, CoverAlways, PTL

----------------------------------------------------------------------------
(* Where the range of a value lies in a block, by what the value is to it: *)
(* first, defined by its instruction m ...                                 *)
LEMMA SpanOfDefined ==
  ASSUME NEW f \in Functions, NEW b \in Block(f), NEW m \in DOMAIN f.code[b],
         NEW v \in f.code[b][m].outs, NEW r, IsSpan(f, v, b, r)
  PROVE  /\ Appears(f, v, b) /\ r.start \in Nat /\ r.end \in Nat /\ r.start <= r.end
         /\ r.start = FirstNumber(f, b) + m - 1
         /\ v \in LiveOut(f, b) => FirstNumber(f, b) + Len(f.code[b]) <= r.end
         /\ \A n \in ReadIn(f, v, b) : FirstNumber(f, b) + n - 1 <= r.end
<1>1. v \in DefinedIn(f, b) /\ DefinedAt(f, v, b) = m
  BY DefinedOnce
<1>2. Home(f, v, b) /\ Appears(f, v, b)
  BY <1>1 DEF Home, Appears
<1>3. r.start \in Nat /\ r.end \in Nat /\ r.start <= r.end
  BY RangeNumbers DEF IsSpan
<1>4. r.start = FirstNumber(f, b) + m - 1
  BY <1>1 DEF IsSpan, StartIn
<1>5. OutEnd(f, v, b) = FirstNumber(f, b) + Len(f.code[b])
  <2>1. PICK first, size \in Nat : first = FirstNumber(f, b) /\ size = Len(f.code[b])
    BY BlockFacts
  <2>2. OutEnd(f, v, b) = first + size - 0
    BY <1>2, <2>1 DEF OutEnd
  <2>. QED BY <2>1, <2>2
<1>. QED BY <1>2, <1>3, <1>4, <1>5 DEF IsSpan

(* ... or live into it ...                                                 *)
LEMMA SpanOfLiveIn ==
  ASSUME NEW f \in Functions, NEW b \in Block(f), NEW v \in f.live_in[b],
         NEW r, Appears(f, v, b) => IsSpan(f, v, b, r)
  PROVE  /\ Appears(f, v, b) /\ v \notin DefinedIn(f, b)
         /\ r.start \in Nat /\ r.end \in Nat /\ r.start <= FirstNumber(f, b)
         /\ v \in LiveOut(f, b) => FirstNumber(f, b) + Len(f.code[b]) - 1 <= r.end
         /\ \A n \in ReadIn(f, v, b) : FirstNumber(f, b) + n - 1 <= r.end
<1>1. f.live_in[b] = Exposed(f, b) \cup (LiveOut(f, b) \ DefinedIn(f, b))
  BY AnalysedAssumption DEF AnalysedAssumption
<1>2. Appears(f, v, b)
  BY <1>1 DEF Exposed, Appears, ReadIn
<1>3. v \notin DefinedIn(f, b)
  <2>1. PICK k \in DOMAIN f.order : f.order[k] = b
    BY FunctionsAssumption DEF FunctionsAssumption, Range
  <2>2. k \in k .. Len(f.order)
    <3>1. f.order \in Seq(Block(f))
      BY FunctionsAssumption DEF FunctionsAssumption
    <3>2. k \in 1 .. Len(f.order) /\ Len(f.order) \in Nat
      BY <2>1, <3>1
    <3>. QED BY <3>2
  <2>3. f.live_in[f.order[k]] \cap DefinedIn(f, f.order[k]) = {}
    BY <2>1, <2>2, AnalysedAssumption DEF AnalysedAssumption
  <2>. QED BY <2>1, <2>3
<1>4. PICK first, size \in Nat : first = FirstNumber(f, b) /\ size = Len(f.code[b])
  BY BlockFacts
<1>5. r.start \in Nat /\ r.end \in Nat
  BY <1>2, RangeNumbers DEF IsSpan
<1>6. r.start <= first
  <2>1. r.start = StartIn(f, v, b)
    BY <1>2 DEF IsSpan
  <2>2. r.start = (IF v \in f.args /\ b = f.order[1] THEN 0 ELSE first)
    BY <1>3, <1>4, <2>1 DEF StartIn
  <2>3. CASE v \in f.args /\ b = f.order[1]
    BY <1>4, <2>2, <2>3
  <2>4. CASE ~ (v \in f.args /\ b = f.order[1])
    BY <1>4, <2>2, <2>4
  <2>. QED BY <2>3, <2>4
<1>7. v \in LiveOut(f, b) => first + size - 1 <= r.end
  <2>1. OutEnd(f, v, b) = first + size - (IF Home(f, v, b) THEN 0 ELSE 1)
    BY <1>4 DEF OutEnd
  <2>2. v \in LiveOut(f, b) => OutEnd(f, v, b) <= r.end
    BY <1>2 DEF IsSpan
  <2>3. CASE Home(f, v, b)
    BY <1>4, <1>5, <2>1, <2>2, <2>3
  <2>4. CASE ~ Home(f, v, b)
    BY <1>4, <2>1, <2>2, <2>4
  <2>. QED BY <2>3, <2>4
<1>8. \A n \in ReadIn(f, v, b) : FirstNumber(f, b) + n - 1 <= r.end
  BY <1>2 DEF IsSpan
<1>. QED BY <1>2, <1>3, <1>4, <1>5, <1>6, <1>7, <1>8

(* ... or an argument, in the first block.                                 *)
LEMMA SpanOfArgument ==
  ASSUME NEW f \in Functions, NEW v \in f.args, NEW b \in Block(f), b = f.order[1],
         NEW r, Appears(f, v, b) => IsSpan(f, v, b, r)
  PROVE  /\ Appears(f, v, b)
         /\ r.start \in Nat /\ r.end \in Nat /\ r.start = 0
         /\ v \in LiveOut(f, b) => FirstNumber(f, b) + Len(f.code[b]) <= r.end
         /\ \A n \in ReadIn(f, v, b) : FirstNumber(f, b) + n - 1 <= r.end
<1>1. Home(f, v, b) /\ Appears(f, v, b)
  BY DEF Home, Appears
<1>2. v \notin DefinedIn(f, b)
  <2>1. ASSUME NEW m \in DOMAIN f.code[b], v \in f.code[b][m].outs PROVE FALSE
    BY <2>1, DefinedOnce
  <2>. QED BY <2>1 DEF DefinedIn
<1>3. r.start \in Nat /\ r.end \in Nat
  BY <1>1, RangeNumbers DEF IsSpan
<1>4. r.start = 0
  BY <1>1, <1>2 DEF IsSpan, StartIn
<1>5. OutEnd(f, v, b) = FirstNumber(f, b) + Len(f.code[b])
  <2>1. PICK first, size \in Nat : first = FirstNumber(f, b) /\ size = Len(f.code[b])
    BY BlockFacts
  <2>2. OutEnd(f, v, b) = first + size - 0
    BY <1>1, <2>1 DEF OutEnd
  <2>. QED BY <2>1, <2>2
<1>. QED BY <1>1, <1>3, <1>4, <1>5 DEF IsSpan

(* A value that instruction m of a block defines and that is needed is     *)
(* held beyond the parallel copies of the block and beyond m.              *)
LEMMA NeededBeyond ==
  ASSUME NEW f \in Functions, NEW b \in Block(f), NEW m \in DOMAIN f.code[b],
         NEW v \in f.code[b][m].outs, ~ FeedsPhi(f, v), Needed(f, b, m, v),
         NEW r, IsSpan(f, v, b, r),
         NEW n \in DOMAIN f.code[b], n = m \/ f.code[b][n].kind = "pcopy"
  PROVE  FirstNumber(f, b) + n <= r.end
<1>1. PICK first, size \in Nat : first = FirstNumber(f, b) /\ size = Len(f.code[b])
  BY BlockFacts
<1>2. m \in 1 .. size /\ n \in 1 .. size /\ DOMAIN f.code[b] = 1 .. size
  BY <1>1, BlockFacts
<1>3. /\ r.start \in Nat /\ r.end \in Nat
      /\ v \in LiveOut(f, b) => first + size <= r.end
      /\ \A j \in ReadIn(f, v, b) : first + j - 1 <= r.end
  BY <1>1, SpanOfDefined
<1>4. CASE v \in LiveOut(f, b)
  BY <1>1, <1>2, <1>3, <1>4
<1>5. ASSUME NEW j \in (m + 1) .. Len(f.code[b]), v \in Reads(f.code[b][j])
      PROVE  first + n <= r.end
  <2>1. j \in 1 .. size /\ j > m /\ j \in DOMAIN f.code[b]
    BY <1>1, <1>2
  <2>2. j \in ReadIn(f, v, b)
    BY <1>5, <2>1 DEF ReadIn
  <2>3. f.code[b][j].kind # "pcopy"
    <3>1. <<b, j>> \in Instructions(f) /\ Inst(f, <<b, j>>) = f.code[b][j]
      BY <2>1 DEF Instructions, Inst
    <3>. QED BY <1>5, <3>1 DEF FeedsPhi
  <2>4. j > n
    <3>1. CASE n = m
      BY <2>1, <3>1
    <3>2. CASE f.code[b][n].kind = "pcopy"
      <4>1. \A i \in 1 .. n : f.code[b][i].kind = "pcopy"
        BY <3>2, ShownAssumption DEF ShownAssumption
      <4>2. j \notin 1 .. n
        BY <2>3, <4>1
      <4>. QED BY <1>2, <2>1, <4>2
    <3>. QED BY <3>1, <3>2
  <2>5. first + j - 1 <= r.end
    BY <1>3, <2>2
  <2>. QED BY <1>1, <1>2, <1>3, <2>1, <2>4, <2>5
<1>. QED BY <1>1, <1>4, <1>5 DEF Needed

----------------------------------------------------------------------------
(* Two values whose ranges meet.                                           *)
Meet(f, sp, v, w) ==
    \E b, c \in Block(f) : /\ Appears(f, v, b) /\ Appears(f, w, c)
                           /\ RangesMeet(sp[v][b], sp[w][c])

AllSpans(f, sp) ==
    \A v \in Vals(f) : \A b \in Block(f) : Appears(f, v, b) => IsSpan(f, v, b, sp[v][b])

(* What a block defines or has live into it, and what is later of it.      *)
LEMMA BlockValues ==
  ASSUME NEW f \in Functions, NEW b \in Block(f)
  PROVE  /\ \A m \in DOMAIN f.code[b] : f.code[b][m].outs \subseteq Vals(f)
         /\ f.live_in[b] \subseteq Vals(f) /\ f.args \subseteq Vals(f)
         /\ \A v \in ReadOnEdge(f, b) : FeedsPhi(f, v)
<1>1. \A m \in DOMAIN f.code[b] : f.code[b][m].outs \subseteq Vals(f)
  BY DEF Vals, DefinedIn
<1>2. f.live_in[b] \subseteq Vals(f) /\ f.args \subseteq Vals(f)
  BY BlockFacts DEF Vals
<1>3. ASSUME NEW v \in ReadOnEdge(f, b) PROVE FeedsPhi(f, v)
  <2>1. PICK s \in Succs(f, b) :
          v \in UNION {Reads(f.code[s][n]) : n \in {m \in DOMAIN f.code[s] :
                                                      f.code[s][m].kind = "pcopy"}}
    BY DEF ReadOnEdge
  <2>2. PICK n \in DOMAIN f.code[s] : f.code[s][n].kind = "pcopy" /\ v \in Reads(f.code[s][n])
    BY <2>1
  <2>3. s \in Block(f)
    BY <2>1, BlockFacts
  <2>4. <<s, n>> \in Instructions(f) /\ Inst(f, <<s, n>>) = f.code[s][n]
    BY <2>2, <2>3 DEF Instructions, Inst
  <2>. QED BY <2>2, <2>4 DEF FeedsPhi
<1>. QED BY <1>1, <1>2, <1>3

(* Two phis of a block.                                                    *)
LEMMA PhisMeet ==
  ASSUME NEW f \in Functions, NEW sp, AllSpans(f, sp), NEW b \in Block(f),
         NEW v \in PhisOf(f, b), NEW w \in PhisOf(f, b)
  PROVE  Meet(f, sp, v, w)
<1>1. PICK m, n \in DOMAIN f.code[b] :
         /\ f.code[b][m].kind = "pcopy" /\ v \in f.code[b][m].outs
         /\ f.code[b][n].kind = "pcopy" /\ w \in f.code[b][n].outs
  BY DEF PhisOf
<1>2. v \in Vals(f) /\ w \in Vals(f)
  BY <1>1, BlockValues
<1>3. Appears(f, v, b) /\ Appears(f, w, b)
  <2>1. v \in DefinedIn(f, b) /\ w \in DefinedIn(f, b)
    BY <1>1 DEF DefinedIn
  <2>. QED BY <2>1 DEF Appears, Home
<1> DEFINE r == sp[v][b]
           q == sp[w][b]
<1>4. IsSpan(f, v, b, r) /\ IsSpan(f, w, b, q)
  BY <1>2, <1>3 DEF AllSpans
<1>5. /\ ~ FeedsPhi(f, v) /\ Needed(f, b, m, v)
      /\ ~ FeedsPhi(f, w) /\ Needed(f, b, n, w)
  BY <1>1, CopiesAlone, ShownAssumption DEF ShownAssumption
<1> HIDE DEF r, q
<1>6. PICK first \in Nat : first = FirstNumber(f, b)
  BY BlockFacts
<1>7. m \in Nat /\ n \in Nat /\ m # 0 /\ n # 0
  <2>1. DOMAIN f.code[b] = 1 .. Len(f.code[b]) /\ Len(f.code[b]) \in Nat
    BY BlockFacts
  <2>. QED BY <1>1, <2>1
<1>8. /\ r.start \in Nat /\ r.end \in Nat /\ r.start = first + m - 1
      /\ q.start \in Nat /\ q.end \in Nat /\ q.start = first + n - 1
  BY <1>1, <1>4, <1>6, SpanOfDefined
<1>9. first + n <= r.end
  BY <1>1, <1>4, <1>5, <1>6, NeededBeyond
<1>10. first + m <= q.end
  BY <1>1, <1>4, <1>5, <1>6, NeededBeyond
<1>11. RangesMeet(r, q)
  BY <1>6, <1>7, <1>8, <1>9, <1>10 DEF RangesMeet
<1>. QED BY <1>3, <1>11 DEF Meet, r, q

(* A phi and what is held at the entry of its block.                       *)
LEMMA PhiMeetsHeld ==
  ASSUME NEW f \in Functions, NEW sp, AllSpans(f, sp), NEW b \in Block(f),
         NEW v \in PhisOf(f, b), NEW w \in HeldAfter(f, b, 0), ~ FeedsPhi(f, w)
  PROVE  Meet(f, sp, v, w)
<1>1. CASE w \in PhisOf(f, b)
  BY <1>1, PhisMeet
<1>2. CASE w \notin PhisOf(f, b)
  <2>1. PICK m \in DOMAIN f.code[b] : f.code[b][m].kind = "pcopy" /\ v \in f.code[b][m].outs
    BY DEF PhisOf
  <2>2. PICK first, size \in Nat : /\ first = FirstNumber(f, b) /\ size = Len(f.code[b])
                                   /\ DOMAIN f.code[b] = 1 .. size /\ first # 0
    BY BlockFacts
  <2>3. m \in 1 .. size /\ m # size /\ \A i \in 1 .. m : f.code[b][i].kind = "pcopy"
    BY <2>1, <2>2, ShownAssumption DEF ShownAssumption
  <2>4. w \in f.live_in[b] \/ (w \in f.args /\ b = f.order[1])
    BY <1>2 DEF HeldAfter
  <2>5. v \in Vals(f) /\ w \in Vals(f)
    BY <2>1, <2>4, BlockValues
  <2>6. \/ w \in LiveOut(f, b)
        \/ \E j \in 1 .. size : w \in Reads(f.code[b][j]) /\ f.code[b][j].kind # "pcopy"
    <3>1. w \notin ReadOnEdge(f, b)
      BY BlockValues
    <3>2. 0 + 1 = 1
      OBVIOUS
    <3>. QED BY <2>2, <3>1, <3>2 DEF HeldAfter
  <2> DEFINE r == sp[v][b]
             q == sp[w][b]
  <2>7. Appears(f, v, b) /\ IsSpan(f, v, b, r) /\ (Appears(f, w, b) => IsSpan(f, w, b, q))
    <3>1. v \in DefinedIn(f, b)
      BY <2>1 DEF DefinedIn
    <3>. QED BY <2>5, <3>1 DEF Appears, Home, AllSpans
  <2>8. ~ FeedsPhi(f, v) /\ Needed(f, b, m, v)
    BY <2>1, CopiesAlone, ShownAssumption DEF ShownAssumption
  <2> HIDE DEF r, q
  <2>9. r.start \in Nat /\ r.end \in Nat /\ r.start = first + m - 1 /\ first + m <= r.end
    <3>1. first + m <= r.end
      BY <2>1, <2>2, <2>7, <2>8, NeededBeyond
    <3>. QED BY <2>1, <2>2, <2>7, <3>1, SpanOfDefined
  <2>10. /\ Appears(f, w, b) /\ q.start \in Nat /\ q.end \in Nat /\ q.start <= first
         /\ w \in LiveOut(f, b) => first + size - 1 <= q.end
         /\ \A j \in ReadIn(f, w, b) : first + j - 1 <= q.end
    <3>1. CASE w \in f.live_in[b]
      BY <2>2, <2>7, <3>1, SpanOfLiveIn
    <3>2. CASE w \in f.args /\ b = f.order[1]
      <4>1. /\ Appears(f, w, b) /\ q.start \in Nat /\ q.end \in Nat /\ q.start = 0
            /\ w \in LiveOut(f, b) => first + size <= q.end
            /\ \A j \in ReadIn(f, w, b) : first + j - 1 <= q.end
        BY <2>2, <2>7, <3>2, SpanOfArgument
      <4>2. w \in LiveOut(f, b) => first + size - 1 <= q.end
        BY <2>2, <4>1
      <4>. QED BY <2>2, <4>1, <4>2
    <3>. QED BY <2>4, <3>1, <3>2
  <2>11. first + m <= q.end
    <3>1. CASE w \in LiveOut(f, b)
      BY <2>2, <2>3, <2>10, <3>1
    <3>2. ASSUME NEW j \in 1 .. size, w \in Reads(f.code[b][j]), f.code[b][j].kind # "pcopy"
          PROVE  first + m <= q.end
      <4>1. j \in ReadIn(f, w, b)
        BY <2>2, <3>2 DEF ReadIn
      <4>2. j > m
        BY <2>3, <3>2
      <4>3. first + j - 1 <= q.end
        BY <2>10, <4>1
      <4>. QED BY <2>2, <2>3, <2>10, <4>2, <4>3
    <3>. QED BY <2>6, <3>1, <3>2
  <2>12. RangesMeet(r, q)
    BY <2>2, <2>3, <2>9, <2>10, <2>11 DEF RangesMeet
  <2>. QED BY <2>7, <2>10, <2>12 DEF Meet, r, q
<1>. QED BY <1>1, <1>2

(* Two values of one instruction.                                          *)
LEMMA ResultsMeet ==
  ASSUME NEW f \in Functions, NEW sp, AllSpans(f, sp), NEW b \in Block(f),
         NEW n \in DOMAIN f.code[b], NEW v \in f.code[b][n].outs, NEW w \in f.code[b][n].outs,
         v # w
  PROVE  Meet(f, sp, v, w)
<1>1. v \in Vals(f) /\ w \in Vals(f) /\ Appears(f, v, b) /\ Appears(f, w, b)
  <2>1. v \in DefinedIn(f, b) /\ w \in DefinedIn(f, b)
    BY DEF DefinedIn
  <2>. QED BY <2>1, BlockValues DEF Appears, Home
<1> DEFINE r == sp[v][b]
           q == sp[w][b]
<1>2. IsSpan(f, v, b, r) /\ IsSpan(f, w, b, q)
  BY <1>1 DEF AllSpans
<1>3. /\ ~ FeedsPhi(f, v) /\ Needed(f, b, n, v)
      /\ ~ FeedsPhi(f, w) /\ Needed(f, b, n, w)
  <2>1. f.code[b][n].outs # {v} /\ f.code[b][n].outs # {w}
    OBVIOUS
  <2>2. ~ FeedsPhi(f, v) /\ ~ FeedsPhi(f, w)
    BY <2>1, CopiesAlone
  <2>. QED BY <2>1, <2>2, ShownAssumption DEF ShownAssumption
<1> HIDE DEF r, q
<1>4. PICK first \in Nat : first = FirstNumber(f, b)
  BY BlockFacts
<1>5. n \in Nat
  <2>1. DOMAIN f.code[b] = 1 .. Len(f.code[b])
    BY BlockFacts
  <2>. QED BY <2>1
<1>6. /\ r.start \in Nat /\ r.end \in Nat /\ r.start = first + n - 1
      /\ q.start \in Nat /\ q.end \in Nat /\ q.start = first + n - 1
  BY <1>2, <1>4, SpanOfDefined
<1>7. first + n <= r.end
  BY <1>2, <1>3, <1>4, NeededBeyond
<1>8. first + n <= q.end
  BY <1>2, <1>3, <1>4, NeededBeyond
<1>9. RangesMeet(r, q)
  BY <1>4, <1>5, <1>6, <1>7, <1>8 DEF RangesMeet
<1>. QED BY <1>1, <1>9 DEF Meet, r, q

(* Two values live into a block whose first instruction reads nothing.     *)
LEMMA LiveInsMeet ==
  ASSUME NEW f \in Functions, NEW sp, AllSpans(f, sp), NEW s \in Block(f),
         NEW v \in f.live_in[s], NEW w \in f.live_in[s],
         Reads(f.code[s][1]) = {}, Len(f.code[s]) > 1
  PROVE  Meet(f, sp, v, w)
<1>1. PICK first, size \in Nat : /\ first = FirstNumber(f, s) /\ size = Len(f.code[s]) /\ size > 1
                                 /\ DOMAIN f.code[s] = 1 .. size
  BY BlockFacts
<1>2. ASSUME NEW u \in f.live_in[s]
      PROVE  /\ Appears(f, u, s) /\ sp[u][s].start \in Nat /\ sp[u][s].end \in Nat
             /\ sp[u][s].start <= first /\ first + 1 <= sp[u][s].end
  <2> DEFINE r == sp[u][s]
  <2>1. Appears(f, u, s) => IsSpan(f, u, s, r)
    BY BlockValues DEF AllSpans
  <2> HIDE DEF r
  <2>2. /\ Appears(f, u, s) /\ r.start \in Nat /\ r.end \in Nat /\ r.start <= first
        /\ u \in LiveOut(f, s) => first + size - 1 <= r.end
        /\ \A n \in ReadIn(f, u, s) : first + n - 1 <= r.end
    BY <1>1, <2>1, SpanOfLiveIn
  <2>3. f.live_in[s] = Exposed(f, s) \cup (LiveOut(f, s) \ DefinedIn(f, s))
    BY AnalysedAssumption DEF AnalysedAssumption
  <2>4. CASE u \in LiveOut(f, s)
    BY <1>1, <2>2, <2>4 DEF r
  <2>5. CASE u \in Exposed(f, s)
    <3>1. PICK n \in ReadIn(f, u, s) : TRUE
      BY <2>5 DEF Exposed, ReadIn
    <3>2. n \in 1 .. size /\ n # 1
      BY <1>1, <3>1 DEF ReadIn
    <3>3. first + n - 1 <= r.end
      BY <2>2, <3>1
    <3>4. first + 1 <= r.end
      BY <1>1, <2>2, <3>2, <3>3
    <3>. QED BY <2>2, <3>4 DEF r
  <2>. QED BY <2>3, <2>4, <2>5
<1>3. RangesMeet(sp[v][s], sp[w][s])
  <2>1. /\ sp[v][s].start \in Nat /\ sp[v][s].end \in Nat
        /\ sp[v][s].start <= first /\ first + 1 <= sp[v][s].end
    BY <1>2
  <2>2. /\ sp[w][s].start \in Nat /\ sp[w][s].end \in Nat
        /\ sp[w][s].start <= first /\ first + 1 <= sp[w][s].end
    BY <1>2
  <2>. QED BY <1>1, <2>1, <2>2 DEF RangesMeet
<1>. QED BY <1>2, <1>3 DEF Meet

----------------------------------------------------------------------------
(* A value that an instruction defines and one that is held after it.      *)
LEMMA WriteMeetsHeld ==
  ASSUME NEW f \in Functions, NEW sp, AllSpans(f, sp), NEW b \in Block(f),
         NEW n \in DOMAIN f.code[b], f.code[b][n].kind # "pcopy",
         NEW v \in f.code[b][n].outs, NEW w \in HeldAfter(f, b, n), v # w,
         FeedsPhi(f, v) => n # 1, ~ FeedsPhi(f, w)
  PROVE  Meet(f, sp, v, w)
<1>1. CASE w \in f.code[b][n].outs
  BY <1>1, ResultsMeet
<1>2. CASE w \notin f.code[b][n].outs
  <2>1. PICK first, size \in Nat : /\ first = FirstNumber(f, b) /\ size = Len(f.code[b])
                                   /\ DOMAIN f.code[b] = 1 .. size /\ first # 0
    BY BlockFacts
  <2>2. n \in 1 .. size
    BY <2>1
  <2>3. \/ \E m \in 1 .. size : m < n /\ w \in f.code[b][m].outs
        \/ w \in f.live_in[b]
        \/ w \in f.args /\ b = f.order[1]
    <3>1. \/ w \in PhisOf(f, b)
          \/ \E m \in 1 .. n : w \in f.code[b][m].outs
          \/ w \in f.live_in[b]
          \/ w \in f.args /\ b = f.order[1]
      BY DEF HeldAfter
    <3>2. CASE w \in PhisOf(f, b)
      <4>1. PICK m \in DOMAIN f.code[b] : f.code[b][m].kind = "pcopy" /\ w \in f.code[b][m].outs
        BY <3>2 DEF PhisOf
      <4>2. \A i \in 1 .. m : f.code[b][i].kind = "pcopy"
        BY <4>1, ShownAssumption DEF ShownAssumption
      <4>3. n \notin 1 .. m
        BY <4>2
      <4>. QED BY <2>1, <2>2, <4>1, <4>3
    <3>3. ASSUME NEW m \in 1 .. n, w \in f.code[b][m].outs
          PROVE  m \in 1 .. size /\ m < n
      <4>1. m # n
        BY <1>2, <3>3
      <4>. QED BY <2>2, <4>1
    <3>. QED BY <3>1, <3>2, <3>3
  <2>4. \/ w \in LiveOut(f, b)
        \/ \E j \in (n + 1) .. size : w \in Reads(f.code[b][j])
    <3>1. w \notin ReadOnEdge(f, b)
      BY BlockValues
    <3>. QED BY <2>1, <3>1 DEF HeldAfter
  <2>5. v \in Vals(f) /\ w \in Vals(f)
    BY <2>1, <2>3, BlockValues
  <2> DEFINE r == sp[v][b]
             q == sp[w][b]
  <2>6. Appears(f, v, b) /\ IsSpan(f, v, b, r) /\ (Appears(f, w, b) => IsSpan(f, w, b, q))
    <3>1. v \in DefinedIn(f, b)
      BY DEF DefinedIn
    <3>. QED BY <2>5, <3>1 DEF Appears, Home, AllSpans
  <2> HIDE DEF r, q
  <2>7. r.start \in Nat /\ r.end \in Nat /\ r.start <= r.end /\ r.start = first + n - 1
    BY <2>1, <2>6, SpanOfDefined
  <2>8. n = 1 => first + 1 <= r.end
    <3>1. ASSUME n = 1 PROVE ~ FeedsPhi(f, v) /\ Needed(f, b, n, v)
      BY <3>1, ShownAssumption DEF ShownAssumption
    <3>2. ASSUME n = 1 PROVE first + n <= r.end
      BY <2>1, <2>6, <3>1, <3>2, NeededBeyond
    <3>. QED BY <3>2
  <2> DEFINE Reaches ==
               /\ Appears(f, w, b) /\ q.start \in Nat /\ q.end \in Nat
               /\ q.start < r.end
               /\ \A j \in ReadIn(f, w, b) : first + j - 1 <= q.end
               /\ w \in LiveOut(f, b) => \/ first + size <= q.end
                                         \/ first + size - 1 <= q.end
  <2>9. Reaches
    <3>1. ASSUME NEW m \in 1 .. size, m < n, w \in f.code[b][m].outs PROVE Reaches
      <4>1. Appears(f, w, b)
        <5>1. w \in DefinedIn(f, b)
          BY <2>1, <3>1 DEF DefinedIn
        <5>. QED BY <5>1 DEF Appears, Home
      <4>2. /\ q.start \in Nat /\ q.end \in Nat /\ q.start = first + m - 1
            /\ w \in LiveOut(f, b) => first + size <= q.end
            /\ \A j \in ReadIn(f, w, b) : first + j - 1 <= q.end
        BY <2>1, <2>6, <3>1, <4>1, SpanOfDefined
      <4>3. q.start < r.end
        BY <2>1, <2>2, <2>7, <3>1, <4>2
      <4>. QED BY <4>1, <4>2, <4>3
    <3>2. CASE w \in f.live_in[b]
      <4>1. /\ Appears(f, w, b) /\ q.start \in Nat /\ q.end \in Nat /\ q.start <= first
            /\ w \in LiveOut(f, b) => first + size - 1 <= q.end
            /\ \A j \in ReadIn(f, w, b) : first + j - 1 <= q.end
        BY <2>1, <2>6, <3>2, SpanOfLiveIn
      <4>2. q.start < r.end
        BY <2>1, <2>2, <2>7, <2>8, <4>1
      <4>. QED BY <3>2, <4>1, <4>2
    <3>3. CASE w \in f.args /\ b = f.order[1]
      <4>1. /\ Appears(f, w, b) /\ q.start \in Nat /\ q.end \in Nat /\ q.start = 0
            /\ w \in LiveOut(f, b) => first + size <= q.end
            /\ \A j \in ReadIn(f, w, b) : first + j - 1 <= q.end
        BY <2>1, <2>6, <3>3, SpanOfArgument
      <4>2. q.start < r.end
        BY <2>1, <2>2, <2>7, <4>1
      <4>. QED BY <4>1, <4>2
    <3>. QED BY <2>3, <3>1, <3>2, <3>3
  <2>10. ASSUME first + n <= q.end PROVE Meet(f, sp, v, w)
    <3>1. RangesMeet(r, q)
      BY <2>1, <2>2, <2>7, <2>9, <2>10 DEF RangesMeet
    <3>. QED BY <2>6, <2>9, <3>1 DEF Meet, r, q
  <2>11. ASSUME NEW j \in (n + 1) .. size, w \in Reads(f.code[b][j])
         PROVE  Meet(f, sp, v, w)
    <3>1. j \in 1 .. size /\ j > n
      BY <2>2
    <3>2. j \in ReadIn(f, w, b)
      BY <2>1, <2>11, <3>1 DEF ReadIn
    <3>3. first + j - 1 <= q.end
      BY <2>9, <3>2
    <3>4. first + n <= q.end
      BY <2>1, <2>2, <2>9, <3>1, <3>3
    <3>. QED BY <2>10, <3>4
  <2>12. CASE w \in LiveOut(f, b)
    <3>1. CASE first + size <= q.end
      BY <2>1, <2>2, <2>9, <2>10, <3>1
    <3>2. CASE first + size - 1 <= q.end /\ n # size
      BY <2>1, <2>2, <2>9, <2>10, <3>2
    <3>3. CASE n = size
      <4>1. Last(f.code[b]) = f.code[b][n]
        BY <2>1, <3>3 DEF Last
      <4>2. PICK s \in Block(f) : /\ Succs(f, b) = {s} /\ f.code[b][n].outs \subseteq f.live_in[s]
                                  /\ Reads(f.code[s][1]) = {} /\ Len(f.code[s]) > 1
        BY <4>1, ShownAssumption DEF ShownAssumption
      <4>3. LiveOut(f, b) = f.live_in[s]
        BY <4>2 DEF LiveOut
      <4>. QED BY <2>12, <4>2, <4>3, LiveInsMeet
    <3>. QED BY <2>9, <2>12, <3>1, <3>2, <3>3
  <2>. QED BY <2>4, <2>11, <2>12
<1>. QED BY <1>1, <1>2

(* Every interference that is shown is between values of the function      *)
(* whose ranges meet.                                                      *)
LEMMA InterferencesMeet ==
  ASSUME NEW f \in Functions, NEW sp, AllSpans(f, sp), NEW p \in Interferences(f), Shown(f, p)
  PROVE  p[1] \in Vals(f) /\ p[2] \in Vals(f) /\ Meet(f, sp, p[1], p[2])
<1>1. PICK b \in Block(f) : \E n \in 0 .. Len(f.code[b]) : p \in Overwrites(f, b, n)
  BY DEF Interferences
<1>0. PICK n \in 0 .. Len(f.code[b]) : p \in Overwrites(f, b, n)
  BY <1>1
<1> DEFINE v == p[1]
           w == p[2]
<1>2. v \in Writes(f, b, n) /\ w \in HeldAfter(f, b, n) \cup Writes(f, b, n) /\ v # w
  BY <1>0 DEF Overwrites
<1>3. DOMAIN f.code[b] = 1 .. Len(f.code[b]) /\ Len(f.code[b]) \in Nat
  BY BlockFacts
<1>4. ~ FeedsPhi(f, w) /\ (FeedsPhi(f, v) => DefinitionOf(f, v)[2] # 1)
  BY DEF Shown
<1> HIDE DEF v, w
<1>6. Meet(f, sp, v, w)
  <2>1. CASE n = 0
    <3>1. v \in PhisOf(f, b) /\ w \in HeldAfter(f, b, 0) \cup PhisOf(f, b)
      BY <1>2, <2>1 DEF Writes
    <3>. QED BY <1>4, <3>1, PhisMeet, PhiMeetsHeld
  <2>2. CASE n # 0
    <3>1. n \in DOMAIN f.code[b]
      BY <1>3, <2>2
    <3>2. f.code[b][n].kind # "pcopy" /\ v \in f.code[b][n].outs
      BY <1>2, <2>2 DEF Writes
    <3>3. w \in HeldAfter(f, b, n) \cup f.code[b][n].outs
      BY <1>2, <2>2 DEF Writes
    <3>4. FeedsPhi(f, v) => n # 1
      BY <1>4, <3>1, <3>2, DefinitionIs
    <3>. QED BY <1>2, <1>4, <3>1, <3>2, <3>3, <3>4, ResultsMeet, WriteMeetsHeld
  <2>. QED BY <2>1, <2>2
<1>7. \A x : \A c \in Block(f) : Appears(f, x, c) => x \in Vals(f)
  <2>1. ASSUME NEW x, NEW c \in Block(f), Home(f, x, c) PROVE x \in Vals(f)
    BY <2>1 DEF Home, Vals
  <2>2. ASSUME NEW x, NEW c \in Block(f), x \in LiveOut(f, c) PROVE x \in Vals(f)
    BY <2>2, BlockFacts DEF LiveOut
  <2>3. ASSUME NEW x, NEW c \in Block(f), ReadIn(f, x, c) # {} PROVE x \in Vals(f)
    <3>1. PICK m \in DOMAIN f.code[c] : x \in Reads(f.code[c][m])
      BY <2>3 DEF ReadIn
    <3>2. <<c, m>> \in Instructions(f) /\ Inst(f, <<c, m>>) = f.code[c][m]
      BY <3>1 DEF Instructions, Inst
    <3>3. f.code[c][m].ins \in Seq(Vals(f))
      BY <3>2, FunctionsAssumption DEF FunctionsAssumption
    <3>. QED BY <3>1, <3>3 DEF Reads, Range
  <2>. QED BY <2>1, <2>2, <2>3 DEF Appears
<1>. QED BY <1>6, <1>7 DEF Meet, v, w

(* Whatever destroys another value has an interval that meets the other's. *)
LEMMA SeenWhenEvaluated == SpansInvariant /\ IntervalsCover => InterferenceSeen
<1> SUFFICES ASSUME SpansInvariant, IntervalsCover, Evaluated,
                    NEW p \in Interferences(func), Shown(func, p)
             PROVE  Intersects(intervals[p[1]], intervals[p[2]])
  BY DEF InterferenceSeen
<1>1. AllPassed
  BY DEF SpansInvariant, Evaluated, AllPassed
<1>2. func \in Functions /\ EachSpan
  BY <1>1, SpansAtEnd
<1>3. AllSpans(func, spans)
  BY <1>2 DEF AllSpans, EachSpan
<1>4. PICK v \in Vals(func), w \in Vals(func) :
        v = p[1] /\ w = p[2] /\ Meet(func, spans, v, w)
  BY <1>2, <1>3, InterferencesMeet
<1>5. PICK b, c \in Block(func) : /\ Appears(func, v, b) /\ Appears(func, w, c)
                                  /\ RangesMeet(spans[v][b], spans[w][c])
  BY <1>4 DEF Meet
<1>6. spans[v][b] \in SpanSet(v) /\ spans[w][c] \in SpanSet(w)
  BY <1>2, <1>5 DEF EachSpan, SpanSet
<1>7. SpanSet(v) \subseteq LiveRanges /\ SpanSet(w) \subseteq LiveRanges
  BY <1>2 DEF EachSpan, SpanSet, IsSpan
<1>8. Covers(intervals[v].ranges, SpanSet(v)) /\ Covers(intervals[w].ranges, SpanSet(w))
  BY <1>4 DEF IntervalsCover
<1>9. Intersects(intervals[v], intervals[w])
  BY <1>5, <1>6, <1>7, <1>8, CoversMeet
<1>. QED BY <1>4, <1>9

(* Where writing one value would destroy another (but for the copies Shown *)
(* names), LiveInterval's intersects() says so, although a range through a *)
(* block stops one number short of the next block, and whatever            *)
(* canonicalize() merges.                                                  *)
THEOREM AlwaysSeesInterference == IntervalsSpec => []InterferenceSeen
<1>. QED BY SeenWhenEvaluated, RangesAsEvaluated, CoverAlways, PTL
=============================================================================
