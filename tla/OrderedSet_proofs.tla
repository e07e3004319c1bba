--------------------------- MODULE OrderedSet_proofs ---------------------------
(***************************************************************************)
(* last() is the last element as long as nothing has been removed, for     *)
(* every number of elements and every order of insertions.  Until then no  *)
(* slot is free, so that indices are given out in order (Inv), and each    *)
(* slot names an element of the list (Open), so that what is inserted      *)
(* comes before another element and leaves the last one where it is.       *)
(*                                                                         *)
(* Every operation leaves its element where it says, whatever was removed  *)
(* before: position() is the position of an index in the list, and each    *)
(* statement of an insertion, like each step of a copy, adds one element   *)
(* at one position (Arranged).                                             *)
(***************************************************************************)
EXTENDS OrderedSet, SequenceTheorems, TLAPS

Element == Nat \ {0}

Sets == [holder : Seq(Element), slots : Seq(Element), free : {<<>>}]

(* A set of the elements 1 .. n from which none was removed.               *)
Open(s, n) ==
    /\ s \in Sets
    /\ Len(s.holder) = n /\ Len(s.slots) = n
    /\ \A j \in 1 .. n : s.slots[j] \in 1 .. n /\ \E k \in 1 .. n : s.holder[k] = s.slots[j]
    /\ \A k \in 1 .. n : s.holder[k] \in 1 .. n
    /\ n > 0 => s.slots[n] = s.holder[n]

Inv ==
    /\ id \in Seq(Nat)
    /\ moved \in Int
    /\ use = "instructions" => moved = 0
    /\ moved <= 0 => /\ Open(set, Len(id))
                     /\ \A n \in 1 .. Len(id) : id[n] = n - 1

(* A list with all elements of another and one more.                       *)
OneMore(t, s, e) ==
    /\ t \in Seq(Element)
    /\ Len(t) = Len(s) + 1
    /\ \A j \in 1 .. Len(t) : t[j] = e \/ \E i \in 1 .. Len(s) : t[j] = s[i]
    /\ \A i \in 1 .. Len(s) : \E j \in 1 .. Len(t) : t[j] = s[i]

LEMMA AppendedOne ==
  ASSUME NEW s \in Seq(Element), NEW e \in Element
  PROVE  OneMore(Append(s, e), s, e)
<1> DEFINE t == Append(s, e)
<1>1. /\ t \in Seq(Element) /\ Len(t) = Len(s) + 1
      /\ \A j \in 1 .. Len(s) : t[j] = s[j]
      /\ t[Len(s) + 1] = e
  OBVIOUS
<1> HIDE DEF t
<1>2. ASSUME NEW j \in 1 .. Len(t)
      PROVE  t[j] = e \/ \E i \in 1 .. Len(s) : t[j] = s[i]
  BY <1>1
<1>3. ASSUME NEW i \in 1 .. Len(s)
      PROVE  \E j \in 1 .. Len(t) : t[j] = s[i]
  BY <1>1
<1>4. OneMore(t, s, e)
  BY <1>1, <1>2, <1>3 DEF OneMore
<1>. QED BY <1>4 DEF t

(* What is inserted takes the place of an element and moves the rest.      *)
LEMMA InsertFacts ==
  ASSUME NEW s \in Seq(Element), NEW k \in 1 .. Len(s), NEW e \in Element
  PROVE  LET t == InsertAt(s, k, e) IN
         /\ t \in Seq(Element) /\ Len(t) = Len(s) + 1
         /\ \A j \in 1 .. Len(s) + 1 :
              t[j] = IF j < k THEN s[j] ELSE IF j = k THEN e ELSE s[j - 1]
<1> DEFINE a == SubSeq(s, 1, k - 1)
           b == a \o <<e>>
           c == SubSeq(s, k, Len(s))
           t == InsertAt(s, k, e)
<1>1. /\ a \in Seq(Element) /\ Len(a) = k - 1
      /\ \A j \in 1 .. k - 1 : a[j] = s[j]
  OBVIOUS
<1>2. /\ c \in Seq(Element) /\ Len(c) = Len(s) - k + 1
      /\ \A j \in 1 .. Len(s) - k + 1 : c[j] = s[j + k - 1]
  OBVIOUS
<1>3. t = b \o c
  BY DEF InsertAt
<1> HIDE DEF a, c, t
<1>4. /\ b \in Seq(Element) /\ Len(b) = k
      /\ \A j \in 1 .. k : b[j] = IF j < k THEN s[j] ELSE e
  BY <1>1
<1> HIDE DEF b
<1>5. /\ t \in Seq(Element) /\ Len(t) = Len(s) + 1
      /\ \A j \in 1 .. Len(s) + 1 :
           t[j] = IF j < k THEN s[j] ELSE IF j = k THEN e ELSE s[j - 1]
  <2>1. /\ t \in Seq(Element) /\ Len(t) = Len(b) + Len(c)
        /\ \A j \in 1 .. Len(b) + Len(c) : t[j] = IF j <= Len(b) THEN b[j] ELSE c[j - Len(b)]
    BY <1>2, <1>3, <1>4, ConcatProperties
  <2>2. Len(s) \in Nat /\ Len(b) = k /\ Len(c) = Len(s) - k + 1
    BY <1>2, <1>4
  <2>3. ASSUME NEW j \in 1 .. Len(s) + 1
        PROVE  t[j] = IF j < k THEN s[j] ELSE IF j = k THEN e ELSE s[j - 1]
    <3>1. CASE j <= k
      BY <1>4, <2>1, <2>2, <3>1
    <3>2. CASE j > k
      <4>1. t[j] = c[j - k]
        BY <2>1, <2>2, <3>2
      <4>2. j - k \in 1 .. Len(s) - k + 1 /\ (j - k) + k - 1 = j - 1
        BY <3>2
      <4>3. c[j - k] = s[(j - k) + k - 1]
        BY <1>2, <4>2
      <4>. QED BY <3>2, <4>1, <4>2, <4>3
    <3>. QED BY <3>1, <3>2
  <2>. QED BY <2>1, <2>2, <2>3
<1>. QED BY <1>5 DEF t

(* Inserting before an element leaves the last one.                        *)
LEMMA InsertedBefore ==
  ASSUME NEW s \in Seq(Element), NEW k \in 1 .. Len(s), NEW e \in Element
  PROVE  /\ OneMore(InsertAt(s, k, e), s, e)
         /\ InsertAt(s, k, e)[Len(s) + 1] = s[Len(s)]
<1> DEFINE t == InsertAt(s, k, e)
<1>5. /\ t \in Seq(Element) /\ Len(t) = Len(s) + 1
      /\ \A j \in 1 .. Len(s) + 1 :
           t[j] = IF j < k THEN s[j] ELSE IF j = k THEN e ELSE s[j - 1]
  BY InsertFacts
<1> HIDE DEF t
<1>6. ASSUME NEW j \in 1 .. Len(t)
      PROVE  t[j] = e \/ \E i \in 1 .. Len(s) : t[j] = s[i]
  BY <1>5
<1>7. ASSUME NEW i \in 1 .. Len(s)
      PROVE  \E j \in 1 .. Len(t) : t[j] = s[i]
  <2>1. CASE i < k
    BY <1>5, <2>1
  <2>2. CASE i >= k
    <3>1. i + 1 \in 1 .. Len(t) /\ t[i + 1] = s[i]
      BY <1>5, <2>2
    <3>. QED BY <3>1
  <2>. QED BY <2>1, <2>2
<1>8. OneMore(t, s, e) /\ t[Len(s) + 1] = s[Len(s)]
  BY <1>5, <1>6, <1>7 DEF OneMore
<1>. QED BY <1>8 DEF t

(* The list with one more element gets one more slot, of the last element. *)
LEMMA Extended ==
  ASSUME NEW s, NEW n \in Nat, Open(s, n),
         NEW holder, OneMore(holder, s.holder, n + 1)
  PROVE  /\ Open(Placed(s, holder, n + 1), n + 1)
         /\ Index(s) = n
<1> DEFINE t == [holder |-> holder, free |-> <<>>, slots |-> Append(s.slots, holder[n + 1])]
<1>1. s \in Sets /\ Len(s.holder) = n /\ Len(s.slots) = n
  BY DEF Open
<1>2. holder \in Seq(Element) /\ Len(holder) = n + 1 /\ holder[n + 1] \in Element
  BY <1>1 DEF OneMore
<1>3. Placed(s, holder, n + 1) = t /\ Index(s) = n
  BY <1>1, <1>2 DEF Placed, Recorded, Last, FreeIndex, Index, Sets
<1>4. /\ t.slots \in Seq(Element) /\ Len(t.slots) = n + 1
      /\ \A j \in 1 .. n : t.slots[j] = s.slots[j]
      /\ t.slots[n + 1] = holder[n + 1]
  BY <1>1, <1>2 DEF Sets
<1>5. t \in Sets /\ t.holder = holder
  BY <1>2, <1>4 DEF Sets
<1> HIDE DEF t
<1>6. \A k \in 1 .. n + 1 : holder[k] \in 1 .. n + 1
  <2>1. SUFFICES ASSUME NEW k \in 1 .. n + 1 PROVE holder[k] \in 1 .. n + 1
    OBVIOUS
  <2>2. holder[k] = n + 1 \/ \E i \in 1 .. n : holder[k] = s.holder[i]
    BY <1>1, <1>2 DEF OneMore
  <2>3. \A i \in 1 .. n : s.holder[i] \in 1 .. n
    BY DEF Open
  <2>. QED BY <2>2, <2>3
<1>7. \A j \in 1 .. n + 1 : /\ t.slots[j] \in 1 .. n + 1
                            /\ \E k \in 1 .. n + 1 : holder[k] = t.slots[j]
  <2>1. ASSUME NEW j \in 1 .. n
        PROVE  /\ t.slots[j] \in 1 .. n + 1
               /\ \E k \in 1 .. n + 1 : holder[k] = t.slots[j]
    <3>1. t.slots[j] = s.slots[j] /\ s.slots[j] \in 1 .. n
      BY <1>4 DEF Open
    <3>2. PICK i \in 1 .. n : s.holder[i] = s.slots[j]
      BY DEF Open
    <3>3. \E k \in 1 .. n + 1 : holder[k] = s.holder[i]
      BY <1>1, <1>2 DEF OneMore
    <3>4. \A m \in 1 .. n : m \in 1 .. n + 1
      OBVIOUS
    <3>5. s.slots[j] \in 1 .. n + 1
      BY <3>1, <3>4
    <3>. QED BY <3>1, <3>2, <3>3, <3>5
  <2>2. t.slots[n + 1] \in 1 .. n + 1 /\ \E k \in 1 .. n + 1 : holder[k] = t.slots[n + 1]
    BY <1>4, <1>6
  <2>3. \A j \in 1 .. n + 1 : j \in 1 .. n \/ j = n + 1
    OBVIOUS
  <2>. QED BY <2>1, <2>2, <2>3
<1>8. Open(t, n + 1)
  BY <1>2, <1>4, <1>5, <1>6, <1>7 DEF Open
<1>. QED BY <1>3, <1>8

LEMMA Initially == Init => Inv
BY DEF Init, Inv, Open, Sets

(* One more element and its index.                                         *)
LEMMA Grown ==
  ASSUME Inv, moved = 0,
         NEW holder, OneMore(holder, set.holder, New),
         set' = Placed(set, holder, New), id' = Append(id, Index(set)),
         UNCHANGED <<use, moved>>
  PROVE  Inv'
<1>1. id \in Seq(Nat) /\ Open(set, Len(id)) /\ \A n \in 1 .. Len(id) : id[n] = n - 1
  BY DEF Inv
<1>2. Open(set', Len(id) + 1) /\ Index(set) = Len(id)
  BY <1>1, Extended DEF New
<1>3. /\ id' \in Seq(Nat) /\ Len(id') = Len(id) + 1
      /\ \A n \in 1 .. Len(id) + 1 : id'[n] = n - 1
  BY <1>1, <1>2
<1>. QED BY <1>2, <1>3 DEF Inv

LEMMA Preserved == Inv /\ [Next]_vars => Inv'
<1> SUFFICES ASSUME Inv, [Next]_vars PROVE Inv'
  OBVIOUS
<1>1. CASE Ins
  <2>1. moved = 0 /\ set.holder \in Seq(Element) /\ New \in Element
    BY <1>1 DEF Ins, Inv, Open, Sets, New, Element
  <2>2. OneMore(Append(set.holder, New), set.holder, New)
    BY <2>1, AppendedOne
  <2>. QED BY <1>1, <2>1, <2>2, Grown DEF Ins, PushBack
<1>2. CASE InsBeforeLast
  <2> DEFINE n == Len(id)
             it == set.slots[Back(set)]
             holder == InsertAt(set.holder, Position(set, it), New)
  <2>1. /\ moved = 0 /\ Open(set, n) /\ n \in Nat /\ n > 0
        /\ \A m \in 1 .. n : id[m] = m - 1
    BY <1>2 DEF InsBeforeLast, Inv
  <2>2. Back(set) = set.slots[n] /\ Back(set) \in 1 .. n
    BY <2>1 DEF Open, Back, Last
  <2>3. SlotOf(set, id[Back(set)]) = it
    BY <2>1, <2>2 DEF SlotOf
  <2>4. it \in 1 .. n /\ \E k \in 1 .. n : set.holder[k] = it
    BY <2>1, <2>2 DEF Open
  <2>5. set.holder \in Seq(Element) /\ Len(set.holder) = n /\ New \in Element
    BY <2>1 DEF Open, Sets, New, Element
  <2>6. Position(set, it) \in 1 .. Len(set.holder)
    BY <2>4, <2>5 DEF Position
  <2>7. OneMore(holder, set.holder, New)
    BY <2>5, <2>6, InsertedBefore
  <2>8. set' = Placed(set, holder, New) /\ UNCHANGED <<use, moved>> /\ id' = Append(id, Index(set))
    BY <1>2, <2>3, <2>4 DEF InsBeforeLast, InsertBefore, End
  <2>. QED BY <2>1, <2>7, <2>8, Grown
<1>3. CASE Build
  <2>1. moved = 0 /\ UNCHANGED <<use, id>> /\ use = "blocks"
    BY <1>3 DEF Build
  <2>2. CASE moved' = -1 /\ UNCHANGED set
    BY <2>1, <2>2 DEF Inv
  <2>3. CASE \E k \in ToMove : moved' = set.holder[k]
    <3>1. moved' \in Element
      BY <2>1, <2>3 DEF ToMove, Inv, Open, Sets
    <3>. QED BY <2>1, <3>1 DEF Inv, Element
  <2>. QED BY <1>3, <2>2, <2>3 DEF Build
<1>4. CASE UNCHANGED vars
  BY <1>4 DEF vars, Inv
<1>. QED BY <1>1, <1>2, <1>3, <1>4 DEF Next

(* last() is the last of the list until a block is moved.                  *)
THEOREM LastIsFound == Spec => []BackIsLast
<1>1. Inv => BackIsLast
  <2> SUFFICES ASSUME Inv, set.holder # <<>>, moved <= 0
               PROVE  Back(set) = Last(set.holder)
    BY DEF BackIsLast
  <2>1. Open(set, Len(id)) /\ Len(id) \in Nat
    BY DEF Inv
  <2>2. Len(id) > 0
    BY <2>1 DEF Open, Sets
  <2>. QED BY <2>1, <2>2 DEF Open, Back, Last
<1>. QED BY Initially, Preserved, <1>1, PTL DEF Spec

----------------------------------------------------------------------------
(* Where the elements are until one is moved: the list has each once, what *)
(* is appended is in order and has a slot of its own, and after a copy     *)
(* come later copies for the same instruction, then the instruction.       *)
Follow(h, of, i, j) ==
    /\ h[j] = of[h[i]]
    /\ \A k \in i + 1 .. j - 1 :
          h[k] \in DOMAIN of /\ of[h[k]] = of[h[i]] /\ h[k] > h[i]

InOrderOf(h, slots, of, n) ==
    /\ \A i, j \in 1 .. n : h[i] = h[j] => i = j
    /\ \A e \in 1 .. n : \E i \in 1 .. n : h[i] = e
    /\ DOMAIN of \subseteq 1 .. n
    /\ n > 0 => h[n] \notin DOMAIN of
    /\ \A e \in 1 .. n : e \in DOMAIN of \/ slots[e] = e
    /\ \A i, j \in 1 .. n :
          i < j => h[i] \in DOMAIN of \/ h[j] \in DOMAIN of \/ h[i] < h[j]
    /\ \A i \in 1 .. n :
          h[i] \in DOMAIN of => \E j \in i + 1 .. n : Follow(h, of, i, j)

Arranged ==
    /\ InOrderOf(set.holder, set.slots, base, Len(id))
    /\ use = "blocks" =>
          DOMAIN base = {} /\ \A i \in 1 .. Len(id) : set.holder[i] = i

PlacesInv == IF moved <= 0 THEN Arranged ELSE InPlace

LEMMA PlacesAtFirst == Init => PlacesInv
<1> SUFFICES ASSUME Init PROVE PlacesInv
  OBVIOUS
<1>1. moved = 0 /\ id = <<>> /\ DOMAIN base = {} /\ Len(id) = 0
  BY DEF Init
<1>. QED BY <1>1 DEF PlacesInv, Arranged, InOrderOf

(* The list and the slots with one more element.                           *)
LEMMA PlacedOne ==
  ASSUME NEW s, NEW n \in Nat, Open(s, n),
         NEW holder \in Seq(Element), Len(holder) = n + 1
  PROVE  LET t == Placed(s, holder, n + 1) IN
         /\ t.holder = holder
         /\ \A j \in 1 .. n : t.slots[j] = s.slots[j]
         /\ t.slots[n + 1] = holder[n + 1]
<1>1. s \in Sets /\ Len(s.holder) = n /\ Len(s.slots) = n
  BY DEF Open
<1>2. Placed(s, holder, n + 1) =
        [holder |-> holder, free |-> <<>>, slots |-> Append(s.slots, holder[n + 1])]
  BY <1>1 DEF Placed, Recorded, Last, FreeIndex, Sets
<1>. QED BY <1>1, <1>2 DEF Sets

(* An element that is appended comes last and has a slot.                  *)
LEMMA ArrangedByIns ==
  ASSUME Inv, PlacesInv, Ins
  PROVE  PlacesInv'
<1> DEFINE h == set.holder
           n == Len(id)
           t == Append(h, New)
<1>1. /\ moved = 0 /\ moved' = 0 /\ base' = base /\ use' = use
      /\ set' = Placed(set, t, n + 1) /\ id' = Append(id, Index(set))
      /\ New = n + 1
  BY DEF Ins, PushBack, New
<1>2. Open(set, n) /\ n \in Nat /\ Arranged /\ id \in Seq(Nat)
  BY <1>1 DEF Inv, PlacesInv
<1>3. h \in Seq(Element) /\ Len(h) = n
  BY <1>2 DEF Open, Sets
<1>4. Len(id') = n + 1
  BY <1>1, <1>2
<1>5. /\ t \in Seq(Element) /\ Len(t) = n + 1 /\ t[n + 1] = n + 1
      /\ \A j \in 1 .. n : t[j] = h[j]
  BY <1>1, <1>2, <1>3 DEF Element
<1>6. /\ set'.holder = t /\ set'.slots[n + 1] = n + 1
      /\ \A j \in 1 .. n : set'.slots[j] = set.slots[j]
  BY <1>1, <1>2, <1>5, PlacedOne
<1>7. \A j \in 1 .. n : h[j] \in 1 .. n
  BY <1>2 DEF Open
<1>8. DOMAIN base \subseteq 1 .. n
  BY <1>2 DEF Arranged, InOrderOf
<1> HIDE DEF h, n, t
<1>9. n + 1 \notin DOMAIN base
  BY <1>2, <1>8
<1>10. ASSUME NEW i \in 1 .. n + 1, NEW j \in 1 .. n + 1, t[i] = t[j]
       PROVE  i = j
  <2>1. \A a, b \in 1 .. n : h[a] = h[b] => a = b
    BY <1>2 DEF Arranged, InOrderOf, h, n
  <2>. QED BY <1>2, <1>5, <1>7, <1>10, <2>1
<1>11. ASSUME NEW e \in 1 .. n + 1 PROVE \E i \in 1 .. n + 1 : t[i] = e
  <2>1. CASE e = n + 1
    BY <1>2, <1>5, <2>1
  <2>2. CASE e # n + 1
    <3>1. e \in 1 .. n
      BY <1>2, <2>2
    <3>2. PICK i \in 1 .. n : h[i] = e
      BY <1>2, <3>1 DEF Arranged, InOrderOf, h, n
    <3>. QED BY <1>2, <1>5, <3>2
  <2>. QED BY <2>1, <2>2
<1>12. ASSUME NEW e \in 1 .. n + 1 PROVE e \in DOMAIN base \/ set'.slots[e] = e
  <2>1. \A d \in 1 .. n : d \in DOMAIN base \/ set.slots[d] = d
    BY <1>2 DEF Arranged, InOrderOf, n
  <2>. QED BY <1>2, <1>6, <2>1
<1>13. ASSUME NEW i \in 1 .. n + 1, NEW j \in 1 .. n + 1, i < j
       PROVE  t[i] \in DOMAIN base \/ t[j] \in DOMAIN base \/ t[i] < t[j]
  <2>1. i \in 1 .. n /\ t[i] = h[i] /\ h[i] \in 1 .. n
    BY <1>2, <1>5, <1>7, <1>13
  <2>2. CASE j = n + 1
    BY <1>2, <1>5, <2>1, <2>2
  <2>3. CASE j # n + 1
    <3>1. j \in 1 .. n /\ t[j] = h[j]
      BY <1>2, <1>5, <2>3
    <3>2. h[i] \in DOMAIN base \/ h[j] \in DOMAIN base \/ h[i] < h[j]
      BY <1>2, <1>13, <2>1, <3>1 DEF Arranged, InOrderOf, h, n
    <3>. QED BY <2>1, <3>1, <3>2
  <2>. QED BY <2>2, <2>3
<1>14. ASSUME NEW i \in 1 .. n + 1, t[i] \in DOMAIN base
       PROVE  \E j \in i + 1 .. n + 1 : Follow(t, base, i, j)
  <2>1. i \in 1 .. n /\ t[i] = h[i]
    BY <1>2, <1>5, <1>9, <1>14
  <2>2. PICK j \in i + 1 .. n : Follow(h, base, i, j)
    BY <1>2, <1>14, <2>1 DEF Arranged, InOrderOf, h, n
  <2>3. j \in i + 1 .. n + 1 /\ \A k \in i + 1 .. j : k \in 1 .. n
    BY <1>2, <2>1, <2>2
  <2>4. Follow(t, base, i, j)
    <3>1. t[j] = h[j]
      BY <1>5, <2>1, <2>2, <2>3
    <3>2. \A k \in i + 1 .. j - 1 : k \in 1 .. n /\ t[k] = h[k]
      BY <1>5, <2>1, <2>2, <2>3
    <3>. QED BY <2>1, <2>2, <3>1, <3>2 DEF Follow
  <2>. QED BY <2>3, <2>4
<1>15. use = "blocks" => DOMAIN base = {} /\ \A i \in 1 .. n + 1 : t[i] = i
  <2>1. use = "blocks" => DOMAIN base = {} /\ \A i \in 1 .. n : h[i] = i
    BY <1>2 DEF Arranged, InOrderOf, h, n
  <2>. QED BY <1>2, <1>5, <2>1
<1>16. DOMAIN base \subseteq 1 .. n + 1
  BY <1>2, <1>8
<1>17. InOrderOf(t, set'.slots, base, n + 1)
  BY <1>2, <1>5, <1>9, <1>10, <1>11, <1>12, <1>13, <1>14, <1>16 DEF InOrderOf
<1>18. Arranged'
  BY <1>1, <1>4, <1>6, <1>15, <1>17 DEF Arranged
<1>. QED BY <1>1, <1>18 DEF PlacesInv

(* Where an element is in the list.                                        *)
LEMMA PositionIs ==
  ASSUME NEW s, NEW n, NEW of, InOrderOf(s.holder, s.slots, of, n), NEW i \in 1 .. n,
         DOMAIN s.holder = 1 .. n
  PROVE  Position(s, s.holder[i]) = i
BY DEF InOrderOf, Position

(* A copy is put right before the last element.                            *)
LEMMA ArrangedByCopy ==
  ASSUME Inv, PlacesInv, InsBeforeLast
  PROVE  PlacesInv'
<1> DEFINE h == set.holder
           n == Len(id)
           l == Back(set)
           t == InsertAt(h, n, New)
<1>1. /\ moved = 0 /\ moved' = 0 /\ use = "instructions" /\ use' = use
      /\ base' = [e \in DOMAIN base \cup {New} |-> IF e = New THEN l ELSE base[e]]
      /\ id # <<>> /\ id' = Append(id, Index(set)) /\ New = n + 1
  BY DEF InsBeforeLast, Inv, New
<1>2. Open(set, n) /\ n \in Nat /\ n > 0 /\ Arranged /\ id \in Seq(Nat)
      /\ \A m \in 1 .. n : id[m] = m - 1
  BY <1>1 DEF Inv, PlacesInv
<1>3. h \in Seq(Element) /\ Len(h) = n /\ DOMAIN h = 1 .. n /\ n \in 1 .. Len(h)
  BY <1>2 DEF Open, Sets
<1>4. l = h[n] /\ l \in 1 .. n
  BY <1>2 DEF Open, Back, Last
<1>13. InOrderOf(h, set.slots, base, n)
  BY <1>2 DEF Arranged
<1>12. \A j \in 1 .. n : h[j] \in 1 .. n
  BY <1>2 DEF Open
<1>9. Len(id') = n + 1
  BY <1>1, <1>2
<1> HIDE DEF h, n, l, t
<1>5. l \notin DOMAIN base /\ set.slots[l] = l
  BY <1>2, <1>4, <1>13 DEF InOrderOf
<1>6. SlotOf(set, id[l]) = l /\ l # End
  BY <1>2, <1>4, <1>5 DEF SlotOf, End
<1>7. Position(set, l) = n
  BY <1>3, <1>4, <1>13, PositionIs DEF h
<1>8. set' = Placed(set, t, n + 1)
  <2>1. set' = InsertBefore(set, id[l], New)
    BY DEF InsBeforeLast, l
  <2>. QED BY <1>1, <1>6, <1>7, <2>1 DEF InsertBefore, t, h
<1>10. /\ t \in Seq(Element) /\ Len(t) = n + 1
       /\ \A j \in 1 .. n + 1 : t[j] = IF j < n THEN h[j] ELSE IF j = n THEN n + 1 ELSE h[j - 1]
  <2>1. n + 1 \in Element /\ t = InsertAt(h, n, n + 1)
    BY <1>1, <1>2 DEF Element, t
  <2>2. /\ t \in Seq(Element) /\ Len(t) = Len(h) + 1
        /\ \A j \in 1 .. Len(h) + 1 :
             t[j] = IF j < n THEN h[j] ELSE IF j = n THEN n + 1 ELSE h[j - 1]
    <3>1. LET u == InsertAt(h, n, n + 1) IN
          /\ u \in Seq(Element) /\ Len(u) = Len(h) + 1
          /\ \A j \in 1 .. Len(h) + 1 :
               u[j] = IF j < n THEN h[j] ELSE IF j = n THEN n + 1 ELSE h[j - 1]
      BY <1>3, <2>1, InsertFacts
    <3>. QED BY <2>1, <3>1
  <2>. QED BY <1>3, <2>2
<1>11. /\ set'.holder = t
       /\ \A j \in 1 .. n : set'.slots[j] = set.slots[j]
  BY <1>2, <1>8, <1>10, PlacedOne
<1>14. /\ t[n + 1] = l /\ t[n] = n + 1
       /\ \A j \in 1 .. n - 1 : j \in 1 .. n /\ t[j] = h[j]
  BY <1>2, <1>4, <1>10
<1>15. /\ DOMAIN base' = DOMAIN base \cup {n + 1} /\ base'[n + 1] = l
       /\ \A e \in DOMAIN base : e \in 1 .. n /\ base'[e] = base[e]
  <2>1. DOMAIN base \subseteq 1 .. n
    BY <1>13 DEF InOrderOf
  <2>. QED BY <1>1, <1>2, <2>1
<1>16. \A j \in 1 .. n + 1 : j \in 1 .. n - 1 \/ j = n \/ j = n + 1
  BY <1>2
<1>17. ASSUME NEW i \in 1 .. n + 1, NEW j \in 1 .. n + 1, t[i] = t[j]
       PROVE  i = j
  <2>1. \A a, b \in 1 .. n : h[a] = h[b] => a = b
    BY <1>13 DEF InOrderOf
  <2>2. \A a \in 1 .. n - 1 : h[a] # l /\ h[a] # n + 1
    BY <1>2, <1>4, <1>12, <2>1
  <2>3. l # n + 1
    BY <1>2, <1>4
  <2>. QED BY <1>2, <1>14, <1>16, <1>17, <2>1, <2>2, <2>3
<1>18. ASSUME NEW e \in 1 .. n + 1 PROVE \E i \in 1 .. n + 1 : t[i] = e
  <2>1. CASE e = n + 1
    BY <1>2, <1>14, <2>1
  <2>2. CASE e # n + 1
    <3>1. e \in 1 .. n
      BY <1>2, <2>2
    <3>2. PICK i \in 1 .. n : h[i] = e
      BY <1>13, <3>1 DEF InOrderOf
    <3>3. CASE i = n
      BY <1>2, <1>4, <1>14, <3>2, <3>3
    <3>4. CASE i # n
      <4>1. i \in 1 .. n - 1 /\ i \in 1 .. n + 1
        BY <1>2, <3>4
      <4>. QED BY <1>14, <3>2, <4>1
    <3>. QED BY <3>3, <3>4
  <2>. QED BY <2>1, <2>2
<1>19. ASSUME NEW e \in 1 .. n + 1 PROVE e \in DOMAIN base' \/ set'.slots[e] = e
  <2>1. \A d \in 1 .. n : d \in DOMAIN base \/ set.slots[d] = d
    BY <1>13 DEF InOrderOf
  <2>2. CASE e = n + 1
    BY <1>15, <2>2
  <2>3. CASE e # n + 1
    <3>1. e \in 1 .. n
      BY <1>2, <2>3
    <3>. QED BY <1>11, <1>15, <2>1, <3>1
  <2>. QED BY <2>2, <2>3
<1>20. ASSUME NEW i \in 1 .. n + 1, NEW j \in 1 .. n + 1, i < j
       PROVE  t[i] \in DOMAIN base' \/ t[j] \in DOMAIN base' \/ t[i] < t[j]
  <2>1. CASE i = n \/ j = n
    BY <1>14, <1>15, <2>1
  <2>2. CASE i # n /\ j # n
    <3>1. i \in 1 .. n - 1 /\ t[i] = h[i]
      BY <1>2, <1>14, <1>16, <1>20, <2>2
    <3>2. PICK b \in 1 .. n : i < b /\ t[j] = h[b]
      BY <1>2, <1>4, <1>14, <1>16, <1>20, <2>2, <3>1
    <3>3. h[i] \in DOMAIN base \/ h[b] \in DOMAIN base \/ h[i] < h[b]
      BY <1>13, <1>14, <3>1, <3>2 DEF InOrderOf
    <3>. QED BY <1>15, <3>1, <3>2, <3>3
  <2>. QED BY <2>1, <2>2
<1>21. ASSUME NEW i \in 1 .. n + 1, t[i] \in DOMAIN base'
       PROVE  \E j \in i + 1 .. n + 1 : Follow(t, base', i, j)
  <2>1. CASE i = n
    <3>1. Follow(t, base', i, n + 1)
      BY <1>2, <1>14, <1>15, <2>1 DEF Follow
    <3>. QED BY <1>2, <2>1, <3>1
  <2>2. CASE i # n
    <3>1. i # n + 1
      <4>1. l # n + 1
        BY <1>2, <1>4
      <4>. QED BY <1>5, <1>14, <1>15, <1>21, <4>1
    <3>2. i \in 1 .. n - 1 /\ i \in 1 .. n /\ t[i] = h[i]
      BY <1>14, <1>16, <2>2, <3>1
    <3>3. h[i] # n + 1 /\ h[i] \in DOMAIN base
      BY <1>2, <1>12, <1>15, <1>21, <3>2
    <3>4. PICK j \in i + 1 .. n : Follow(h, base, i, j)
      BY <1>13, <3>2, <3>3 DEF InOrderOf
    <3>5. base'[t[i]] = base[h[i]]
      BY <1>15, <3>2, <3>3
    <3>6. ASSUME NEW k \in i + 1 .. j - 1
          PROVE  t[k] \in DOMAIN base' /\ base'[t[k]] = base'[t[i]] /\ t[k] > t[i]
      <4>1. k \in 1 .. n - 1
        BY <1>2, <3>2, <3>4
      <4>2. h[k] \in DOMAIN base /\ base[h[k]] = base[h[i]] /\ h[k] > h[i]
        BY <3>4 DEF Follow
      <4>. QED BY <1>14, <1>15, <3>2, <3>5, <4>1, <4>2
    <3>7. CASE j # n
      <4>1. j \in 1 .. n - 1 /\ j \in i + 1 .. n + 1
        BY <1>2, <3>2, <3>4, <3>7
      <4>2. t[j] = base'[t[i]]
        BY <1>14, <3>4, <3>5, <4>1 DEF Follow
      <4>. QED BY <3>6, <4>1, <4>2 DEF Follow
    <3>8. CASE j = n
      <4>1. t[n + 1] = base'[t[i]]
        BY <1>4, <1>14, <3>4, <3>5, <3>8 DEF Follow
      <4>2. ASSUME NEW k \in i + 1 .. (n + 1) - 1
            PROVE  t[k] \in DOMAIN base' /\ base'[t[k]] = base'[t[i]] /\ t[k] > t[i]
        <5>1. CASE k = n
          <6>1. base[h[i]] = l
            BY <1>4, <3>4, <3>8 DEF Follow
          <6>2. n + 1 > h[i]
            BY <1>2, <1>12, <3>2
          <6>. QED BY <1>14, <1>15, <3>2, <3>5, <5>1, <6>1, <6>2
        <5>2. CASE k # n
          <6>1. k \in i + 1 .. j - 1
            BY <1>2, <3>2, <3>8, <5>2
          <6>. QED BY <3>6, <6>1
        <5>. QED BY <5>1, <5>2
      <4>3. Follow(t, base', i, n + 1)
        BY <4>1, <4>2 DEF Follow
      <4>4. n + 1 \in i + 1 .. n + 1
        BY <1>2, <3>2
      <4>. QED BY <4>3, <4>4
    <3>. QED BY <3>7, <3>8
  <2>. QED BY <2>1, <2>2
<1>22. t[n + 1] \notin DOMAIN base' /\ DOMAIN base' \subseteq 1 .. n + 1
  BY <1>2, <1>4, <1>5, <1>14, <1>15
<1>23. InOrderOf(t, set'.slots, base', n + 1)
  BY <1>17, <1>18, <1>19, <1>20, <1>21, <1>22 DEF InOrderOf
<1>24. Arranged'
  BY <1>1, <1>9, <1>11, <1>23 DEF Arranged
<1>. QED BY <1>1, <1>24 DEF PlacesInv

(* The list without one element.                                           *)
LEMMA RemoveFacts ==
  ASSUME NEW s \in Seq(Element), NEW k \in 1 .. Len(s)
  PROVE  LET t == RemoveAt(s, k) IN
         /\ t \in Seq(Element) /\ Len(t) = Len(s) - 1
         /\ \A j \in 1 .. Len(s) - 1 : t[j] = IF j < k THEN s[j] ELSE s[j + 1]
<1> DEFINE a == SubSeq(s, 1, k - 1)
           c == SubSeq(s, k + 1, Len(s))
           t == RemoveAt(s, k)
<1>1. /\ a \in Seq(Element) /\ Len(a) = k - 1
      /\ \A j \in 1 .. k - 1 : a[j] = s[j]
  OBVIOUS
<1>2. /\ c \in Seq(Element) /\ Len(c) = Len(s) - k
      /\ \A j \in 1 .. Len(s) - k : c[j] = s[j + k]
  OBVIOUS
<1>3. t = a \o c
  BY DEF RemoveAt
<1> HIDE DEF a, c, t
<1>4. /\ t \in Seq(Element) /\ Len(t) = Len(a) + Len(c)
      /\ \A j \in 1 .. Len(a) + Len(c) : t[j] = IF j <= Len(a) THEN a[j] ELSE c[j - Len(a)]
  BY <1>1, <1>2, <1>3, ConcatProperties
<1>5. Len(s) \in Nat /\ Len(a) = k - 1 /\ Len(c) = Len(s) - k
  BY <1>1, <1>2
<1>6. ASSUME NEW j \in 1 .. Len(s) - 1 PROVE t[j] = IF j < k THEN s[j] ELSE s[j + 1]
  <2>1. CASE j < k
    <3>1. j \in 1 .. k - 1 /\ j <= Len(a) /\ j \in 1 .. Len(a) + Len(c)
      BY <1>5, <2>1
    <3>2. t[j] = a[j]
      BY <1>4, <3>1
    <3>. QED BY <1>1, <2>1, <3>1, <3>2
  <2>2. CASE j >= k
    <3>1. t[j] = c[j - (k - 1)]
      BY <1>4, <1>5, <2>2
    <3>2. j - (k - 1) \in 1 .. Len(s) - k /\ (j - (k - 1)) + k = j + 1
      BY <1>5, <2>2
    <3>3. c[j - (k - 1)] = s[(j - (k - 1)) + k]
      BY <1>2, <3>2
    <3>. QED BY <2>2, <3>1, <3>2, <3>3
  <2>. QED BY <1>5, <2>1, <2>2
<1>7. /\ t \in Seq(Element) /\ Len(t) = Len(s) - 1
      /\ \A j \in 1 .. Len(s) - 1 : t[j] = IF j < k THEN s[j] ELSE s[j + 1]
  BY <1>4, <1>5, <1>6
<1>. QED BY <1>7 DEF t

(* build() takes a block out and appends it: the others keep their order,  *)
(* and its slot is free just long enough to be given to it again.          *)
LEMMA InPlaceByBuild ==
  ASSUME Inv, PlacesInv, Build
  PROVE  PlacesInv'
<1>1. moved = 0 /\ use = "blocks" /\ UNCHANGED <<use, id, base>>
  BY DEF Build
<1>2. CASE moved' = -1 /\ UNCHANGED set
  BY <1>1, <1>2 DEF PlacesInv, Arranged
<1>3. ASSUME NEW k \in ToMove, moved' = set.holder[k],
             set' = PushBack(Removed(set, id[set.holder[k]]), set.holder[k])
      PROVE  PlacesInv'
  <2> DEFINE h == set.holder
             n == Len(id)
             t == set'.holder
  <2>1. /\ Open(set, n) /\ n \in Nat /\ id \in Seq(Nat) /\ Arranged
        /\ \A m \in 1 .. n : id[m] = m - 1
    BY <1>1 DEF Inv, PlacesInv
  <2>2. /\ h \in Seq(Element) /\ Len(h) = n /\ DOMAIN h = 1 .. n
        /\ set.slots \in Seq(Element) /\ Len(set.slots) = n /\ set.free = <<>>
        /\ DOMAIN id = 1 .. n
    BY <2>1 DEF Open, Sets
  <2>3. /\ DOMAIN base = {} /\ \A i \in 1 .. n : h[i] = i
        /\ InOrderOf(h, set.slots, base, n)
    BY <1>1, <2>1 DEF Arranged
  <2>4. \A e \in 1 .. n : set.slots[e] = e
    <3> HIDE DEF h, n
    <3>. QED BY <2>3 DEF InOrderOf
  <2>5. k \in 1 .. n /\ k # n /\ k < n /\ h[k] = k /\ n > 0
    <3>1. k \in 1 .. n /\ h[k] # Back(set) /\ h[k] = k
      BY <2>2, <2>3 DEF ToMove, Moves
    <3>2. Back(set) = set.slots[n] /\ n \in 1 .. n
      BY <2>1, <2>2, <3>1 DEF Back, Last
    <3>. QED BY <2>1, <2>4, <3>1, <3>2
  <2>6. Position(set, k) = k
    BY <2>2, <2>3, <2>5, PositionIs
  <2>7. SlotOf(set, k - 1) = k
    BY <2>4, <2>5 DEF SlotOf
  <2> DEFINE r == RemoveAt(h, k)
             u == Append(r, k)
  <2>8. Removed(set, k - 1) =
          [holder |-> r, slots |-> [set.slots EXCEPT ![k] = End], free |-> <<k - 1>>]
    <3>1. (k - 1) + 1 = k
      BY <2>5
    <3>. QED BY <2>2, <2>6, <2>7, <3>1 DEF Removed
  <2>9. /\ r \in Seq(Element) /\ Len(r) = n - 1
        /\ \A j \in 1 .. n - 1 : r[j] = IF j < k THEN h[j] ELSE h[j + 1]
    <3>1. k \in 1 .. Len(h)
      BY <2>2, <2>5
    <3>2. LET v == RemoveAt(h, k) IN
          /\ v \in Seq(Element) /\ Len(v) = Len(h) - 1
          /\ \A j \in 1 .. Len(h) - 1 : v[j] = IF j < k THEN h[j] ELSE h[j + 1]
      BY <2>2, <3>1, RemoveFacts
    <3>. QED BY <2>2, <3>2
  <2> HIDE DEF r
  <2>10. /\ u \in Seq(Element) /\ Len(u) = n /\ u[n] = k
         /\ \A j \in 1 .. n - 1 : u[j] = r[j]
    BY <2>1, <2>5, <2>9 DEF Element
  <2>11. /\ t = u
         /\ set'.slots = [[set.slots EXCEPT ![k] = End] EXCEPT ![k] = u[n]]
    <3> DEFINE s == [holder |-> r, slots |-> [set.slots EXCEPT ![k] = End], free |-> <<k - 1>>]
    <3>1. set' = Placed(s, u, k)
      BY <1>3, <2>1, <2>5, <2>8 DEF PushBack
    <3>2. FreeIndex(s) = k - 1 /\ Len(s.holder) = n - 1
      BY <2>9 DEF FreeIndex, Last
    <3>3. Last(u) = u[n]
      BY <2>10 DEF Last
    <3>4. k - 1 # n - 1 /\ (k - 1) + 1 = k
      BY <2>1, <2>5
    <3> HIDE DEF u
    <3>5. Placed(s, u, k).holder = u /\ Placed(s, u, k).slots = [s.slots EXCEPT ![k] = u[n]]
      BY <3>2, <3>3, <3>4 DEF Placed, Recorded
    <3>. QED BY <3>1, <3>5
  <2> HIDE DEF t, u, h, n
  <2>12. t[n] = k /\ \A j \in 1 .. n - 1 : t[j] = IF j < k THEN j ELSE j + 1
    <3>1. ASSUME NEW j \in 1 .. n - 1 PROVE t[j] = IF j < k THEN j ELSE j + 1
      <4>1. t[j] = IF j < k THEN h[j] ELSE h[j + 1]
        BY <2>9, <2>10, <2>11
      <4>2. j \in 1 .. n /\ j + 1 \in 1 .. n
        BY <2>1
      <4>. QED BY <2>3, <4>1, <4>2
    <3>. QED BY <2>10, <2>11, <3>1
  <2>13. DOMAIN t = 1 .. n /\ Len(t) = n
    BY <2>1, <2>10, <2>11
  <2>14. \A e \in 1 .. n : set'.slots[e] = e
    <3>1. PICK s \in Seq(Element) : s = set.slots /\ Len(s) = n
      BY <2>1, <2>2, <2>4
    <3>2. DOMAIN s = 1 .. n /\ \A e \in 1 .. n : s[e] = e
      BY <2>1, <2>4, <3>1
    <3>3. set'.slots = [[s EXCEPT ![k] = End] EXCEPT ![k] = k]
      BY <2>10, <2>11, <3>1
    <3>. QED BY <3>2, <3>3
  <2> DEFINE place(e) == IF e < k THEN e ELSE IF e = k THEN n ELSE e - 1
  <2>15. ASSUME NEW e \in 1 .. n PROVE Position(set', e) = place(e)
    <3>1. place(e) \in 1 .. n /\ t[place(e)] = e
      BY <2>1, <2>5, <2>12
    <3>2. \A j \in 1 .. n : t[j] = e => j = place(e)
      BY <2>1, <2>5, <2>12
    <3> HIDE DEF place
    <3>. QED BY <2>13, <3>1, <3>2 DEF Position, t
  <2>16. moved' = k /\ k > 0 /\ DOMAIN id' = 1 .. n /\ DOMAIN base' = {}
    BY <1>1, <1>3, <2>2, <2>3, <2>5 DEF h
  <2>17. ASSUME NEW e \in 1 .. n, NEW f \in 1 .. n, e < f, e # k
         PROVE  Position(set', e) < Position(set', f)
    <3>1. place(e) < place(f)
      BY <2>1, <2>5, <2>17
    <3>. QED BY <2>15, <3>1
  <2>18. Last(t) = k
    BY <2>12, <2>13 DEF Last
  <2>19. \A e \in 1 .. n : SlotOf(set', id'[e]) = e
    BY <1>1, <2>1, <2>14 DEF SlotOf, n
  <2>20. InPlace'
    BY <2>16, <2>17, <2>18, <2>19 DEF InPlace, Appended, Before, t
  <2>. QED BY <2>5, <2>16, <2>20 DEF PlacesInv
<1>. QED BY <1>2, <1>3 DEF Build

LEMMA PlacesStay == Inv /\ PlacesInv /\ [Next]_vars => PlacesInv'
<1> SUFFICES ASSUME Inv, PlacesInv, [Next]_vars PROVE PlacesInv'
  OBVIOUS
<1>1. CASE UNCHANGED vars
  <2>1. Arranged => Arranged'
    BY <1>1 DEF vars, Arranged
  <2>2. InPlace => InPlace'
    BY <1>1 DEF vars, InPlace, Appended, Before
  <2>. QED BY <1>1, <2>1, <2>2 DEF vars, PlacesInv
<1>. QED BY <1>1, ArrangedByIns, ArrangedByCopy, InPlaceByBuild DEF Next

(* For every number of elements, what is appended stays in order, copies   *)
(* come right before the instruction they were made for in the order they  *)
(* were made, the ids of what is appended lead to it although insertions   *)
(* record another iterator, and a block that is moved becomes the last.    *)
THEOREM EverythingInPlace == Spec => []InPlace
<1>1. Inv /\ PlacesInv => InPlace
  <2> SUFFICES ASSUME Inv, Arranged, moved <= 0 PROVE InPlace
    BY DEF PlacesInv
  <2> DEFINE h == set.holder
             n == Len(id)
  <2>1. /\ Open(set, n) /\ n \in Nat /\ id \in Seq(Nat) /\ moved \in Int
        /\ \A m \in 1 .. n : id[m] = m - 1
    BY DEF Inv
  <2>2. DOMAIN h = 1 .. n /\ DOMAIN id = 1 .. n
    BY <2>1 DEF Open, Sets
  <2>3. InOrderOf(h, set.slots, base, n)
    BY DEF Arranged
  <2>4. \A i \in 1 .. n : h[i] \in 1 .. n
    BY <2>1 DEF Open
  <2>5. \A i \in 1 .. n : Position(set, h[i]) = i
    BY <2>2, <2>3, PositionIs
  <2> DEFINE P(e) == Position(set, e)
  <2>6. \A e \in 1 .. n : \E i \in 1 .. n : h[i] = e /\ P(e) = i
    <3>1. \A e \in 1 .. n : \E i \in 1 .. n : h[i] = e
      <4> HIDE DEF h, n
      <4>. QED BY <2>3 DEF InOrderOf
    <3>. QED BY <2>5, <3>1
  <2>7. moved > 0 => Last(set.holder) = moved
    BY <2>1
  <2> HIDE DEF h, n, P
  <2>8. ASSUME NEW e \in 1 .. n, NEW f \in 1 .. n, e \notin DOMAIN base, f \notin DOMAIN base, e < f
        PROVE  P(e) < P(f)
    <3>1. PICK i \in 1 .. n : h[i] = e /\ P(e) = i
      BY <2>6
    <3>2. PICK j \in 1 .. n : h[j] = f /\ P(f) = j
      BY <2>6
    <3>3. i # j
      BY <2>8, <3>1, <3>2
    <3>4. ~ (j < i)
      <4> SUFFICES ASSUME j < i PROVE FALSE
        OBVIOUS
      <4>1. h[j] < h[i]
        BY <2>3, <2>8, <3>1, <3>2 DEF InOrderOf
      <4>. QED BY <2>8, <3>1, <3>2, <4>1
    <3>. QED BY <2>1, <3>1, <3>2, <3>3, <3>4
  <2>9. ASSUME NEW e \in DOMAIN base
        PROVE  /\ P(e) < P(base[e])
               /\ \A f \in 1 .. n : P(e) < P(f) /\ P(f) < P(base[e]) =>
                    f \in DOMAIN base /\ base[f] = base[e] /\ f > e
    <3>1. e \in 1 .. n
      BY <2>3 DEF InOrderOf
    <3>2. PICK i \in 1 .. n : h[i] = e /\ P(e) = i
      BY <2>6, <3>1
    <3>3. PICK j \in i + 1 .. n : Follow(h, base, i, j)
      BY <2>3, <3>2 DEF InOrderOf
    <3>4. j \in 1 .. n /\ h[j] = base[e] /\ P(base[e]) = j /\ i < j
      <4>1. j \in 1 .. n /\ h[j] = base[e] /\ i < j
        BY <2>1, <3>2, <3>3 DEF Follow
      <4>. QED BY <2>5, <4>1 DEF P, h
    <3>5. ASSUME NEW f \in 1 .. n, P(e) < P(f), P(f) < P(base[e])
          PROVE  f \in DOMAIN base /\ base[f] = base[e] /\ f > e
      <4>1. PICK k \in 1 .. n : h[k] = f /\ P(f) = k
        BY <2>6
      <4>2. k \in i + 1 .. j - 1
        BY <2>1, <3>2, <3>4, <3>5, <4>1
      <4>. QED BY <3>2, <3>3, <4>1, <4>2 DEF Follow
    <3>. QED BY <3>2, <3>4, <3>5
  <2>10. ASSUME NEW e \in 1 .. n, e \notin DOMAIN base PROVE SlotOf(set, id[e]) = e
    <3>1. set.slots[e] = e
      BY <2>3, <2>10 DEF InOrderOf
    <3>. QED BY <2>1, <3>1 DEF SlotOf
  <2>. QED BY <2>2, <2>7, <2>8, <2>9, <2>10 DEF InPlace, Appended, Before, P, n
<1>. QED BY Initially, Preserved, PlacesAtFirst, PlacesStay, <1>1, PTL DEF Spec
================================================================================
