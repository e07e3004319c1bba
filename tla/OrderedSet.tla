----------------------------- MODULE OrderedSet -----------------------------
(***************************************************************************)
(* OrderedSet, the container of a block's instructions and of a function's *)
(* blocks: a list of the elements, and a vector of iterators into it by    *)
(* which an element is found from its index.  The iterators of removed     *)
(* elements leave slots that are used again.                               *)
(*                                                                         *)
(* It is run as the compiler uses it: a block appends instructions and     *)
(* inserts copies before the last one; a function appends blocks until     *)
(* ModuleBuilder::build() moves one that returns to the end.               *)
(***************************************************************************)
EXTENDS Integers, Sequences, SequencesExt

CONSTANT MaxElements    \* how many elements are made

ASSUME MaxElementsAssumption == MaxElements \in Nat \ {0}

VARIABLES
    use,        \* "instructions" or "blocks"
    set,        \* [holder, slots, free]: m_holder, m_list, m_free_indices
    id,         \* element -> the index it was given
    base,       \* copy -> the instruction it was inserted before
    returns,    \* the blocks that end in a return
    moved       \* the block that was moved; 0 before build(), -1 if none was

vars == <<use, set, id, base, returns, moved>>

(* Elements are numbered as they are made, indices from 0.                 *)
End == 0        \* m_holder.end()

New == Len(id) + 1

SlotOf(s, n) == s.slots[n + 1]

Back(s) == Last(s.slots)

FreeIndex(s) == IF s.free = <<>> THEN Len(s.slots) ELSE Last(s.free)

(* Variant: the iterator of the element that was put in.                   *)
RecordedItself(holder, e) == e

(* --m_holder.end(), whatever element was put in.                          *)
Recorded(holder, e) == Last(holder)

(* What push_back() and insert_before() do once e is in the list: a slot   *)
(* that is none of the free ones is told by the number of elements.        *)
Placed(s, holder, e) ==
    LET size == Len(s.holder)
        slot == FreeIndex(s)
        free == IF s.free = <<>> THEN <<>> ELSE Front(s.free)
    IN  [holder |-> holder, free |-> free,
         slots |-> IF slot = size THEN Append(s.slots, Recorded(holder, e))
                   ELSE [s.slots EXCEPT ![slot + 1] = Recorded(holder, e)]]

Index(s) == IF FreeIndex(s) = Len(s.holder) THEN Len(s.holder) ELSE FreeIndex(s)

PushBack(s, e) == Placed(s, Append(s.holder, e), e)

Position(s, e) == CHOOSE k \in DOMAIN s.holder : s.holder[k] = e

InsertBefore(s, n, e) ==
    IF SlotOf(s, n) = End THEN PushBack(s, e)
    ELSE Placed(s, InsertAt(s.holder, Position(s, SlotOf(s, n)), e), e)

Removed(s, n) ==
    [holder |-> RemoveAt(s.holder, Position(s, SlotOf(s, n))),
     slots |-> [s.slots EXCEPT ![n + 1] = End],
     free |-> Append(s.free, n)]

Init ==
    /\ set = [holder |-> <<>>, slots |-> <<>>, free |-> <<>>]
    /\ id = <<>> /\ base = [e \in {} |-> e] /\ moved = 0
    /\ \/ use = "instructions" /\ returns = {}
       \/ use = "blocks" /\ returns \in SUBSET (1 .. MaxElements)

(* BasicBlock::ins(), LIRBlock::ins(), create_basic_block(), ...           *)
Ins ==
    /\ New <= MaxElements /\ moved = 0
    /\ set' = PushBack(set, New)
    /\ id' = Append(id, Index(set))
    /\ UNCHANGED <<use, base, returns, moved>>

(* insert_copies(): target->ins_before(target->last(), ..).                *)
InsBeforeLast ==
    /\ use = "instructions" /\ id # <<>> /\ New <= MaxElements
    /\ LET last == Back(set) IN
         /\ set' = InsertBefore(set, id[last], New)
         /\ base' = [e \in DOMAIN base \cup {New} |-> IF e = New THEN last ELSE base[e]]
    /\ id' = Append(id, Index(set))
    /\ UNCHANGED <<use, returns, moved>>

(* Variant: a block that is the last already is moved as well.             *)
MovesLast(b) == b \in returns

(* finalize_function() leaves the last block where it is.                  *)
Moves(b) == b \in returns /\ b # Back(set)

ToMove == {k \in DOMAIN set.holder : Moves(set.holder[k])}

(* The first block that is to be moved.  It keeps its id.                  *)
Build ==
    /\ use = "blocks" /\ moved = 0 /\ id # <<>>
    /\ \/ ToMove = {} /\ moved' = -1 /\ UNCHANGED set
       \/ \E k \in ToMove :
             /\ \A j \in ToMove : k <= j
             /\ moved' = set.holder[k]
             /\ set' = PushBack(Removed(set, id[set.holder[k]]), set.holder[k])
    /\ UNCHANGED <<use, id, base, returns>>

Next == Ins \/ InsBeforeLast \/ Build

Spec == Init /\ [][Next]_vars

----------------------------------------------------------------------------
(* LIRBlock::last() and FunctionData::last() read the last slot, and it is *)
(* the last element, also where that was not the last to be made: the      *)
(* iterator an insertion records is not the new element's, and so the slot *)
(* of the last copy names the terminator.  Not after a block was moved: it *)
(* is in its old slot, and last() names another block.                     *)
BackIsLast ==
    set.holder # <<>> /\ moved <= 0 => Back(set) = Last(set.holder)

Appended == DOMAIN id \ DOMAIN base

Before(e, f) == Position(set, e) < Position(set, f)

(* What is appended stays in order, but for the block that was moved to    *)
(* the end; copies come right before the instruction that was the last, in *)
(* the order they were made; and the id of what was appended leads to it.  *)
InPlace ==
    /\ \A e, f \in Appended : e < f /\ e # moved => Before(e, f)
    /\ moved > 0 => Last(set.holder) = moved
    /\ \A e \in DOMAIN base :
         /\ Before(e, base[e])
         /\ \A f \in DOMAIN id : Before(e, f) /\ Before(f, base[e]) =>
              f \in DOMAIN base /\ base[f] = base[e] /\ f > e
    /\ \A e \in Appended : SlotOf(set, id[e]) = e
=============================================================================
