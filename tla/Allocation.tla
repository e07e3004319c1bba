----------------------------- MODULE Allocation -----------------------------
(***************************************************************************)
(* What a register allocation promises, whatever the algorithm: values get *)
(* places, a few at a time, until all have one; a place once given is kept;*)
(* values that clash are apart at every moment; and the registers a        *)
(* function must give back unchanged are on record as soon as one is in    *)
(* use.  It may fail, but only before it is done.                          *)
(***************************************************************************)
EXTENDS FiniteSets, Functions

CONSTANT Preserved  \* the registers that belong to the caller

VARIABLES
    values,     \* what must be placed
    clashes,    \* the pairs of values that must not share a place
    place,      \* value -> register or slot, for the values placed so far
    saved,      \* the registers the function will save
    status

vars == <<values, clashes, place, saved, status>>

(* No two values that clash are in one place.                              *)
Apart(placed) ==
    \A c \in clashes : {c[1], c[2]} \subseteq DOMAIN placed => placed[c[1]] # placed[c[2]]

Recorded(placed) == Range(placed) \cap Preserved

Init ==
    /\ clashes \subseteq values \X values
    /\ place = <<>> /\ saved = {} /\ status = "working"

(* Some values are placed, the others stay where they are.                 *)
Place ==
    /\ status = "working" /\ status' = status
    /\ DOMAIN place' \in SUBSET values
    /\ DOMAIN place \subseteq DOMAIN place'
    /\ \A v \in DOMAIN place : place'[v] = place[v]
    /\ Apart(place')
    /\ saved' = Recorded(place')
    /\ UNCHANGED <<values, clashes>>

Finish ==
    /\ status = "working" /\ DOMAIN place = values
    /\ status' = "done"
    /\ UNCHANGED <<values, clashes, place, saved>>

Fail ==
    /\ status = "working"
    /\ status' = "failed"
    /\ UNCHANGED <<values, clashes, place, saved>>

Next == Place \/ Finish \/ Fail

Spec == Init /\ [][Next]_vars

=============================================================================
