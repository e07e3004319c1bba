----------------------------- MODULE MCLiveness -----------------------------
(* One value v in function graphs of four reachable blocks (liveness       *)
(* treats values independently, the "changed" flag apart).  v is an        *)
(* argument (d = 0) or is defined in block d; a block that d dominates may *)
(* read it, and any block may name it in a parallel copy.                  *)
EXTENDS Liveness

G == INSTANCE FlowGraph

Use == [ins |-> {"v"}, outs |-> {}, pc |-> FALSE]
Phi == [ins |-> {"v"}, outs |-> {}, pc |-> TRUE]
Def == [ins |-> {}, outs |-> {"v"}, pc |-> FALSE]

(* The entry jumps to 2 or branches to 2 and 3: renaming gives the others. *)
MCGraphs ==
    {g \in G!AllGraphs(4) :
        /\ g.succ[1] \in {<<2>>, <<2, 3>>}
        /\ G!Reachable(g) = 1 .. 4}

Reader(g, d, b) ==
    IF d = 0 \/ (b # d /\ G!Dominates(g, d, b))
    THEN {<<>>, <<Use>>, <<Phi>>} ELSE {<<>>, <<Phi>>}

CodeOf(g, d, b) == IF b = d THEN {<<Def>>, <<Def, Use>>} ELSE Reader(g, d, b)

ProgramsOf(g) ==
    LET order == G!Preorder(g)
    IN  UNION {{[succ |-> g.succ, order |-> order, code |-> <<c1, c2, c3, c4>>] :
                  c1 \in CodeOf(g, d, 1), c2 \in CodeOf(g, d, 2),
                  c3 \in CodeOf(g, d, 3), c4 \in CodeOf(g, d, 4)} : d \in 0 .. 4}

(* At most one parallel copy. *)
MCPrograms ==
    {p \in UNION {ProgramsOf(g) : g \in MCGraphs} :
        \A a, b \in 1 .. 4 : p.code[a] = <<Phi>> /\ p.code[b] = <<Phi>> => a = b}
=============================================================================
