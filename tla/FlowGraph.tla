----------------------------- MODULE FlowGraph -----------------------------
(***************************************************************************)
(* Control-flow graphs as the analysis passes of lib/base/analysis see a   *)
(* function.  A graph is a record                                          *)
(*   succ   for every block, the sequence of its successors (the order of  *)
(*          the terminator's targets, which the traversals follow);        *)
(*   entry  FunctionData::first();                                         *)
(*   exit   FunctionData::last(), the block that returns.                  *)
(* The reference notions (reachability, dominance) are stated on paths and *)
(* know nothing of the algorithms that are checked against them.           *)
(***************************************************************************)
EXTENDS Integers, Sequences, FiniteSets, SequencesExt

Blocks(g) == DOMAIN g.succ

Successors(g, b) == {g.succ[b][k] : k \in DOMAIN g.succ[b]}

Predecessors(g, b) == {p \in Blocks(g) : b \in Successors(g, p)}

(* The blocks a path from the entry reaches without entering "avoid". *)
ReachableAvoiding(g, avoid) ==
    LET reach[n \in 0 .. Cardinality(Blocks(g))] ==
          IF n = 0
          THEN {g.entry} \ avoid
          ELSE LET before == reach[n-1]
               IN  before \cup ((UNION {Successors(g, b) : b \in before}) \ avoid)
    IN  reach[Cardinality(Blocks(g))]

Reachable(g) == ReachableAvoiding(g, {})

(* d dominates b: every path from the entry to b goes through d. *)
Dominates(g, d, b) == b \notin ReachableAvoiding(g, {d})

StrictDominators(g, b) == {d \in Reachable(g) \ {b} : Dominates(g, d, b)}

(* The strict dominator that every other strict dominator dominates. *)
ImmediateDominator(g, b) ==
    LET strict == StrictDominators(g, b)
    IN  CHOOSE d \in strict : \A e \in strict : Dominates(g, e, d)

IsGraph(g) ==
    /\ IsFiniteSet(Blocks(g))
    /\ g.entry \in Blocks(g)
    /\ g.exit \in Blocks(g)
    /\ \A b \in Blocks(g) : g.succ[b] \in Seq(Blocks(g))

(* The graphs of a well-formed function: nothing branches back to the      *)
(* entry, and only the exit block has no successor.                        *)
IsFunctionGraph(g) ==
    /\ IsGraph(g)
    /\ \A b \in Blocks(g) : g.entry \notin Successors(g, b)
    /\ \A b \in Blocks(g) : (g.succ[b] = <<>>) <=> (b = g.exit)

(* PreorderTraverseBase::run as a function of its stack and its order, for *)
(* the passes that start from the cached preorder; one iteration ...       *)
PreorderStep(graph, at) ==
    LET b == Head(at.stack)
    IN  IF b = graph.exit \/ b \in Range(at.order)
        THEN [stack |-> Tail(at.stack), order |-> at.order]
        ELSE [stack |-> graph.succ[b] \o Tail(at.stack), order |-> Append(at.order, b)]

(* ... and all of them.                                                    *)
Preorder(graph) ==
    LET visit[at \in [stack : Seq(Blocks(graph)), order : Seq(Blocks(graph))]] ==
          IF at.stack = <<>> THEN Append(at.order, graph.exit)
          ELSE visit[PreorderStep(graph, at)]
    IN  visit[[stack |-> <<graph.entry>>, order |-> <<>>]]

(* BFSOrderTraverseBase::run, for the lowering: spans of successors are on *)
(* a stack, so that the span of the last new block comes next.             *)
SpanOf(graph, b) == IF graph.succ[b] = <<>> THEN <<>> ELSE <<graph.succ[b]>>

BreadthFirstStep(graph, at) ==
    IF at.span = <<>>
    THEN [span |-> Head(at.stack), stack |-> Tail(at.stack), order |-> at.order]
    ELSE LET b == Head(at.span)
         IN  IF b \in Range(at.order)
             THEN [span |-> Tail(at.span), stack |-> at.stack, order |-> at.order]
             ELSE [span  |-> Tail(at.span),
                   stack |-> SpanOf(graph, b) \o at.stack,
                   order |-> Append(at.order, b)]

BreadthFirst(graph) ==
    LET visit[at \in [span  : Seq(Blocks(graph)), stack : Seq(Seq(Blocks(graph))),
                      order : Seq(Blocks(graph))]] ==
          IF at.span = <<>> /\ at.stack = <<>> THEN at.order
          ELSE visit[BreadthFirstStep(graph, at)]
    IN  visit[[span |-> <<>>, stack |-> SpanOf(graph, graph.entry), order |-> <<graph.entry>>]]

(* All function graphs over 1..n with entry 1 and exit n in which a block  *)
(* ends with a jump (one target) or a conditional branch (two targets).    *)
AllGraphs(n) ==
    LET Targets  == 2 .. n
        Branches == {<<t>> : t \in Targets} \cup
                    {s \in Targets \X Targets : s[1] # s[2]}
    IN  {[succ |-> [b \in 1 .. n |-> IF b = n THEN <<>> ELSE f[b]],
          entry |-> 1, exit |-> n] : f \in [1 .. (n - 1) -> Branches]}
=============================================================================
