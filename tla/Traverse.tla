------------------------------ MODULE Traverse ------------------------------
(***************************************************************************)
(* The two block orders every pass of the compiler iterates in:            *)
(*   "preorder"  PreorderTraverseBase (liveness, intervals, linear scan,   *)
(*               code emission; reversed by PostOrderTraverseBase);        *)
(*   "bfs"       BFSOrderTraverseBase (lowering).                          *)
(* Both keep an explicit stack: of blocks in preorder, of successor spans  *)
(* in the "bfs" one.  One step is one iteration of the loops of run().     *)
(***************************************************************************)
EXTENDS FlowGraph

CONSTANT Graphs        \* the functions to traverse

ASSUME GraphsAssumption == \A g \in Graphs : IsFunctionGraph(g)

VARIABLES
    g,        \* the function under analysis (never changes)
    kind,     \* which of the two traversals runs
    stack,    \* std::stack, its top first
    span,     \* "bfs": what the for loop has left of the popped span
    visited,  \* the set of blocks whose visited bit is set
    order,    \* m_order
    pc        \* "loop" while run() iterates, then "done"

vars == <<g, kind, stack, span, visited, order, pc>>

----------------------------------------------------------------------------
(* BFSOrderTraverseBase::visitBlock: a span that is not empty is pushed.   *)
WithSpan(spans, b) == IF g.succ[b] = <<>> THEN spans ELSE <<g.succ[b]>> \o spans

(* Variant: the test against the exit block is missing.                    *)
SkipsVisitedOnly(b) == b \in visited

Skips(b) == b \in visited \/ b = g.exit

(* Variant: the exit block goes first.                                     *)
PreorderExitFirst(o) == <<g.exit>> \o o

PreorderFinalOrder(o) == Append(o, g.exit)

Init ==
    /\ g \in Graphs
    /\ pc = "loop" /\ span = <<>>
    /\ \/ /\ kind = "preorder"
          /\ stack = <<g.entry>>
          /\ visited = {}
          /\ order = <<>>
       \/ /\ kind = "bfs"
          /\ stack = WithSpan(<<>>, g.entry)
          /\ visited = {g.entry}
          /\ order = <<g.entry>>

(* PreorderTraverseBase::run, the popped block was seen or is the exit.    *)
PreorderSkip ==
    /\ pc = "loop" /\ kind = "preorder" /\ stack # <<>>
    /\ Skips(Head(stack))
    /\ stack' = Tail(stack)
    /\ UNCHANGED <<g, kind, span, visited, order, pc>>

(* Variant: the successors are pushed as they come.                        *)
PushedUnreversed(b) == Reverse(g.succ[b]) \o Tail(stack)

(* The successors are pushed in reverse, so that the first one is on top.  *)
Pushed(b) == g.succ[b] \o Tail(stack)

(* PreorderTraverseBase::run, a new block.                                 *)
PreorderVisit ==
    /\ pc = "loop" /\ kind = "preorder" /\ stack # <<>>
    /\ LET b == Head(stack) IN
         /\ ~Skips(b)
         /\ visited' = visited \cup {b}
         /\ order' = Append(order, b)
         /\ stack' = Pushed(b)
    /\ UNCHANGED <<g, kind, span, pc>>

(* The stack is empty: the exit block goes last.                           *)
PreorderFinish ==
    /\ pc = "loop" /\ kind = "preorder" /\ stack = <<>>
    /\ order' = PreorderFinalOrder(order)
    /\ pc' = "done"
    /\ UNCHANGED <<g, kind, stack, span, visited>>

(* BFSOrderTraverseBase::run: a span of successors is popped, ...          *)
BFSPop ==
    /\ pc = "loop" /\ kind = "bfs" /\ span = <<>> /\ stack # <<>>
    /\ span' = Head(stack)
    /\ stack' = Tail(stack)
    /\ UNCHANGED <<g, kind, visited, order, pc>>

(* ... and those of its blocks that were not visited are.                  *)
BFSSkip ==
    /\ pc = "loop" /\ span # <<>> /\ Head(span) \in visited
    /\ span' = Tail(span)
    /\ UNCHANGED <<g, kind, stack, visited, order, pc>>

BFSVisit ==
    /\ pc = "loop" /\ span # <<>> /\ Head(span) \notin visited
    /\ span' = Tail(span)
    /\ visited' = visited \cup {Head(span)}
    /\ order' = Append(order, Head(span))
    /\ stack' = WithSpan(stack, Head(span))
    /\ UNCHANGED <<g, kind, pc>>

BFSFinish ==
    /\ pc = "loop" /\ kind = "bfs" /\ span = <<>> /\ stack = <<>>
    /\ pc' = "done"
    /\ UNCHANGED <<g, kind, stack, span, visited, order>>

Next ==
    \/ PreorderSkip \/ PreorderVisit \/ PreorderFinish
    \/ BFSPop \/ BFSSkip \/ BFSVisit \/ BFSFinish

Spec == Init /\ [][Next]_vars

----------------------------------------------------------------------------
Position(b) == CHOOSE k \in DOMAIN order : order[k] = b

(* A finished order lists every reachable block once.  Preorder adds the   *)
(* exit block even when no path reaches it: the code that uses the order   *)
(* numbers instructions by it.                                             *)
EachBlockOnce ==
    pc = "done" =>
        /\ IsInjective(order)
        /\ Range(order) = Reachable(g) \cup
                          (IF kind = "preorder" THEN {g.exit} ELSE {})

(* It is the order the other modules take from FlowGraph, and in preorder  *)
(* the exit block is last: its epilogue is emitted last.                   *)
CompleteOrder ==
    /\ EachBlockOnce
    /\ pc = "done" =>
         IF kind = "bfs" THEN order = BreadthFirst(g)
         ELSE order[Len(order)] = g.exit /\ order = Preorder(g)

(* Every block but the entry has a predecessor that comes before it, in    *)
(* each order and while it is built.  So a path from the entry comes       *)
(* before it, with all its dominators: "It is assumed that bfs order       *)
(* guarantees domination order" (FunctionLower.h:33).  The fixpoint loops  *)
(* need it too, see Liveness.                                              *)
PredecessorBefore ==
    \A k \in DOMAIN order :
        order[k] \in Reachable(g) \ {g.entry} =>
            \E j \in 1 .. (k-1) : order[k] \in Successors(g, order[j])

(* LIRFunctionCodegen.cpp:127 emits no jump to the true target of a        *)
(* conditional branch, nor to the continuation of a call: the first        *)
(* successor must be next.  It is, unless it is the exit block or was      *)
(* placed before.                                                          *)
FirstSuccessorNext ==
    pc = "done" /\ kind = "preorder" =>
        \A k \in 1 .. Len(order) - 1 :
            LET target == g.succ[order[k]][1] IN
            \/ order[k + 1] = target
            \/ target \in {g.exit} \cup Range(SubSeq(order, 1, k))
=============================================================================
