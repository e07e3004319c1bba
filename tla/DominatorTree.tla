--------------------------- MODULE DominatorTree ---------------------------
(***************************************************************************)
(* DominatorTreeEvalBase: the iterative immediate-dominator computation.   *)
(* Blocks are numbered by PostOrderTraverseBase, which is the preorder     *)
(* read backwards (not a postorder): the exit block is number 0 and the    *)
(* entry block the highest number.  "dominators" maps a number to the      *)
(* number of the best immediate dominator found so far.                    *)
(***************************************************************************)
EXTENDS Traverse

CONSTANT Undefined      \* std::numeric_limits<size_t>::max()

(* No block has this number.                                               *)
ASSUME UndefinedAssumption == Undefined \notin Nat

VARIABLES
    postorder,    \* the block numbered i is postorder[i + 1]
    dominators,   \* block number -> block number, or Undefined
    i,            \* the block number evaluated next, -1 after the last
    changed       \* run()'s flag

tree == <<postorder, dominators, i, changed>>

----------------------------------------------------------------------------
(* PostOrderTraverseBase *)
PostOrder == Reverse(order)

Numbers == 0 .. (Len(postorder) - 1)

EntryNumber == Len(postorder) - 1

(* indexing_blocks() *)
NumberOf(b) == (CHOOSE k \in DOMAIN postorder : postorder[k] = b) - 1

(* calculate_incoming() *)
Incoming(n) == {NumberOf(p) : p \in Predecessors(g, postorder[n + 1])}

(* intersect(): the lower of two fingers climbs the tree built so far      *)
(* until they meet.  Every climb leads to higher numbers: two fingers that *)
(* meet at all have met after so many.                                     *)
Intersect(doms, a, b) ==
    LET climb == [f \in Numbers \X Numbers |->
                    CASE f[1] < f[2] -> <<doms[f[1]], f[2]>>
                      [] f[1] > f[2] -> <<f[1], doms[f[2]]>>
                      [] OTHER       -> f]
        fingers[k \in 0 .. 2 * Len(postorder)] ==
          IF k = 0 THEN <<a, b>> ELSE climb[fingers[k - 1]]
    IN  fingers[2 * Len(postorder)][1]

(* Variant: the first processed predecessor is taken, without a fold.      *)
FirstProcessedPred(doms, n) == Min({p \in Incoming(n) : doms[p] # Undefined})

(* evaluate_idom(): the fold of Intersect over the processed predecessors. *)
EvaluateIdom(doms, n) ==
    LET processed == SetToSeq({p \in Incoming(n) : doms[p] # Undefined})
        idom[k \in 1 .. Len(processed)] ==
          IF k = 1 THEN processed[1] ELSE Intersect(doms, idom[k - 1], processed[k])
    IN  idom[Len(processed)]

ChangedSoFar(old, new) == old \/ new

(* Variants: the loop goes round for ever; a single pass is made.          *)
AlwaysAgain(c) == TRUE

NeverAgain(c) == FALSE

Again(c) == c

DomInit ==
    /\ Init
    /\ postorder = <<>> /\ dominators = <<>> /\ i = -1 /\ changed = FALSE

(* calculate_incoming() looks every predecessor up with at(): it throws on *)
(* a graph with an unreachable predecessor, and evaluate_idom() throws on  *)
(* a block without a defined one.  The pass is meant for graphs without    *)
(* unreachable blocks.                                                     *)
Analysable == kind = "preorder" /\ Reachable(g) = Blocks(g)

StartTree ==
    /\ pc = "done" /\ Analysable
    /\ pc' = "tree"
    /\ postorder' = PostOrder
    /\ dominators' = [n \in 0 .. Len(order) - 1 |-> IF n = Len(order) - 1 THEN n ELSE Undefined]
    /\ i' = Len(order) - 2
    /\ changed' = FALSE
    /\ UNCHANGED <<g, kind, stack, span, visited, order>>

(* One iteration of the for loop in run().                                 *)
EvaluateBlock ==
    /\ pc = "tree" /\ i >= 0
    /\ LET idom == EvaluateIdom(dominators, i) IN
         /\ dominators' = [dominators EXCEPT ![i] = idom]
         /\ changed' = ChangedSoFar(changed, idom # dominators[i])
    /\ i' = i - 1
    /\ UNCHANGED <<vars, postorder>>

(* The while loop goes round again.                                        *)
NextPass ==
    /\ pc = "tree" /\ i < 0 /\ Again(changed)
    /\ changed' = FALSE
    /\ i' = EntryNumber - 1
    /\ UNCHANGED <<vars, postorder, dominators>>

(* enumeration_to_dom_map() then turns the numbers into the tree.          *)
FinishTree ==
    /\ pc = "tree" /\ i < 0 /\ ~Again(changed)
    /\ pc' = "found"
    /\ UNCHANGED <<g, kind, stack, span, visited, order, tree>>

TraverseStep == Next /\ UNCHANGED tree

DomNext == TraverseStep \/ StartTree \/ EvaluateBlock \/ NextPass \/ FinishTree

DomSpec == DomInit /\ [][DomNext]_<<vars, tree>>

FairSpec == DomSpec /\ WF_<<vars, tree>>(DomNext)

----------------------------------------------------------------------------
(* The result is the dominator tree of the graph, although the numbering   *)
(* is not a postorder: every block's parent is its immediate dominator by  *)
(* the definition on paths.                                                *)
TreeIsDominatorTree ==
    pc = "found" =>
        \A n \in Numbers \ {EntryNumber} :
            postorder[dominators[n] + 1] = ImmediateDominator(g, postorder[n + 1])

(* What makes intersect()'s fingers meet, and at() never throw: whatever   *)
(* the pass, a block's parent has a higher number and is itself defined.   *)
FingersClimb ==
    \A n \in Numbers \ {EntryNumber} :
        dominators[n] # Undefined =>
            /\ dominators[n] > n
            /\ dominators[dominators[n]] # Undefined

(* Neither the traversals nor the loop of run() go on for ever.            *)
Terminates == <>(pc = "found" \/ (pc = "done" /\ ~Analysable))
=============================================================================
