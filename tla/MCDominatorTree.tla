-------------------------- MODULE MCDominatorTree --------------------------
(* All function graphs of 4 blocks with jumps and two-way branches; and    *)
(* those of 5 blocks whose entry branches to blocks 2 and 3, in that order *)
(* (any two targets are these two up to renaming), every block reachable.  *)
(* They contain the smallest graphs whose first pass computes a parent     *)
(* that is wrong (a join reached in preorder before its second             *)
(* predecessor) and irreducible ones (2 and 3 in a cycle).                 *)
EXTENDS DominatorTree

Targets  == 2 .. 5
Branches == {<<t>> : t \in Targets} \cup
            {s \in Targets \X Targets : s[1] # s[2]}

Branching ==
    {gr \in {[succ |-> <<<<2, 3>>, s2, s3, s4, <<>>>>, entry |-> 1, exit |-> 5] :
                s2 \in Branches, s3 \in Branches, s4 \in Branches} :
        Reachable(gr) = Blocks(gr)}

MCGraphs == AllGraphs(4) \cup Branching
=============================================================================
