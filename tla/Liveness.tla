------------------------------ MODULE Liveness ------------------------------
(***************************************************************************)
(* LivenessAnalysis: which virtual values are live at the entry and at the *)
(* exit of each block of a LIR function.  compute_local_live_set() walks   *)
(* the instructions once; compute_global_live_set() sweeps the blocks in   *)
(* reverse preorder until a sweep leaves every live_out unchanged.         *)
(*                                                                         *)
(* A program is a record                                                   *)
(*   succ   block -> sequence of successors                                *)
(*   code   block -> sequence of instructions, each a record               *)
(*            ins   the values it reads                                    *)
(*            outs  the values it defines                                  *)
(*            pc    is it a parallel copy (a lowered phi)?                 *)
(*   order  the cached preorder of the blocks.                             *)
(***************************************************************************)
EXTENDS Integers, Sequences

CONSTANTS
    Programs,   \* the LIR functions to analyse
    Val         \* the virtual values

Block(p) == DOMAIN p.succ

Succs(p, b) == {p.succ[b][k] : k \in DOMAIN p.succ[b]}

IsProgram(p) ==
    /\ p.succ \in [Block(p) -> Seq(Block(p))]
    /\ p.code \in [Block(p) -> Seq([ins : SUBSET Val, outs : SUBSET Val,
                                    pc : BOOLEAN])]
    /\ p.order \in Seq(Block(p))

(* Every block is in the order once. *)
IsOrderOfBlocks(p) ==
    /\ \A b \in Block(p) : \E k \in DOMAIN p.order : p.order[k] = b
    /\ \A j, k \in DOMAIN p.order : p.order[j] = p.order[k] => j = k

(* A block some block branches to has a predecessor earlier in the order.  *)
(* Preorder guarantees it (Traverse!PredecessorBefore) for every block but *)
(* the entry, so this says too that nothing branches back to the entry.    *)
HasPredecessorBefore(p) ==
    \A k \in DOMAIN p.order :
        (\E b \in Block(p) : p.order[k] \in Succs(p, b)) =>
            \E j \in DOMAIN p.order : j < k /\ p.order[k] \in Succs(p, p.order[j])

ASSUME ProgramsAssumption ==
    \A p \in Programs :
        IsProgram(p) /\ IsOrderOfBlocks(p) /\ HasPredecessorBefore(p)

VARIABLES
    prog,       \* the function (never changes)
    pc,         \* "local", "global", "done"
    i,          \* position in prog.order of the block being processed
    k,          \* number of its instructions walked so far (local phase)
    gen,        \* m_kill_gen_set.second
    kill,       \* m_kill_gen_set.first
    live_in,    \* m_liveness.first
    live_out,   \* m_liveness.second
    changed     \* the flag of compute_global_live_set()

vars == <<prog, pc, i, k, gen, kill, live_in, live_out, changed>>

----------------------------------------------------------------------------
(* Variant: a parallel copy reads its inputs in its own block.             *)
ReadsOfAny(inst) == inst.ins

(* The reads compute_local_live_set() counts: a parallel copy's inputs are *)
(* read at the end of the predecessors.                                    *)
Reads(inst) == IF inst.pc THEN {} ELSE inst.ins

(* Variant: a value killed earlier in the block still counts as a read.    *)
GenIgnoringKill(g, kl, inst) == g \cup Reads(inst)

GenAfter(g, kl, inst) == g \cup (Reads(inst) \ kl)

KillAfter(kl, inst) == kl \cup inst.outs

(* Variant: live_out is left with the values that were new to it.          *)
OutOnlyNew(out, in, p, b) == (UNION {in[s] : s \in Succs(p, b)}) \ out

(* live_out = live_out \cup the live_in of every successor.                *)
OutAfter(out, in, p, b) == out \cup UNION {in[s] : s \in Succs(p, b)}

(* live_in = ((live_in \cup live_out) \ kill) \cup gen.                    *)
InAfter(in, out, kl, g) == ((in \cup out) \ kl) \cup g

(* Variant: only the last processed block decides whether to go on.        *)
ChangedByLast(c, old, new) == old # new

ChangedAfter(c, old, new) == c \/ old # new

WalkStart(n) == 0

(* Variant: the sweep is repeated whatever the flag says.                  *)
AlwaysRepeat(c) == TRUE

Repeat(c) == c

Init ==
    /\ prog \in Programs
    /\ pc = "local" /\ i = 1 /\ k = 0
    /\ gen      = [b \in Block(prog) |-> {}]
    /\ kill     = [b \in Block(prog) |-> {}]
    /\ live_in  = [b \in Block(prog) |-> {}]
    /\ live_out = [b \in Block(prog) |-> {}]
    /\ changed = FALSE

(* compute_local_live_set(): the next instruction of the current block.    *)
WalkInstruction ==
    /\ pc = "local" /\ i <= Len(prog.order)
    /\ LET b == prog.order[i] IN
         /\ k < Len(prog.code[b])
         /\ LET inst == prog.code[b][k + 1] IN
              /\ gen'  = [gen EXCEPT ![b] = GenAfter(gen[b], kill[b], inst)]
              /\ kill' = [kill EXCEPT ![b] = KillAfter(kill[b], inst)]
    /\ k' = k + 1
    /\ UNCHANGED <<prog, pc, i, live_in, live_out, changed>>

(* compute_local_live_set(): on to the next block.                         *)
WalkNextBlock ==
    /\ pc = "local" /\ i <= Len(prog.order)
    /\ k = Len(prog.code[prog.order[i]])
    /\ i' = i + 1 /\ k' = WalkStart(k)
    /\ UNCHANGED <<prog, pc, gen, kill, live_in, live_out, changed>>

(* setup_liveness(), and the first sweep starts at the end of the order.   *)
StartSweeps ==
    /\ pc = "local" /\ i > Len(prog.order)
    /\ pc' = "global" /\ i' = Len(prog.order)
    /\ changed' = FALSE
    /\ UNCHANGED <<prog, k, gen, kill, live_in, live_out>>

(* compute_global_live_set(): one block of a sweep.                        *)
SweepBlock ==
    /\ pc = "global" /\ i > 0
    /\ LET b   == prog.order[i]
           out == OutAfter(live_out[b], live_in, prog, b)
       IN  /\ live_out' = [live_out EXCEPT ![b] = out]
           /\ live_in'  = [live_in EXCEPT
                             ![b] = InAfter(live_in[b], out, kill[b], gen[b])]
           /\ changed'  = ChangedAfter(changed, live_out[b], out)
    /\ i' = i - 1
    /\ UNCHANGED <<prog, pc, k, gen, kill>>

(* while (changed): another sweep.                                         *)
SweepAgain ==
    /\ pc = "global" /\ i = 0 /\ Repeat(changed)
    /\ changed' = FALSE /\ i' = Len(prog.order)
    /\ UNCHANGED <<prog, pc, k, gen, kill, live_in, live_out>>

Finish ==
    /\ pc = "global" /\ i = 0 /\ ~Repeat(changed)
    /\ pc' = "done"
    /\ UNCHANGED <<prog, i, k, gen, kill, live_in, live_out, changed>>

Next ==
    \/ WalkInstruction \/ WalkNextBlock \/ StartSweeps
    \/ SweepBlock \/ SweepAgain \/ Finish

Spec == Init /\ [][Next]_vars

FairSpec == Spec /\ WF_vars(Next)

----------------------------------------------------------------------------
TypeOK ==
    /\ IsProgram(prog)
    /\ pc \in {"local", "global", "done"}
    /\ i \in 0 .. (Len(prog.order) + 1)
    /\ k \in Nat
    /\ pc = "local" /\ i <= Len(prog.order) => k <= Len(prog.code[prog.order[i]])
    /\ gen      \in [Block(prog) -> SUBSET Val]
    /\ kill     \in [Block(prog) -> SUBSET Val]
    /\ live_in  \in [Block(prog) -> SUBSET Val]
    /\ live_out \in [Block(prog) -> SUBSET Val]
    /\ changed \in BOOLEAN

(* The values block b reads before it defines them, by their definition.   *)
UpwardExposed(b) ==
    {v \in Val : \E n \in DOMAIN prog.code[b] :
        /\ v \in prog.code[b][n].ins /\ ~prog.code[b][n].pc
        /\ \A m \in 1 .. (n - 1) : v \notin prog.code[b][m].outs}

Defined(b) ==
    {v \in Val : \E n \in DOMAIN prog.code[b] : v \in prog.code[b][n].outs}

(* S, a set of live values for every block, solves the dataflow equations  *)
(* with inclusion instead of equality.                                     *)
IsSolution(S) ==
    \A b \in Block(prog) :
        /\ UpwardExposed(b) \subseteq S[b]
        /\ \A s \in Succs(prog, b) : S[s] \ Defined(b) \subseteq S[b]

(* Nothing is ever recorded live that is not: at every moment of the walk  *)
(* and of the sweeps the sets are within every solution.  (A value wrongly *)
(* live costs a register; it is never forgotten, the sets only grow.)      *)
WithinEverySolution ==
    \A S \in [Block(prog) -> SUBSET Val] :
        IsSolution(S) =>
            \A b \in Block(prog) :
                /\ live_in[b] \subseteq S[b]
                /\ live_out[b] \subseteq UNION {S[s] : s \in Succs(prog, b)}

(* When the flag lets the loop end, the sets are a solution, although the  *)
(* flag watches live_out only and live_in may have grown in the same       *)
(* sweep: every value live at a successor's entry is live at the exit, and *)
(* live through or read in the block means live at its entry.              *)
FixpointReached ==
    pc = "done" =>
        /\ IsSolution(live_in)
        /\ \A b \in Block(prog) :
             live_out[b] = UNION {live_in[s] : s \in Succs(prog, b)}

(* The definition on paths: b's live-ins are the values some path from b   *)
(* reads before it defines them.                                           *)
LiveOnSomePath(v) ==
    LET back[n \in 0 .. Len(prog.order)] ==
          IF n = 0
          THEN {b \in Block(prog) : v \in UpwardExposed(b)}
          ELSE LET before == back[n - 1]
               IN  before \cup {b \in Block(prog) :
                                  v \notin Defined(b) /\ Succs(prog, b) \cap before # {}}
    IN  back[Len(prog.order)]

ResultIsLiveness ==
    pc = "done" =>
        \A v \in Val : {b \in Block(prog) : v \in live_in[b]} = LiveOnSomePath(v)

Grows ==
    \A b \in Block(prog) : /\ live_in[b] \subseteq live_in'[b]
                           /\ live_out[b] \subseteq live_out'[b]

(* No step forgets a live value: the erase of the kill set takes out only  *)
(* what the same step put in.                                              *)
SetsOnlyGrow == [][Grows]_vars

(* The do ... while (changed) loop ends.                                   *)
Terminates == <>(pc = "done")
=============================================================================
