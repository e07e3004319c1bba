-------------------------- MODULE Liveness_proofs --------------------------
(***************************************************************************)
(* What LivenessAnalysis computes, for every program: its sets are within  *)
(* every solution of the dataflow equations at every step, and they are a  *)
(* solution themselves when the loop ends.  LocalInv and SweepInv (with    *)
(* TypeInv) say where the analysis stands: which blocks have their exact   *)
(* gen and kill, and, for the sweeps, why the "changed" flag may watch     *)
(* live_out alone.                                                         *)
(***************************************************************************)
EXTENDS Liveness, FlowGraph_proofs

(* gen and kill of block b after its first n instructions.                 *)
ExposedUpTo(b, n) ==
    {v \in Val : \E m \in 1 .. n :
        /\ v \in prog.code[b][m].ins /\ ~prog.code[b][m].pc
        /\ \A l \in 1 .. (m - 1) : v \notin prog.code[b][l].outs}

DefinedUpTo(b, n) == {v \in Val : \E m \in 1 .. n : v \in prog.code[b][m].outs}

Position == 1 .. Len(prog.order)

TypeInv ==
    /\ TypeOK
    /\ prog \in Programs
    /\ pc = "local" => i >= 1
    /\ pc # "local" => i <= Len(prog.order)

(* The block walk: done before position i, k instructions into block i.    *)
LocalInv ==
    /\ pc = "local" =>
        \A j \in Position :
            /\ j < i => /\ gen[prog.order[j]] = UpwardExposed(prog.order[j])
                        /\ kill[prog.order[j]] = Defined(prog.order[j])
            /\ j = i => /\ gen[prog.order[j]] = ExposedUpTo(prog.order[j], k)
                        /\ kill[prog.order[j]] = DefinedUpTo(prog.order[j], k)
            /\ j > i => gen[prog.order[j]] = {} /\ kill[prog.order[j]] = {}
    /\ pc # "local" =>
        \A b \in Block(prog) : gen[b] = UpwardExposed(b) /\ kill[b] = Defined(b)

NothingLive == \A b \in Block(prog) : live_in[b] = {} /\ live_out[b] = {}

(* Block b's equation for live_in.                                         *)
Balanced(b) == live_in[b] = (live_out[b] \ kill[b]) \cup gen[b]

(* Every live_out comes from some successor.                               *)
OutFromSuccessors ==
    \A b \in Block(prog) : \A v \in live_out[b] :
        \E s \in Succs(prog, b) : v \in live_in[s]

(* The first sweep.  As long as the flag is down, no block has a live_out, *)
(* and no block swept before one of its predecessors has a live_in.        *)
FirstSweep ==
    /\ \A j \in Position : j <= i => /\ live_in[prog.order[j]] = {}
                                     /\ live_out[prog.order[j]] = {}
    /\ \A j \in Position : j > i => Balanced(prog.order[j])
    /\ ~changed =>
        /\ \A j \in Position : live_out[prog.order[j]] = {}
        /\ \A j, m \in Position :
              i < j /\ j < m /\ prog.order[m] \in Succs(prog, prog.order[j])
                => live_in[prog.order[m]] = {}

(* Any later sweep.  As long as the flag is down, the blocks swept so far  *)
(* satisfy both equations.                                                 *)
LaterSweep ==
    /\ \A b \in Block(prog) : Balanced(b)
    /\ ~changed =>
        \A j \in Position : j > i =>
            \A s \in Succs(prog, prog.order[j]) :
                live_in[s] \subseteq live_out[prog.order[j]]

SweepInv ==
    /\ pc = "local" => NothingLive
    /\ pc = "global" => OutFromSuccessors /\ (FirstSweep \/ LaterSweep)
    /\ pc = "done" => FixpointReached

----------------------------------------------------------------------------
(* Membership in the union OutAfter() builds.                              *)
LEMMA OutAfterMembers ==
    ASSUME NEW out, NEW in, NEW p, NEW b
    PROVE  \A v : v \in OutAfter(out, in, p, b) <=>
                    v \in out \/ \E s \in Succs(p, b) : v \in in[s]
BY DEF OutAfter

LEMMA SequenceElements ==
    ASSUME NEW S, NEW s \in Seq(S)
    PROVE  /\ Len(s) \in Nat
           /\ DOMAIN s = 1 .. Len(s)
           /\ \A n \in 1 .. Len(s) : s[n] \in S
OBVIOUS

(* A program's blocks, successors and order fit together.                  *)
LEMMA ProgramFacts ==
    ASSUME prog \in Programs
    PROVE  /\ prog.order \in Seq(Block(prog))
           /\ Len(prog.order) \in Nat
           /\ \A j \in Position : prog.order[j] \in Block(prog)
           /\ \A b \in Block(prog) : \E j \in Position : prog.order[j] = b
           /\ \A j, m \in Position : prog.order[j] = prog.order[m] => j = m
           /\ \A b \in Block(prog) : Succs(prog, b) \subseteq Block(prog)
           /\ \A b \in Block(prog) : /\ Len(prog.code[b]) \in Nat
                                     /\ DOMAIN prog.code[b] = 1 .. Len(prog.code[b])
           /\ \A b \in Block(prog) : \A n \in 1 .. Len(prog.code[b]) :
                /\ prog.code[b][n].ins \subseteq Val
                /\ prog.code[b][n].outs \subseteq Val
                /\ prog.code[b][n].pc \in BOOLEAN
           /\ \A m \in Position :
                (\E b \in Block(prog) : prog.order[m] \in Succs(prog, b)) =>
                  \E j \in Position : j < m /\ prog.order[m] \in Succs(prog, prog.order[j])
<1>1. IsProgram(prog) /\ IsOrderOfBlocks(prog) /\ HasPredecessorBefore(prog)
  BY ProgramsAssumption
<1>2. prog.order \in Seq(Block(prog)) /\ Len(prog.order) \in Nat
      /\ DOMAIN prog.order = Position
  BY <1>1 DEF IsProgram, Position
<1>3. \A j \in Position : prog.order[j] \in Block(prog)
  BY <1>2 DEF Position
<1>4. \A b \in Block(prog) : Succs(prog, b) \subseteq Block(prog)
  <2> TAKE b \in Block(prog)
  <2>1. prog.succ[b] \in Seq(Block(prog))
    BY <1>1 DEF IsProgram
  <2> QED BY <2>1 DEF Succs
<1>5. \A b \in Block(prog) : /\ Len(prog.code[b]) \in Nat
                             /\ DOMAIN prog.code[b] = 1 .. Len(prog.code[b])
                             /\ \A n \in 1 .. Len(prog.code[b]) :
                                  /\ prog.code[b][n].ins \subseteq Val
                                  /\ prog.code[b][n].outs \subseteq Val
                                  /\ prog.code[b][n].pc \in BOOLEAN
  <2> TAKE b \in Block(prog)
  <2>1. prog.code[b] \in Seq([ins : SUBSET Val, outs : SUBSET Val, pc : BOOLEAN])
    BY <1>1 DEF IsProgram
  <2>2. \A n \in 1 .. Len(prog.code[b]) :
           prog.code[b][n] \in [ins : SUBSET Val, outs : SUBSET Val, pc : BOOLEAN]
    BY <2>1, SequenceElements
  <2>3. Len(prog.code[b]) \in Nat /\ DOMAIN prog.code[b] = 1 .. Len(prog.code[b])
    BY <2>1, SequenceElements
  <2> QED BY <2>2, <2>3
<1> QED BY <1>1, <1>2, <1>3, <1>4, <1>5 DEF IsOrderOfBlocks, HasPredecessorBefore

(* Typing: the sets are sets of values, and the indices stay in range.     *)
THEOREM TypeCorrect == Spec => [](TypeOK /\ TypeInv)
<1>1. Init => TypeInv
  <2> SUFFICES ASSUME Init PROVE TypeInv
    OBVIOUS
  <2>1. prog \in Programs /\ IsProgram(prog) /\ Len(prog.order) \in Nat
    BY ProgramsAssumption, ProgramFacts DEF Init
  <2>2. 1 <= Len(prog.order) => 0 <= Len(prog.code[prog.order[1]])
    BY <2>1, ProgramFacts DEF Position
  <2>3. i = 1 /\ k = 0 /\ pc = "local"
    BY DEF Init
  <2>4. i \in 0 .. (Len(prog.order) + 1) /\ k \in Nat
    BY <2>1, <2>3
  <2>5. /\ gen \in [Block(prog) -> SUBSET Val] /\ kill \in [Block(prog) -> SUBSET Val]
        /\ live_in \in [Block(prog) -> SUBSET Val]
        /\ live_out \in [Block(prog) -> SUBSET Val]
        /\ changed \in BOOLEAN
    BY DEF Init
  <2> QED BY <2>1, <2>2, <2>3, <2>4, <2>5 DEF TypeInv, TypeOK
<1>2. TypeInv /\ [Next]_vars => TypeInv'
  <2> SUFFICES ASSUME TypeInv, [Next]_vars PROVE TypeInv'
    OBVIOUS
  <2>0. prog \in Programs /\ IsProgram(prog) /\ Len(prog.order) \in Nat
    BY ProgramFacts DEF TypeInv, TypeOK
  <2> USE DEF TypeInv, TypeOK
  <2>1. CASE WalkInstruction
    <3> DEFINE b == prog.order[i]
               inst == prog.code[b][k + 1]
    <3>1. i \in Position /\ b \in Block(prog) /\ k \in Nat /\ k < Len(prog.code[b])
      BY <2>0, <2>1, ProgramFacts DEF WalkInstruction, Position
    <3>a. Len(prog.code[b]) \in Nat
      BY <2>0, <3>1, ProgramFacts
    <3>b. k + 1 \in 1 .. Len(prog.code[b])
      BY <3>1, <3>a
    <3>2. inst.ins \subseteq Val /\ inst.outs \subseteq Val /\ inst.pc \in BOOLEAN
      BY <2>0, <3>1, <3>b, ProgramFacts
    <3>3. GenAfter(gen[b], kill[b], inst) \subseteq Val /\ KillAfter(kill[b], inst) \subseteq Val
      BY <3>1, <3>2 DEF GenAfter, KillAfter, Reads
    <3> QED BY <2>1, <3>1, <3>a, <3>3 DEF WalkInstruction
  <2>2. CASE WalkNextBlock
    <3>1. i' \in Position => 0 <= Len(prog.code[prog.order[i']])
      BY <2>0, <2>2, ProgramFacts DEF WalkNextBlock
    <3> QED BY <2>0, <2>2, <3>1 DEF WalkNextBlock, WalkStart, Position
  <2>3. CASE StartSweeps
    <3>1. changed' \in BOOLEAN
      BY <2>3 DEF StartSweeps
    <3>2. i' \in 0 .. (Len(prog.order) + 1) /\ i' <= Len(prog.order)
      BY <2>0, <2>3 DEF StartSweeps
    <3> QED BY <2>3, <3>1, <3>2 DEF StartSweeps
  <2>4. CASE SweepBlock
    <3> DEFINE b == prog.order[i]
               out == OutAfter(live_out[b], live_in, prog, b)
    <3>1. i \in Position /\ b \in Block(prog)
      BY <2>0, <2>4, ProgramFacts DEF SweepBlock, Position
    <3>2. out \subseteq Val
      BY <2>0, <3>1, ProgramFacts, OutAfterMembers
    <3>3. InAfter(live_in[b], out, kill[b], gen[b]) \subseteq Val
      BY <3>1, <3>2 DEF InAfter
    <3>4. ChangedAfter(changed, live_out[b], out) \in BOOLEAN
      BY DEF ChangedAfter
    <3>5. live_out' \in [Block(prog) -> SUBSET Val] /\ live_in' \in [Block(prog) -> SUBSET Val]
      BY <2>4, <3>1, <3>2, <3>3 DEF SweepBlock
    <3>6. changed' \in BOOLEAN
      BY <2>4, <3>4 DEF SweepBlock
    <3> QED BY <2>0, <2>4, <3>5, <3>6 DEF SweepBlock
  <2>5. CASE SweepAgain
    <3>1. changed' \in BOOLEAN
      BY <2>5 DEF SweepAgain
    <3>2. i' \in 0 .. (Len(prog.order) + 1) /\ i' <= Len(prog.order)
      BY <2>0, <2>5 DEF SweepAgain
    <3> QED BY <2>5, <3>1, <3>2 DEF SweepAgain
  <2>6. CASE Finish
    BY <2>6 DEF Finish
  <2>7. CASE UNCHANGED vars
    BY <2>7 DEF vars
  <2> QED BY <2>1, <2>2, <2>3, <2>4, <2>5, <2>6, <2>7 DEF Next
<1>3. TypeInv => TypeOK
  BY DEF TypeInv
<1> QED BY <1>1, <1>2, <1>3, PTL DEF Spec

(* The walk over the instructions computes the gen and kill sets of their  *)
(* definition: what is read before it is defined, and what is defined.     *)
LEMMA LocalSetsExact == Spec => []LocalInv
<1>1. Init => LocalInv
  <2> SUFFICES ASSUME Init PROVE LocalInv
    OBVIOUS
  <2>1. prog \in Programs /\ pc = "local" /\ i = 1 /\ k = 0
    BY DEF Init
  <2>2. \A b \in Block(prog) : ExposedUpTo(b, 0) = {} /\ DefinedUpTo(b, 0) = {}
    BY DEF ExposedUpTo, DefinedUpTo
  <2>3. \A j \in Position : prog.order[j] \in Block(prog) /\ j >= 1 /\ j \in Nat
    BY <2>1, ProgramFacts DEF Position
  <2>4. \A j \in Position : gen[prog.order[j]] = {} /\ kill[prog.order[j]] = {}
    BY <2>3 DEF Init
  <2>5. ASSUME NEW j \in Position
        PROVE  /\ j < i => FALSE
               /\ gen[prog.order[j]] = ExposedUpTo(prog.order[j], k)
               /\ kill[prog.order[j]] = DefinedUpTo(prog.order[j], k)
    <3>1. ~(j < i)
      BY <2>1, <2>3
    <3>2. prog.order[j] \in Block(prog) /\ k = 0
      BY <2>1, <2>3
    <3>3. ExposedUpTo(prog.order[j], k) = {} /\ DefinedUpTo(prog.order[j], k) = {}
      BY <2>2, <3>2
    <3> QED BY <2>4, <3>1, <3>3
  <2>6. pc = "local"
    BY <2>1
  <2> QED BY <2>4, <2>5, <2>6 DEF LocalInv
<1>2. TypeInv /\ LocalInv /\ [Next]_vars => LocalInv'
  <2> SUFFICES ASSUME TypeInv, LocalInv, [Next]_vars PROVE LocalInv'
    OBVIOUS
  <2>0. prog \in Programs /\ Len(prog.order) \in Nat /\ i \in Int /\ k \in Nat
        /\ \A j \in Position : j \in Nat /\ prog.order[j] \in Block(prog)
    BY ProgramFacts DEF TypeInv, TypeOK, Position
  <2>1. CASE WalkInstruction
    <3> DEFINE b == prog.order[i]
               inst == prog.code[b][k + 1]
    <3>1. i \in Position /\ b \in Block(prog) /\ k < Len(prog.code[b])
          /\ pc = "local" /\ pc' = "local" /\ i' = i /\ prog' = prog /\ k' = k + 1
      BY <2>0, <2>1, ProgramFacts DEF WalkInstruction, Position, TypeInv
    <3>2. /\ gen' = [gen EXCEPT ![b] = GenAfter(gen[b], kill[b], inst)]
          /\ kill' = [kill EXCEPT ![b] = KillAfter(kill[b], inst)]
          /\ gen[b] = ExposedUpTo(b, k) /\ kill[b] = DefinedUpTo(b, k)
          /\ gen \in [Block(prog) -> SUBSET Val] /\ kill \in [Block(prog) -> SUBSET Val]
      BY <2>1, <3>1 DEF WalkInstruction, LocalInv, TypeInv, TypeOK
    <3>3. Len(prog.code[b]) \in Nat /\ k + 1 \in 1 .. Len(prog.code[b])
      BY <2>0, <3>1, ProgramFacts
    <3>4. inst.ins \subseteq Val /\ inst.outs \subseteq Val /\ inst.pc \in BOOLEAN
      BY <2>0, <3>1, <3>3, ProgramFacts
    <3>5. DefinedUpTo(b, k + 1) = KillAfter(DefinedUpTo(b, k), inst)
      <4>1. 1 .. (k + 1) = (1 .. k) \cup {k + 1}
        BY <2>0
      <4> QED BY <3>4, <4>1 DEF DefinedUpTo, KillAfter
    <3>6. ExposedUpTo(b, k + 1) = GenAfter(ExposedUpTo(b, k), DefinedUpTo(b, k), inst)
      <4>1. 1 .. (k + 1) = (1 .. k) \cup {k + 1} /\ (k + 1) - 1 = k
        BY <2>0
      <4>2. \A v \in Val : (\A l \in 1 .. k : v \notin prog.code[b][l].outs)
                          <=> v \notin DefinedUpTo(b, k)
        BY DEF DefinedUpTo
      <4>3. \A v \in Val :
              v \in ExposedUpTo(b, k + 1) <=>
                \/ v \in ExposedUpTo(b, k)
                \/ /\ v \in inst.ins /\ ~inst.pc
                   /\ \A l \in 1 .. k : v \notin prog.code[b][l].outs
        BY <4>1 DEF ExposedUpTo
      <4>4. \A v \in Val : v \in Reads(inst) <=> v \in inst.ins /\ ~inst.pc
        BY <3>4 DEF Reads
      <4>5. Reads(inst) \subseteq Val
        BY <3>4 DEF Reads
      <4>6. ExposedUpTo(b, k) \subseteq Val /\ ExposedUpTo(b, k + 1) \subseteq Val
        BY DEF ExposedUpTo
      <4> QED BY <4>2, <4>3, <4>4, <4>5, <4>6 DEF GenAfter
    <3>7. gen'[b] = ExposedUpTo(b, k + 1) /\ kill'[b] = DefinedUpTo(b, k + 1)
      BY <3>1, <3>2, <3>5, <3>6
    <3>8. \A j \in Position : j # i => /\ prog.order[j] # b
                                      /\ gen'[prog.order[j]] = gen[prog.order[j]]
                                      /\ kill'[prog.order[j]] = kill[prog.order[j]]
      BY <2>0, <3>1, <3>2, ProgramFacts
    <3>9. Position' = Position
          /\ \A c, n : ExposedUpTo(c, n)' = ExposedUpTo(c, n)
                      /\ DefinedUpTo(c, n)' = DefinedUpTo(c, n)
          /\ \A d : UpwardExposed(d)' = UpwardExposed(d) /\ Defined(d)' = Defined(d)
      BY <3>1 DEF Position, ExposedUpTo, DefinedUpTo, UpwardExposed, Defined
    <3>10. \A j \in Position :
            /\ j < i => /\ gen[prog.order[j]] = UpwardExposed(prog.order[j])
                        /\ kill[prog.order[j]] = Defined(prog.order[j])
            /\ j > i => gen[prog.order[j]] = {} /\ kill[prog.order[j]] = {}
      BY <3>1 DEF LocalInv
    <3>11. \A j \in Position :
            /\ j < i => /\ gen'[prog.order[j]] = UpwardExposed(prog.order[j])
                        /\ kill'[prog.order[j]] = Defined(prog.order[j])
            /\ j = i => /\ gen'[prog.order[j]] = ExposedUpTo(prog.order[j], k + 1)
                        /\ kill'[prog.order[j]] = DefinedUpTo(prog.order[j], k + 1)
            /\ j > i => gen'[prog.order[j]] = {} /\ kill'[prog.order[j]] = {}
      <4> TAKE j \in Position
      <4>1. CASE j = i
        BY <2>0, <3>7, <4>1
      <4>2. CASE j # i
        BY <3>8, <3>10, <4>2
      <4> QED BY <4>1, <4>2
    <3> QED BY <3>1, <3>9, <3>11 DEF LocalInv
  <2>2. CASE WalkNextBlock
    <3> DEFINE b == prog.order[i]
    <3>1. i \in Position /\ b \in Block(prog) /\ k = Len(prog.code[b])
          /\ pc = "local" /\ pc' = "local" /\ i' = i + 1 /\ k' = 0
          /\ prog' = prog /\ gen' = gen /\ kill' = kill
      BY <2>0, <2>2, ProgramFacts DEF WalkNextBlock, WalkStart, Position, TypeInv
    <3>2. DOMAIN prog.code[b] = 1 .. k
      BY <2>0, <3>1, ProgramFacts
    <3>3. ExposedUpTo(b, k) = UpwardExposed(b) /\ DefinedUpTo(b, k) = Defined(b)
      BY <3>2 DEF ExposedUpTo, UpwardExposed, DefinedUpTo, Defined
    <3>4. \A c : ExposedUpTo(c, 0) = {} /\ DefinedUpTo(c, 0) = {}
      BY DEF ExposedUpTo, DefinedUpTo
    <3>5. \A j \in Position :
            /\ j < i + 1 => gen[prog.order[j]] = UpwardExposed(prog.order[j])
                            /\ kill[prog.order[j]] = Defined(prog.order[j])
            /\ j >= i + 1 => gen[prog.order[j]] = {} /\ kill[prog.order[j]] = {}
      <4> TAKE j \in Position
      <4>1. j < i \/ j = i \/ j > i
        BY <2>0
      <4>2. CASE j < i
        BY <2>0, <3>1, <4>2 DEF LocalInv
      <4>3. CASE j = i
        BY <2>0, <3>1, <3>3, <4>3 DEF LocalInv
      <4>4. CASE j > i
        <5>1. gen[prog.order[j]] = {} /\ kill[prog.order[j]] = {}
          BY <3>1, <4>4 DEF LocalInv
        <5>2. ~(j < i + 1)
          BY <2>0, <4>4
        <5> QED BY <5>1, <5>2
      <4> QED BY <4>1, <4>2, <4>3, <4>4
    <3>6. Position' = Position
          /\ \A c, n : ExposedUpTo(c, n)' = ExposedUpTo(c, n)
                      /\ DefinedUpTo(c, n)' = DefinedUpTo(c, n)
          /\ \A d : UpwardExposed(d)' = UpwardExposed(d) /\ Defined(d)' = Defined(d)
      BY <3>1 DEF Position, ExposedUpTo, DefinedUpTo, UpwardExposed, Defined
    <3>7. \A j \in Position : j = i + 1 \/ j > i + 1 => j >= i + 1
      BY <2>0
    <3> QED BY <3>1, <3>4, <3>5, <3>6, <3>7 DEF LocalInv
  <2>3. CASE StartSweeps
    <3>1. pc = "local" /\ pc' # "local" /\ prog' = prog /\ gen' = gen /\ kill' = kill
          /\ \A j \in Position : j < i
      BY <2>0, <2>3 DEF StartSweeps, Position
    <3>2. \A b \in Block(prog) : gen[b] = UpwardExposed(b) /\ kill[b] = Defined(b)
      <4> TAKE b \in Block(prog)
      <4>1. PICK j \in Position : prog.order[j] = b
        BY <2>0, ProgramFacts
      <4> QED BY <3>1, <4>1 DEF LocalInv
    <3> QED BY <3>1, <3>2 DEF LocalInv, UpwardExposed, Defined
  <2>4. CASE SweepBlock \/ SweepAgain \/ Finish
    <3>1. pc # "local" /\ pc' # "local" /\ prog' = prog /\ gen' = gen /\ kill' = kill
      BY <2>4 DEF SweepBlock, SweepAgain, Finish
    <3> QED BY <3>1 DEF LocalInv, UpwardExposed, Defined
  <2>5. CASE UNCHANGED vars
    BY <2>5 DEF vars, LocalInv, Position, ExposedUpTo, DefinedUpTo, UpwardExposed, Defined
  <2> QED BY <2>1, <2>2, <2>3, <2>4, <2>5 DEF Next
<1> QED BY <1>1, <1>2, TypeCorrect, PTL DEF Spec

(* The facts about a sweep over one block that every invariant below uses. *)
LEMMA SweepBlockFacts ==
    ASSUME TypeInv, LocalInv, SweepBlock
    PROVE  LET b == prog.order[i] IN
           /\ prog' = prog /\ gen' = gen /\ kill' = kill /\ i' = i - 1
           /\ pc = "global" /\ pc' = "global"
           /\ i \in Position /\ b \in Block(prog)
           /\ gen[b] = UpwardExposed(b) /\ kill[b] = Defined(b)
           /\ \A c \in Block(prog) : c # b => live_in'[c] = live_in[c]
                                          /\ live_out'[c] = live_out[c]
           /\ \A v : v \in live_out'[b] <=>
                    v \in live_out[b] \/ \E s \in Succs(prog, b) : v \in live_in[s]
           /\ live_in'[b] = ((live_in[b] \cup live_out'[b]) \ kill[b]) \cup gen[b]
           /\ changed' <=> (changed \/ live_out[b] # live_out'[b])
<1> DEFINE b == prog.order[i]
           out == OutAfter(live_out[b], live_in, prog, b)
<1>1. prog' = prog /\ gen' = gen /\ kill' = kill /\ i' = i - 1
      /\ pc = "global" /\ pc' = "global"
  BY DEF SweepBlock
<1>2. i \in Position /\ b \in Block(prog)
  BY ProgramFacts DEF SweepBlock, Position, TypeInv, TypeOK
<1>3. gen[b] = UpwardExposed(b) /\ kill[b] = Defined(b)
  BY <1>1, <1>2 DEF LocalInv
<1>4. /\ live_out' = [live_out EXCEPT ![b] = out]
      /\ live_in' = [live_in EXCEPT ![b] = InAfter(live_in[b], out, kill[b], gen[b])]
      /\ live_out \in [Block(prog) -> SUBSET Val]
      /\ live_in \in [Block(prog) -> SUBSET Val]
  BY DEF SweepBlock, TypeInv, TypeOK
<1>5. changed' = ChangedAfter(changed, live_out[b], out)
  BY DEF SweepBlock
<1>6. live_out'[b] = out /\ live_in'[b] = InAfter(live_in[b], out, kill[b], gen[b])
      /\ \A c \in Block(prog) : c # b => live_in'[c] = live_in[c]
                                     /\ live_out'[c] = live_out[c]
  BY <1>2, <1>4
<1>7. \A v : v \in live_out'[b] <=>
                    v \in live_out[b] \/ \E s \in Succs(prog, b) : v \in live_in[s]
  BY <1>6, OutAfterMembers
<1>8. changed' <=> (changed \/ live_out[b] # live_out'[b])
  BY <1>5, <1>6 DEF ChangedAfter
<1> QED BY <1>1, <1>2, <1>3, <1>6, <1>7, <1>8 DEF InAfter

(* Nothing is recorded live that is not live: at every step of the walk    *)
(* and of the sweeps, the sets are within every solution of the dataflow   *)
(* equations, hence within the least one.                                  *)
THEOREM NeverTooMuch == Spec => []WithinEverySolution
<1> DEFINE Inv == WithinEverySolution /\ (pc = "local" => NothingLive)
<1>1. Init => Inv
  BY DEF Init, WithinEverySolution, NothingLive
<1>2. TypeInv /\ LocalInv /\ Inv /\ [Next]_vars => Inv'
  <2> SUFFICES ASSUME TypeInv, LocalInv, Inv, [Next]_vars PROVE Inv'
    OBVIOUS
  <2>0. \A b \in Block(prog) : Succs(prog, b) \subseteq Block(prog)
    BY ProgramFacts DEF TypeInv
  <2>1. CASE SweepBlock
    <3> DEFINE b == prog.order[i]
    <3>1. /\ prog' = prog /\ pc' = "global" /\ b \in Block(prog)
          /\ gen[b] = UpwardExposed(b) /\ kill[b] = Defined(b)
          /\ \A c \in Block(prog) : c # b => live_in'[c] = live_in[c]
                                         /\ live_out'[c] = live_out[c]
          /\ \A v : v \in live_out'[b] <=>
                    v \in live_out[b] \/ \E s \in Succs(prog, b) : v \in live_in[s]
          /\ live_in'[b] = ((live_in[b] \cup live_out'[b]) \ kill[b]) \cup gen[b]
      BY <2>1, SweepBlockFacts
    <3>2. ASSUME NEW S \in [Block(prog) -> SUBSET Val], IsSolution(S), NEW c \in Block(prog)
          PROVE  /\ live_in'[c] \subseteq S[c]
                 /\ live_out'[c] \subseteq UNION {S[s] : s \in Succs(prog, c)}
      <4>1. /\ \A d \in Block(prog) : live_in[d] \subseteq S[d]
            /\ \A d \in Block(prog) :
                 live_out[d] \subseteq UNION {S[s] : s \in Succs(prog, d)}
        BY <3>2 DEF WithinEverySolution
      <4>2. CASE c # b
        BY <3>1, <4>1, <4>2
      <4>3. CASE c = b
        <5>1. ASSUME NEW v \in live_out'[b]
              PROVE  \E s \in Succs(prog, b) : v \in S[s]
          BY <2>0, <3>1, <4>1, <5>1
        <5>2. \A s \in Succs(prog, b) : S[s] \ kill[b] \subseteq S[b]
          BY <3>1, <3>2 DEF IsSolution
        <5>3. gen[b] \subseteq S[b] /\ live_in[b] \subseteq S[b]
          BY <3>1, <3>2, <4>1 DEF IsSolution
        <5>4. live_out'[b] \ kill[b] \subseteq S[b]
          BY <5>1, <5>2
        <5> QED BY <3>1, <4>3, <5>1, <5>3, <5>4
      <4> QED BY <4>2, <4>3
    <3>3. \A c : UpwardExposed(c)' = UpwardExposed(c) /\ Defined(c)' = Defined(c)
      BY <3>1 DEF UpwardExposed, Defined
    <3>4. \A S : IsSolution(S)' => IsSolution(S)
      BY <3>1, <3>3 DEF IsSolution
    <3> QED BY <3>1, <3>2, <3>4 DEF WithinEverySolution
  <2>2. CASE WalkInstruction \/ WalkNextBlock \/ StartSweeps \/ SweepAgain \/ Finish
             \/ UNCHANGED vars
    <3>1. prog' = prog /\ live_in' = live_in /\ live_out' = live_out
          /\ (pc' = "local" => pc = "local")
      BY <2>2 DEF WalkInstruction, WalkNextBlock, StartSweeps, SweepAgain, Finish, vars
    <3>2. \A S : IsSolution(S)' <=> IsSolution(S)
      BY <3>1 DEF IsSolution, UpwardExposed, Defined
    <3> QED BY <3>1, <3>2 DEF WithinEverySolution, NothingLive
  <2> QED BY <2>1, <2>2 DEF Next
<1> QED BY <1>1, <1>2, TypeCorrect, LocalSetsExact, PTL DEF Spec

(* A block's live_in never shrinks over a sweep: it is empty before the    *)
(* first one reaches the block, and balanced afterwards.                   *)
LEMMA LiveInGrows ==
    ASSUME TypeInv, LocalInv, SweepInv, SweepBlock
    PROVE  \A c \in Block(prog) : /\ live_in[c] \subseteq live_in'[c]
                                 /\ live_out[c] \subseteq live_out'[c]
<1> DEFINE b == prog.order[i]
<1>1. /\ b \in Block(prog) /\ i \in Position /\ pc = "global"
      /\ \A c \in Block(prog) : c # b => live_in'[c] = live_in[c]
                                     /\ live_out'[c] = live_out[c]
      /\ live_out[b] \subseteq live_out'[b]
      /\ live_in'[b] = ((live_in[b] \cup live_out'[b]) \ kill[b]) \cup gen[b]
  BY SweepBlockFacts
<1>2. live_in[b] = {} \/ Balanced(b)
  <2>1. i \in Int /\ i <= i
    BY <1>1 DEF TypeInv, TypeOK
  <2> QED BY <1>1, <2>1 DEF SweepInv, FirstSweep, LaterSweep
<1>3. live_in[b] \subseteq live_in'[b]
  BY <1>1, <1>2 DEF Balanced
<1> QED BY <1>1, <1>3

(* When a sweep ends with the flag down, both equations hold everywhere.   *)
LEMMA FixpointAtEnd ==
    ASSUME TypeInv, LocalInv, SweepInv, Finish
    PROVE  FixpointReached'
<1>1. pc = "global" /\ i = 0 /\ ~changed /\ prog \in Programs
      /\ prog' = prog /\ live_in' = live_in /\ live_out' = live_out
  BY DEF Finish, Repeat, TypeInv
<1>2. \A j \in Position : j > i /\ j \in Nat
  BY <1>1 DEF Position
<1>3. \A b \in Block(prog) : \E j \in Position : prog.order[j] = b
  BY <1>1, ProgramFacts
<1>4. \A b \in Block(prog) : Balanced(b)
  <2>1. CASE FirstSweep
    BY <1>2, <1>3, <2>1 DEF FirstSweep
  <2>2. CASE LaterSweep
    BY <2>2 DEF LaterSweep
  <2> QED BY <1>1, <2>1, <2>2 DEF SweepInv
<1>5. \A b \in Block(prog) : \A s \in Succs(prog, b) : live_in[s] \subseteq live_out[b]
  <2>1. CASE FirstSweep
    <3> SUFFICES ASSUME NEW b \in Block(prog), NEW s \in Succs(prog, b)
                 PROVE  live_in[s] = {}
      OBVIOUS
    <3>1. s \in Block(prog)
      BY <1>1, ProgramFacts
    <3>2. PICK m \in Position : prog.order[m] = s
      BY <1>3, <3>1
    <3>3. PICK j \in Position : j < m /\ s \in Succs(prog, prog.order[j])
      BY <1>1, <3>2, ProgramFacts
    <3> QED BY <1>1, <1>2, <2>1, <3>2, <3>3 DEF FirstSweep
  <2>2. CASE LaterSweep
    BY <1>1, <1>2, <1>3, <2>2 DEF LaterSweep
  <2> QED BY <1>1, <2>1, <2>2 DEF SweepInv
<1>6. \A b \in Block(prog) : live_out[b] = UNION {live_in[s] : s \in Succs(prog, b)}
  BY <1>1, <1>5 DEF SweepInv, OutFromSuccessors
<1>7. IsSolution(live_in)
  <2> SUFFICES ASSUME NEW b \in Block(prog)
               PROVE  /\ UpwardExposed(b) \subseteq live_in[b]
                      /\ \A s \in Succs(prog, b) : live_in[s] \ Defined(b) \subseteq live_in[b]
    BY DEF IsSolution
  <2>1. gen[b] = UpwardExposed(b) /\ kill[b] = Defined(b)
    BY <1>1 DEF LocalInv
  <2> QED BY <1>4, <1>5, <2>1 DEF Balanced
<1>8. IsSolution(live_in)'
  BY <1>1, <1>7 DEF IsSolution, UpwardExposed, Defined
<1> QED BY <1>1, <1>6, <1>8 DEF FixpointReached

(* One block of a sweep keeps FirstSweep \/ LaterSweep.                    *)
LEMMA SweepBlockKeepsSweepInv ==
    ASSUME TypeInv, LocalInv, SweepInv, SweepBlock
    PROVE  SweepInv'
<1>0. PICK b : b = prog.order[i]
  OBVIOUS
<1>1. /\ prog' = prog /\ gen' = gen /\ kill' = kill /\ i' = i - 1
      /\ pc = "global" /\ pc' = "global"
      /\ i \in Position /\ b \in Block(prog) /\ b = prog.order[i]
      /\ \A c \in Block(prog) : c # b => live_in'[c] = live_in[c]
                                     /\ live_out'[c] = live_out[c]
      /\ \A v : v \in live_out'[b] <=>
              v \in live_out[b] \/ \E s \in Succs(prog, b) : v \in live_in[s]
      /\ live_in'[b] = ((live_in[b] \cup live_out'[b]) \ kill[b]) \cup gen[b]
      /\ changed' <=> (changed \/ live_out[b] # live_out'[b])
  BY <1>0, SweepBlockFacts
<1>2. /\ i \in Int /\ \A j \in Position : j \in Int
      /\ \A j \in Position : prog.order[j] \in Block(prog)
      /\ \A j \in Position : j # i => prog.order[j] # b
      /\ \A c \in Block(prog) : Succs(prog, c) \subseteq Block(prog)
      /\ Position' = Position
  BY <1>1, ProgramFacts DEF TypeInv, TypeOK, Position
<1>3. \A c \in Block(prog) : live_in[c] \subseteq live_in'[c]
  BY LiveInGrows
<1>4. OutFromSuccessors'
  <2> SUFFICES ASSUME NEW c \in Block(prog), NEW v \in live_out'[c]
               PROVE  \E s \in Succs(prog, c) : v \in live_in'[s]
    BY <1>1 DEF OutFromSuccessors
  <2>1. OutFromSuccessors
    BY <1>1 DEF SweepInv
  <2>2. \E s \in Succs(prog, c) : v \in live_in[s]
    <3>1. CASE c = b
      BY <1>1, <2>1, <3>1 DEF OutFromSuccessors
    <3>2. CASE c # b
      BY <1>1, <2>1, <3>2 DEF OutFromSuccessors
    <3> QED BY <3>1, <3>2
  <2> QED BY <1>2, <1>3, <2>2
<1>5. (live_in[b] = {} /\ live_out[b] = {}) \/ Balanced(b) => Balanced(b)'
  BY <1>1 DEF Balanced
<1>6. \A c \in Block(prog) : c # b => (Balanced(c)' <=> Balanced(c))
  BY <1>1 DEF Balanced
<1>7. CASE FirstSweep
  <2>1. live_in[b] = {} /\ live_out[b] = {}
    BY <1>1, <1>2, <1>7 DEF FirstSweep
  <2>2. \A j \in Position : j <= i - 1 => /\ live_in'[prog.order[j]] = {}
                                         /\ live_out'[prog.order[j]] = {}
    BY <1>1, <1>2, <1>7 DEF FirstSweep
  <2>3. \A j \in Position : j > i - 1 => Balanced(prog.order[j])'
    <3> SUFFICES ASSUME NEW j \in Position, j > i - 1 PROVE Balanced(prog.order[j])'
      OBVIOUS
    <3>0. PICK c : c = prog.order[j] /\ c = prog'.order[j] /\ c \in Block(prog)
      BY <1>1, <1>2
    <3>1. CASE j = i
      <4>1. c = b
        BY <1>1, <3>0, <3>1
      <4> QED BY <1>5, <2>1, <3>0, <4>1 DEF Balanced
    <3>2. CASE j # i
      <4>a. j > i
        BY <1>2, <3>2
      <4>b. c # b
        BY <1>2, <3>0, <3>2
      <4>1. j > i /\ c # b
        BY <4>a, <4>b
      <4>2. Balanced(c)
        BY <1>7, <3>0, <4>1 DEF FirstSweep
      <4> QED BY <1>6, <3>0, <4>1, <4>2 DEF Balanced
    <3> QED BY <3>1, <3>2
  <2>4. ASSUME ~changed'
        PROVE  /\ \A j \in Position : live_out'[prog.order[j]] = {}
               /\ \A j, m \in Position :
                    i - 1 < j /\ j < m /\ prog.order[m] \in Succs(prog, prog.order[j])
                      => live_in'[prog.order[m]] = {}
    <3>1. ~changed /\ live_out'[b] = {}
      BY <1>1, <2>1, <2>4
    <3>2. \A j \in Position : live_out'[prog.order[j]] = {}
      BY <1>1, <1>2, <1>7, <3>1 DEF FirstSweep
    <3>3. ASSUME NEW j \in Position, NEW m \in Position, i - 1 < j, j < m,
                 prog.order[m] \in Succs(prog, prog.order[j])
          PROVE  live_in'[prog.order[m]] = {}
      <4>1. m # i /\ live_in'[prog.order[m]] = live_in[prog.order[m]]
        BY <1>1, <1>2, <3>3
      <4>2. CASE j = i
        BY <1>1, <3>1, <3>3, <4>1, <4>2
      <4>3. CASE j # i
        <5>1. i < j
          BY <1>2, <3>3, <4>3
        <5> QED BY <1>7, <3>1, <3>3, <4>1, <5>1 DEF FirstSweep
      <4> QED BY <4>2, <4>3
    <3> QED BY <3>2, <3>3
  <2>5. FirstSweep'
    BY <1>1, <1>2, <2>2, <2>3, <2>4 DEF FirstSweep
  <2> QED BY <1>1, <1>4, <2>5 DEF SweepInv
<1>8. CASE LaterSweep
  <2>1. \A c \in Block(prog) : Balanced(c)'
    BY <1>5, <1>6, <1>8 DEF LaterSweep
  <2>2. ASSUME ~changed', NEW j \in Position, j > i - 1,
               NEW s \in Succs(prog, prog.order[j])
        PROVE  live_in'[s] \subseteq live_out'[prog.order[j]]
    <3>1. ~changed /\ live_out'[b] = live_out[b]
      BY <1>1, <2>2
    <3>2. Balanced(b)
      BY <1>1, <1>8 DEF LaterSweep
    <3>3. live_in'[b] = live_in[b]
      BY <1>1, <3>1, <3>2 DEF Balanced
    <3>4. s \in Block(prog) /\ live_in'[s] = live_in[s]
      BY <1>1, <1>2, <2>2, <3>3
    <3>5. CASE j = i
      BY <1>1, <2>2, <3>4, <3>5
    <3>6. CASE j # i
      <4>1. j > i
        BY <1>2, <2>2, <3>6
      <4> QED BY <1>1, <1>2, <1>8, <2>2, <3>1, <3>4, <3>6, <4>1 DEF LaterSweep
    <3> QED BY <3>5, <3>6
  <2>3. LaterSweep'
    BY <1>1, <1>2, <2>1, <2>2 DEF LaterSweep
  <2> QED BY <1>1, <1>4, <2>3 DEF SweepInv
<1> QED BY <1>1, <1>7, <1>8 DEF SweepInv

(* Where the sweeps stand, in every reachable state.                       *)
LEMMA SweepsInvariant == Spec => []SweepInv
<1>1. Init => SweepInv
  BY DEF Init, SweepInv, NothingLive
<1>2. TypeInv /\ LocalInv /\ SweepInv /\ [Next]_vars => SweepInv'
  <2> SUFFICES ASSUME TypeInv, LocalInv, SweepInv, [Next]_vars PROVE SweepInv'
    OBVIOUS
  <2>1. CASE WalkInstruction \/ WalkNextBlock
    BY <2>1 DEF WalkInstruction, WalkNextBlock, SweepInv, NothingLive
  <2>2. CASE StartSweeps
    <3>1. pc = "local" /\ pc' = "global" /\ i' = Len(prog.order) /\ prog' = prog
          /\ live_in' = live_in /\ live_out' = live_out /\ NothingLive
      BY <2>2 DEF StartSweeps, SweepInv
    <3>2. OutFromSuccessors'
      BY <3>1 DEF OutFromSuccessors, NothingLive
    <3>3. \A j \in Position : /\ prog.order[j] \in Block(prog)
                             /\ ~(j > i') /\ j \in Int /\ i' \in Int
      BY <3>1, ProgramFacts DEF Position, TypeInv
    <3>4. Position' = Position
      BY <3>1 DEF Position
    <3>5. FirstSweep'
      <4>1. \A j \in Position : /\ live_in[prog.order[j]] = {}
                               /\ live_out[prog.order[j]] = {}
        BY <3>1, <3>3 DEF NothingLive
      <4> QED BY <3>1, <3>3, <3>4, <4>1 DEF FirstSweep
    <3> QED BY <3>1, <3>2, <3>5 DEF SweepInv
  <2>3. CASE SweepBlock
    BY <2>3, SweepBlockKeepsSweepInv
  <2>4. CASE SweepAgain
    <3>1. pc = "global" /\ i = 0 /\ i' = Len(prog.order) /\ changed' = FALSE
          /\ pc' = pc /\ prog' = prog /\ live_in' = live_in /\ live_out' = live_out
          /\ gen' = gen /\ kill' = kill
      BY <2>4 DEF SweepAgain
    <3>2. OutFromSuccessors'
      BY <3>1 DEF SweepInv, OutFromSuccessors
    <3>3. \A b \in Block(prog) : Balanced(b)
      <4>1. CASE FirstSweep
        BY <3>1, <4>1, ProgramFacts DEF FirstSweep, TypeInv, Position
      <4>2. CASE LaterSweep
        BY <4>2 DEF LaterSweep
      <4> QED BY <3>1, <4>1, <4>2 DEF SweepInv
    <3>4. \A j \in Position' : ~(j > i')
      BY <3>1, ProgramFacts DEF Position, TypeInv
    <3>5. LaterSweep'
      BY <3>1, <3>3, <3>4 DEF LaterSweep, Balanced
    <3> QED BY <3>1, <3>2, <3>5 DEF SweepInv
  <2>5. CASE Finish
    BY <2>5, FixpointAtEnd DEF Finish, SweepInv
  <2>6. CASE UNCHANGED vars
    BY <2>6 DEF vars, SweepInv, NothingLive, OutFromSuccessors, FirstSweep, LaterSweep,
                Balanced, Position, FixpointReached, IsSolution, UpwardExposed, Defined
  <2> QED BY <2>1, <2>2, <2>3, <2>4, <2>5, <2>6 DEF Next
<1> QED BY <1>1, <1>2, TypeCorrect, LocalSetsExact, PTL DEF Spec

(* When compute_global_live_set() ends, its sets solve the dataflow        *)
(* equations, although the flag watches live_out only.  With NeverTooMuch: *)
(* the result is the least solution, for every program.                    *)
THEOREM EndsAtFixpoint == Spec => []FixpointReached
<1>1. SweepInv => FixpointReached
  BY DEF SweepInv, FixpointReached
<1> QED BY <1>1, SweepsInvariant, PTL

(* The sets only grow, block by block and step by step.                    *)
THEOREM NothingForgotten == Spec => SetsOnlyGrow
<1>1. TypeInv /\ LocalInv /\ SweepInv /\ [Next]_vars =>
        [Grows]_vars
  BY LiveInGrows DEF Next, WalkInstruction, WalkNextBlock, StartSweeps, SweepAgain, Finish, Grows
<1> QED BY <1>1, SweepsInvariant, TypeCorrect, LocalSetsExact, PTL
        DEF Spec, SetsOnlyGrow
----------------------------------------------------------------------------
(* The blocks v is live into by a path of up to n blocks: those that read  *)
(* it first, and those that leave it alone and branch to one of them.      *)
ReadsFirst(v) == {b \in Block(prog) : v \in UpwardExposed(b)}

Backward(v, X) ==
    X \cup {b \in Block(prog) : v \notin Defined(b) /\ Succs(prog, b) \cap X # {}}

IsBack(v, f, n) ==
    f = [m \in 0 .. n |-> IF m = 0 THEN ReadsFirst(v) ELSE Backward(v, f[m - 1])]

(* There is such a sequence of sets, of any length.                        *)
LEMMA BackExists ==
  ASSUME NEW v, NEW n \in Nat
  PROVE  \E f : IsBack(v, f, n)
<1> DEFINE T == {m \in Nat : ~ \E f : IsBack(v, f, m)}
<1> SUFFICES ASSUME T # {} PROVE FALSE
  OBVIOUS
<1>1. PICK m \in T : \A l \in T : m <= l
  BY LeastNat
<1>2. m \in Nat /\ ~ \E f : IsBack(v, f, m)
  OBVIOUS
<1>3. CASE m = 0
  <2> DEFINE f == [l \in 0 .. 0 |-> ReadsFirst(v)]
  <2>1. IsBack(v, f, 0)
    BY DEF IsBack
  <2>. QED BY <1>2, <1>3, <2>1
<1>4. CASE m # 0
  <2>1. m - 1 \in Nat /\ m - 1 \notin T
    BY <1>1, <1>2, <1>4
  <2>2. PICK f : IsBack(v, f, m - 1)
    BY <2>1
  <2> DEFINE h == [l \in 0 .. m |-> IF l = m THEN Backward(v, f[m - 1]) ELSE f[l]]
  <2>3. ASSUME NEW l \in 0 .. m
        PROVE  h[l] = IF l = 0 THEN ReadsFirst(v) ELSE Backward(v, h[l - 1])
    <3>1. CASE l = m
      <4>1. h[l - 1] = f[m - 1] /\ h[l] = Backward(v, f[m - 1])
        BY <3>1, <1>2, <1>4
      <4>. QED BY <3>1, <4>1, <1>4
    <3>2. CASE l # m
      <4>1. h[l] = f[l] /\ l \in 0 .. m - 1
        BY <3>2, <1>2
      <4>2. f[l] = IF l = 0 THEN ReadsFirst(v) ELSE Backward(v, f[l - 1])
        BY <4>1, <2>2 DEF IsBack
      <4>3. l # 0 => h[l - 1] = f[l - 1]
        BY <4>1, <1>2
      <4>. QED BY <4>1, <4>2, <4>3
    <3>. QED BY <3>1, <3>2
  <2>4. IsBack(v, h, m)
    BY <2>3 DEF IsBack
  <2>. QED BY <1>2, <2>4
<1>. QED BY <1>3, <1>4

(* Every block is in the order once: there are Len(prog.order) blocks.     *)
LEMMA BlocksCounted ==
  ASSUME prog \in Programs
  PROVE  IsFiniteSet(Block(prog)) /\ Cardinality(Block(prog)) = Len(prog.order)
<1> DEFINE n == Len(prog.order)
           f == [j \in 1 .. n |-> prog.order[j]]
<1>1. /\ n \in Nat
      /\ \A j \in 1 .. n : prog.order[j] \in Block(prog)
      /\ \A b \in Block(prog) : \E j \in 1 .. n : prog.order[j] = b
      /\ \A j, m \in 1 .. n : prog.order[j] = prog.order[m] => j = m
  BY ProgramFacts DEF Position
<1>2. f \in Bijection(1 .. n, Block(prog))
  BY <1>1 DEF Bijection, Injection, Surjection, IsInjective
<1>3. IsFiniteSet(1 .. n) /\ Cardinality(1 .. n) = n
  BY <1>1, FS_Interval
<1>4. ExistsBijection(1 .. n, Block(prog))
  BY <1>2 DEF ExistsBijection
<1> HIDE DEF n
<1>5. IsFiniteSet(Block(prog)) /\ Cardinality(Block(prog)) = Cardinality(1 .. n)
  BY <1>3, <1>4, FS_Bijection
<1>. QED BY <1>3, <1>5 DEF n

(* Liveness on paths solves the dataflow equations: after as many steps as *)
(* there are blocks nothing is added.                                      *)
LEMMA PathsSolve ==
  ASSUME prog \in Programs, NEW v
  PROVE  /\ ReadsFirst(v) \subseteq LiveOnSomePath(v)
         /\ LiveOnSomePath(v) \subseteq Block(prog)
         /\ Backward(v, LiveOnSomePath(v)) = LiveOnSomePath(v)
<1> DEFINE C == Len(prog.order)
           f == CHOOSE f : IsBack(v, f, C)
<1>1. C \in Nat /\ IsFiniteSet(Block(prog)) /\ Cardinality(Block(prog)) = C
  BY BlocksCounted, ProgramFacts
<1>2. IsBack(v, f, C)
  BY <1>1, BackExists
<1>3. LiveOnSomePath(v) = f[C]
  BY DEF LiveOnSomePath, IsBack, ReadsFirst, Backward
<1> HIDE DEF C, f
<1>4. f[0] = ReadsFirst(v) /\ \A m \in 1 .. C : f[m] = Backward(v, f[m - 1])
  <2>1. f[0] = ReadsFirst(v)
    BY <1>1, <1>2 DEF IsBack
  <2>2. ASSUME NEW m \in 1 .. C PROVE f[m] = Backward(v, f[m - 1])
    <3>1. m \in 0 .. C /\ m # 0
      BY <1>1
    <3>. QED BY <1>2, <3>1 DEF IsBack
  <2>. QED BY <2>1, <2>2
<1>5. \A X \in SUBSET Block(prog) : Backward(v, X) \in SUBSET Block(prog) /\ X \subseteq Backward(v, X)
  BY DEF Backward
<1> DEFINE Good(m) == ReadsFirst(v) \subseteq f[m] /\ f[m] \subseteq Block(prog)
           T == {m \in 0 .. C : ~ Good(m)}
<1>6. T = {}
  <2> SUFFICES ASSUME T # {} PROVE FALSE
    OBVIOUS
  <2>1. PICK m \in T : \A l \in T : m <= l
    <3>1. T \in SUBSET Nat
      BY <1>1
    <3>. QED BY <3>1, LeastNat
  <2>2. m \in 0 .. C /\ m # 0
    BY <1>4 DEF ReadsFirst
  <2>3. m - 1 \in 0 .. C /\ m - 1 \notin T /\ m \in 1 .. C
    BY <1>1, <2>1, <2>2
  <2>4. ~ Good(m) /\ Good(m - 1)
    BY <2>3
  <2>5. f[m] = Backward(v, f[m - 1])
    BY <1>4, <2>3
  <2>. QED BY <1>5, <2>4, <2>5
<1>7. \A m \in 0 .. C : Good(m)
  BY <1>6
<1>8. ASSUME NEW m \in 1 .. C PROVE f[m - 1] \subseteq f[m]
  <2>1. m - 1 \in 0 .. C
    BY <1>1
  <2>. QED BY <1>4, <1>5, <1>7, <2>1
<1>9. \E j \in 0 .. C : Backward(v, f[j]) = f[j]
  <2>1. CASE f[0] = {}
    <3>1. Backward(v, f[0]) = f[0]
      BY <2>1 DEF Backward
    <3>. QED BY <1>1, <3>1
  <2>2. CASE f[0] # {}
    <3>1. PICK j \in 0 .. C - 1 : f[j + 1] = f[j]
      BY <1>1, <1>7, <1>8, <2>2, GrowingStops
    <3>2. j + 1 \in 1 .. C /\ (j + 1) - 1 = j /\ j \in 0 .. C
      BY <1>1
    <3>. QED BY <1>4, <3>1, <3>2
  <2>. QED BY <2>1, <2>2
<1>10. PICK j \in 0 .. C : Backward(v, f[j]) = f[j]
  BY <1>9
<1> DEFINE U == {m \in j .. C : f[m] # f[j]}
<1>11. U = {}
  <2> SUFFICES ASSUME U # {} PROVE FALSE
    OBVIOUS
  <2>1. PICK m \in U : \A l \in U : m <= l
    <3>1. U \in SUBSET Nat
      BY <1>1
    <3>. QED BY <3>1, LeastNat
  <2>2. m \in j .. C /\ m # j /\ f[m] # f[j]
    OBVIOUS
  <2>3. m - 1 \in j .. C /\ m - 1 \notin U /\ m \in 1 .. C
    BY <1>1, <2>1, <2>2
  <2>4. f[m - 1] = f[j]
    BY <2>3
  <2>. QED BY <1>4, <1>10, <2>2, <2>3, <2>4
<1>12. C \in 0 .. C /\ C \in j .. C
  BY <1>1
<1>13. f[C] = f[j]
  BY <1>11, <1>12
<1>. QED BY <1>3, <1>7, <1>10, <1>12, <1>13

(* A block some path from which reads v first is one where v is live by    *)
(* any solution.                                                           *)
LEMMA PathsWithin ==
  ASSUME prog \in Programs, NEW S, IsSolution(S), NEW v
  PROVE  \A b \in LiveOnSomePath(v) : v \in S[b]
<1> DEFINE C == Len(prog.order)
           f == CHOOSE f : IsBack(v, f, C)
<1>1. C \in Nat
  BY ProgramFacts
<1>2. IsBack(v, f, C)
  BY <1>1, BackExists
<1>3. LiveOnSomePath(v) = f[C]
  BY DEF LiveOnSomePath, IsBack, ReadsFirst, Backward
<1> HIDE DEF C, f
<1> DEFINE T == {m \in 0 .. C : ~ \A b \in f[m] : v \in S[b]}
<1>4. T = {}
  <2> SUFFICES ASSUME T # {} PROVE FALSE
    OBVIOUS
  <2>1. PICK m \in T : \A l \in T : m <= l
    <3>1. T \in SUBSET Nat
      BY <1>1
    <3>. QED BY <3>1, LeastNat
  <2>2. m \in 0 .. C /\ ~ \A b \in f[m] : v \in S[b]
    OBVIOUS
  <2>3. CASE m = 0
    <3>1. f[0] = ReadsFirst(v)
      BY <1>1, <1>2 DEF IsBack
    <3>. QED BY <2>2, <2>3, <3>1 DEF ReadsFirst, IsSolution
  <2>4. CASE m # 0
    <3>1. m - 1 \in 0 .. C /\ m - 1 \notin T
      BY <1>1, <2>1, <2>2, <2>4
    <3>2. \A b \in f[m - 1] : v \in S[b]
      BY <3>1
    <3>3. f[m] = Backward(v, f[m - 1])
      BY <1>1, <1>2, <2>2, <2>4 DEF IsBack
    <3>4. ASSUME NEW b \in f[m] PROVE v \in S[b]
      BY <3>2, <3>3 DEF Backward, IsSolution
    <3>. QED BY <2>2, <3>4
  <2>. QED BY <2>3, <2>4
<1>. QED BY <1>1, <1>3, <1>4

(* The result is liveness: for every program, a value is in a block's      *)
(* live_in exactly if some path from the block reads it before it defines  *)
(* it, a parallel copy's inputs not counted.                               *)
THEOREM ResultIsExact == Spec => []ResultIsLiveness
<1>1. TypeInv /\ WithinEverySolution /\ FixpointReached => ResultIsLiveness
  <2> SUFFICES ASSUME TypeInv, WithinEverySolution, FixpointReached, pc = "done", NEW v \in Val
               PROVE  {b \in Block(prog) : v \in live_in[b]} = LiveOnSomePath(v)
    BY DEF ResultIsLiveness
  <2>1. prog \in Programs /\ IsSolution(live_in)
    BY DEF TypeInv, FixpointReached
  <2>2. \A b \in LiveOnSomePath(v) : v \in live_in[b] /\ b \in Block(prog)
    BY <2>1, PathsWithin, PathsSolve
  <2> DEFINE S == [b \in Block(prog) |-> {w \in Val : b \in LiveOnSomePath(w)}]
  <2>3. S \in [Block(prog) -> SUBSET Val]
    OBVIOUS
  <2>4. \A b \in Block(prog) : \A w \in Val : w \in S[b] <=> b \in LiveOnSomePath(w)
    OBVIOUS
  <2> HIDE DEF S
  <2>5. IsSolution(S)
    <3> SUFFICES ASSUME NEW b \in Block(prog)
                 PROVE  /\ UpwardExposed(b) \subseteq S[b]
                        /\ \A s \in Succs(prog, b) : S[s] \ Defined(b) \subseteq S[b]
      BY DEF IsSolution
    <3>1. ASSUME NEW w \in UpwardExposed(b) PROVE w \in S[b]
      <4>1. w \in Val /\ b \in ReadsFirst(w)
        BY DEF UpwardExposed, ReadsFirst
      <4>. QED BY <2>1, <2>4, <4>1, PathsSolve
    <3>2. ASSUME NEW s \in Succs(prog, b), NEW w \in S[s], w \notin Defined(b) PROVE w \in S[b]
      <4>1. s \in Block(prog)
        BY <2>1, ProgramFacts
      <4>2. w \in Val /\ s \in LiveOnSomePath(w)
        BY <2>3, <2>4, <4>1
      <4>3. b \in Backward(w, LiveOnSomePath(w))
        BY <3>2, <4>2 DEF Backward
      <4>. QED BY <2>1, <2>4, <4>2, <4>3, PathsSolve
    <3>. QED BY <3>1, <3>2
  <2>6. \A b \in Block(prog) : live_in[b] \subseteq S[b]
    BY <2>3, <2>5 DEF WithinEverySolution
  <2>. QED BY <2>2, <2>4, <2>6
<1>. QED BY <1>1, TypeCorrect, NeverTooMuch, EndsAtFixpoint, PTL
=============================================================================
