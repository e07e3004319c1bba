---------------------------- MODULE LIRFunction ----------------------------
(***************************************************************************)
(* A lowered function as the register allocator sees it.  A function is a  *)
(* record                                                                  *)
(*   succ    block -> sequence of successors                               *)
(*   order   the cached preorder of the blocks                             *)
(*   code    block -> sequence of instructions, each a record              *)
(*             outs       the set of values it defines                     *)
(*             ins        the sequence of values it reads                  *)
(*             kind       "call", "div" (idiv), "pcopy" (a lowered phi) or *)
(*                        "plain"                                          *)
(*             temps      class -> temporal registers its emitter needs    *)
(*   args    the arguments, defined before the first instruction           *)
(*   gens    the stack slots (gen), which need no register:                *)
(*           value -> [size, align]                                        *)
(*   floats  the values that live in xmm registers                         *)
(*   copies  the values defined by copy instructions (copy_v)              *)
(*   fixed   value -> register, for the values lowering gave one           *)
(*   live_in the cached result of LivenessAnalysis, block -> values        *)
(* Values are in SSA form.  The reference notions below are about program  *)
(* points and know nothing of intervals.                                   *)
(***************************************************************************)
EXTENDS Integers, Sequences, FiniteSets, SequencesExt

(* f, and g where f is undefined (emplace() into a map).                   *)
Extended(f, g) == [x \in DOMAIN f \cup DOMAIN g |-> IF x \in DOMAIN f THEN f[x] ELSE g[x]]

(* The elements of a sequence that are in a set, in their order.           *)
Selected(seq, set) ==
    FlattenSeq([n \in 1 .. Len(seq) |-> IF seq[n] \in set THEN <<seq[n]>> ELSE <<>>])

Block(f) == DOMAIN f.succ

Succs(f, b) == Range(f.succ[b])

Instructions(f) == UNION {{<<b, n>> : n \in DOMAIN f.code[b]} : b \in Block(f)}

Inst(f, at) == f.code[at[1]][at[2]]

Reads(inst) == Range(inst.ins)

DefinedIn(f, b) == UNION {f.code[b][n].outs : n \in DOMAIN f.code[b]}

Vals(f) == f.args \cup UNION {DefinedIn(f, b) : b \in Block(f)}

(* Instruction numbers: 1 .. for the instructions in the order of blocks.  *)
NumbersUpTo(f) ==
    LET count[k \in 0 .. Len(f.order)] ==
          IF k = 0 THEN 0 ELSE count[k - 1] + Len(f.code[f.order[k]])
    IN  count

PlaceInOrder(f, b) == CHOOSE k \in DOMAIN f.order : f.order[k] = b

FirstNumber(f, b) == NumbersUpTo(f)[PlaceInOrder(f, b) - 1] + 1

NumberAt(f, at) == FirstNumber(f, at[1]) + at[2] - 1

DefinitionOf(f, v) == CHOOSE at \in Instructions(f) : v \in Inst(f, at).outs

Exposed(f, b) ==
    {v \in Vals(f) : \E n \in DOMAIN f.code[b] :
        /\ v \in Reads(f.code[b][n]) /\ f.code[b][n].kind # "pcopy"
        /\ \A m \in 1 .. (n - 1) : v \notin f.code[b][m].outs}

(* The live-in sets LivenessAnalysis ends with (Liveness!ResultIsLiveness):*)
(* what some path reads before it defines it, a parallel copy's inputs not *)
(* counted.                                                                *)
LiveIns(f) ==
    LET read == UNION {{<<b, v>> : v \in Exposed(f, b)} : b \in Block(f)}
        passed == UNION {{<<b, v>> : v \in Vals(f) \ DefinedIn(f, b)} : b \in Block(f)}
        back[n \in Nat] ==
          IF n = 0 THEN read
          ELSE LET known == back[n - 1]
               IN  known \cup {at \in passed : \E s \in Succs(f, at[1]) : <<s, at[2]>> \in known}
        live == back[Cardinality(Block(f))]
    IN  [b \in Block(f) |-> {at[2] : at \in {x \in live : x[1] = b}}]

LiveOut(f, b) == UNION {f.live_in[s] : s \in Succs(f, b)}

(* A copy the lowering put before b's terminator for a parallel copy of a  *)
(* successor: it is read on the edge.                                      *)
ReadOnEdge(f, b) ==
    DefinedIn(f, b) \cap
        UNION {UNION {Reads(f.code[s][n]) : n \in {m \in DOMAIN f.code[s] :
                                                     f.code[s][m].kind = "pcopy"}} :
               s \in Succs(f, b)}

PhisOf(f, b) ==
    UNION {f.code[b][n].outs : n \in {m \in DOMAIN f.code[b] :
                                        f.code[b][m].kind = "pcopy"}}

(* The values whose registers still matter once instruction n of b has run *)
(* (n = 0: at the entry of b, where its parallel copies take effect).      *)
HeldAfter(f, b, n) ==
    LET here  == f.live_in[b] \cup PhisOf(f, b)
                 \cup (UNION {f.code[b][m].outs : m \in 1 .. n})
                 \cup (IF b = f.order[1] THEN f.args ELSE {})
        later == LiveOut(f, b) \cup ReadOnEdge(f, b)
                 \cup UNION {Reads(f.code[b][m]) :
                               m \in {j \in (n + 1) .. Len(f.code[b]) :
                                        f.code[b][j].kind # "pcopy"}}
    IN  here \cap later

(* What instruction n of b writes (n = 0: the phis, on entry).             *)
Writes(f, b, n) == IF n = 0 THEN PhisOf(f, b)
                   ELSE IF f.code[b][n].kind = "pcopy" THEN {} ELSE f.code[b][n].outs

(* Writing p[1] destroys p[2] if they share a register.                    *)
Overwrites(f, b, n) ==
    {p \in Writes(f, b, n) \X (HeldAfter(f, b, n) \cup Writes(f, b, n)) :
        p[1] # p[2]}

(* The pairs of values that must not share a register.                     *)
Interferences(f) ==
    UNION {UNION {Overwrites(f, b, n) : n \in 0 .. Len(f.code[b])} : b \in Block(f)}
=============================================================================
