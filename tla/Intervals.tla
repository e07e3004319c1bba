----------------------------- MODULE Intervals -----------------------------
(***************************************************************************)
(* LiveIntervalsEval: for every value, one live range per block in which   *)
(* it is live, in instruction numbers.  setup_arguments() and              *)
(* setup_locals() open a range at the definition; eval_usages() extends it *)
(* with live_out and with every read.                                      *)
(***************************************************************************)
EXTENDS LIRFunction, LiveInterval

CONSTANT Functions

(* Every block is in the order, once (Traverse!CompleteOrder), and has a   *)
(* terminator; only values of the function are read, and live.             *)
FunctionsAssumption ==
    \A f \in Functions :
        /\ Block(f) = 1 .. Len(f.order)
        /\ f.order \in Seq(Block(f)) \ {<<>>} /\ Range(f.order) = Block(f)
        /\ \A j, k \in DOMAIN f.order : j # k => f.order[j] # f.order[k]
        /\ IsFiniteSet(f.args)
        /\ \A b \in Block(f) :
              /\ Succs(f, b) \subseteq Block(f)
              /\ f.code[b] \in Seq(Range(f.code[b])) \ {<<>>}
              /\ f.live_in[b] \subseteq Vals(f)
        /\ \A at \in Instructions(f) :
              /\ Inst(f, at).ins \in Seq(Vals(f))
              /\ IsFiniteSet(Inst(f, at).outs)
ASSUME FunctionsAssumption

(* Values are in SSA form; the live sets solve the dataflow equations      *)
(* (Liveness!FixpointReached), and the definition of what is live into a   *)
(* block, which dominates the block, comes before it in the preorder.      *)
AnalysedAssumption ==
    \A f \in Functions :
        /\ \A at, other \in Instructions(f) :
              at # other => Inst(f, at).outs \cap Inst(f, other).outs = {}
        /\ \A at \in Instructions(f) : Inst(f, at).outs \cap f.args = {}
        /\ \A b \in Block(f) :
              f.live_in[b] = Exposed(f, b) \cup (LiveOut(f, b) \ DefinedIn(f, b))
        /\ \A k \in DOMAIN f.order : \A j \in k .. Len(f.order) :
              f.live_in[f.order[k]] \cap DefinedIn(f, f.order[j]) = {}
ASSUME AnalysedAssumption

(* A copy that feeds a parallel copy has no range for the edge it is read  *)
(* on: only its group, the phi's, knows it is held there.                  *)
FeedsPhi(f, v) == \E at \in Instructions(f) :
    Inst(f, at).kind = "pcopy" /\ v \in Reads(Inst(f, at))

(* What feeds a parallel copy is a copy made for it and read by nothing    *)
(* else.                                                                   *)
CopiesAssumption ==
    \A f \in Functions : \A v \in Vals(f) :
        FeedsPhi(f, v) =>
            /\ v \notin f.args
            /\ \A at \in Instructions(f) :
                   v \in Inst(f, at).outs => /\ Inst(f, at).kind # "pcopy"
                                             /\ Inst(f, at).outs = {v}
                                             /\ v \notin LiveOut(f, at[1])
ASSUME CopiesAssumption

(* v, defined by instruction d of b, is read later in b or live out of it. *)
Needed(f, b, d, v) ==
    \/ v \in LiveOut(f, b)
    \/ \E n \in (d + 1) .. Len(f.code[b]) : v \in Reads(f.code[b][n])

(* The intervals show an interference only if: a value is needed when it   *)
(* is a phi, or defined first in a block or with another one, unless it is *)
(* copied for a phi; parallel copies are first and never last; and what a  *)
(* call returns is read in the block it returns to, after that adjusts the *)
(* stack.                                                                  *)
ShownAssumption ==
    \A f \in Functions : \A b \in Block(f) :
        LET code == f.code[b] IN
        /\ \A n \in DOMAIN code : \A v \in code[n].outs :
              n = 1 \/ code[n].kind = "pcopy" \/ code[n].outs # {v} =>
                  Needed(f, b, n, v) \/ FeedsPhi(f, v)
        /\ \A n \in DOMAIN code :
              code[n].kind = "pcopy" => /\ n # Len(code)
                                       /\ \A m \in 1 .. n : code[m].kind = "pcopy"
        /\ Last(code).outs # {} =>
              \E s \in Block(f) : /\ Succs(f, b) = {s}
                                  /\ Last(code).outs \subseteq f.live_in[s]
                                  /\ Reads(f.code[s][1]) = {} /\ Len(f.code[s]) > 1
ASSUME ShownAssumption

(* p[1] overwrites p[2] at a number the intervals of both contain: p[2] is *)
(* not held for an edge only, and p[1] is no copy for a phi that begins    *)
(* its block, whose range has no length and is not within any other.       *)
Shown(f, p) ==
    /\ ~FeedsPhi(f, p[2])
    /\ FeedsPhi(f, p[1]) => DefinitionOf(f, p[1])[2] # 1

VARIABLES
    func,       \* the function (never changes)
    phase,      \* "locals", "usages", "evaluated", then the allocator's
    pos,        \* position in func.order of the next block
    inst_number,
    spans,      \* m_intervals: value -> block -> range
    call_live_out, \* m_call_live_out
    intervals   \* the result: value -> interval

ivars == <<func, phase, pos, inst_number, spans, call_live_out, intervals>>

ThisBlock == func.order[pos]

Code == func.code[ThisBlock]

(* bb->last()->isa(call()).                                                *)
EndsInCall(code) == Last(code).kind = "call"

WithRange(map, b, r) == Extended(map, [c \in {b} |-> r])

(* Variant: a value live out of the block it is defined in ends with the   *)
(* block's last instruction.                                               *)
LiveOutRangeShort(map, b, start, size) ==
    IF b \in DOMAIN map
    THEN [map EXCEPT ![b] = Propagate(@, start)]
    ELSE WithRange(map, b, NewRange(start, start + size - 1))

(* eval_usages(), for a value of live_out: through a block that does not   *)
(* define it, or from its definition to the first number after the block.  *)
LiveOutRange(map, b, start, size) ==
    IF b \in DOMAIN map
    THEN [map EXCEPT ![b] = Propagate(@, start + size)]
    ELSE WithRange(map, b, NewRange(start, start + size - 1))

(* eval_usages(), for a read at "number".                                  *)
ReadRange(map, b, start, number) ==
    IF b \in DOMAIN map
    THEN [map EXCEPT ![b] = Propagate(@, number)]
    ELSE WithRange(map, b, NewRange(start, number))

(* The reads of v in the block, in program order.                          *)
AfterReads(map, v, b, start, code) ==
    LET upto[n \in 0 .. Len(code)] ==
          IF n = 0 THEN map
          ELSE IF v \in Reads(code[n])
               THEN ReadRange(upto[n - 1], b, start, start + n - 1)
               ELSE upto[n - 1]
    IN  upto[Len(code)]

(* Variant: every value of the block is held to its end.                   *)
AfterBlock(map, v, b, start, code, out) ==
    IF v \in out \/ b \in DOMAIN map THEN LiveOutRange(map, b, start, Len(code)) ELSE map

AfterLiveOut(map, v, b, start, code, out) ==
    IF v \in out THEN LiveOutRange(map, b, start, Len(code)) ELSE map

(* The hint goes to the values the block itself holds a range of already:  *)
(* those it defines (and the arguments in the first block).                *)
Hinted(code, out) ==
    IF EndsInCall(code) THEN {v \in out : ThisBlock \in DOMAIN spans[v]} ELSE {}

(* The constructor and setup_arguments().                                  *)
Init ==
    /\ func \in Functions
    /\ phase = "locals" /\ pos = 1 /\ inst_number = 0
    /\ spans = [v \in func.args |-> [b \in {func.order[1]} |-> NewRange(0, 0)]]
    /\ call_live_out = {} /\ intervals = <<>>

(* setup_locals(): the definitions of the next block.                      *)
SetupLocals ==
    /\ phase = "locals" /\ pos <= Len(func.order)
    /\ spans' = Extended(spans,
         [v \in DefinedIn(func, ThisBlock) |->
            LET n == CHOOSE m \in DOMAIN Code : v \in Code[m].outs
            IN  [b \in {ThisBlock} |-> NewRange(inst_number + n, inst_number + n)]])
    /\ inst_number' = inst_number + Len(Code)
    /\ pos' = pos + 1
    /\ UNCHANGED <<func, phase, call_live_out, intervals>>

StartUsages ==
    /\ phase = "locals" /\ pos > Len(func.order)
    /\ phase' = "usages" /\ pos' = 1 /\ inst_number' = 0
    /\ UNCHANGED <<func, spans, call_live_out, intervals>>

(* eval_usages(): the next block.                                          *)
EvalUsages ==
    /\ phase = "usages" /\ pos <= Len(func.order)
    /\ LET out == LiveOut(func, ThisBlock)
           start == inst_number + 1
       IN  /\ spans' = [v \in DOMAIN spans |->
                          AfterReads(AfterLiveOut(spans[v], v, ThisBlock, start, Code, out),
                                     v, ThisBlock, start, Code)]
           /\ call_live_out' = call_live_out \cup Hinted(Code, out)
    /\ inst_number' = inst_number + Len(Code)
    /\ pos' = pos + 1
    /\ UNCHANGED <<func, phase, intervals>>

(* The ranges of v in the order of a hash map, which the sort undoes: the  *)
(* starts are distinct.  Here the last block comes first.                  *)
RangesOf(v) ==
    LET upto[k \in 0 .. Len(func.order)] ==
          IF k = 0 THEN <<>>
          ELSE IF func.order[k] \in DOMAIN spans[v]
               THEN <<spans[v][func.order[k]]>> \o upto[k - 1]
               ELSE upto[k - 1]
    IN  upto[Len(func.order)]

(* result(): the ranges of each value become its interval.                 *)
Result ==
    /\ phase = "usages" /\ pos > Len(func.order)
    /\ intervals' = [v \in DOMAIN spans |->
                       NewInterval(RangesOf(v), IF v \in call_live_out
                                                THEN "CALL_LIVE_OUT" ELSE "NOTHING")]
    /\ phase' = "evaluated"
    /\ UNCHANGED <<func, pos, inst_number, spans, call_live_out>>

Evaluated == phase = "evaluated"

IntervalsNext == SetupLocals \/ StartUsages \/ EvalUsages \/ Result

IntervalsSpec == Init /\ [][IntervalsNext]_ivars

----------------------------------------------------------------------------
(* Two values that must not share a register have intervals that meet, so  *)
(* the allocator can see it, although a range through a block stops one    *)
(* number short of the next block.                                         *)
InterferenceSeen ==
    Evaluated =>
        \A p \in Interferences(func) :
            Shown(func, p) => Intersects(intervals[p[1]], intervals[p[2]])

(* An interval starts at the definition, whatever blocks come first: the   *)
(* allocator finds the defining instruction by start() - 1.                *)
StartsAtDefinition ==
    Evaluated =>
        \A v \in Vals(func) \ func.args :
            FeedsPhi(func, v) \/ Start(intervals[v]) = NumberAt(func, DefinitionOf(func, v))

(* A value holds no register where no path can still read it: a range      *)
(* stays within its block and within what is held there.                   *)
NotHeldTooLong ==
    Evaluated =>
        \A v \in Vals(func) : \A b \in DOMAIN spans[v] :
            \A n \in spans[v][b].start .. (spans[v][b].end - 1) :
                \/ v \in HeldAfter(func, b, n - FirstNumber(func, b) + 1)
                \/ FeedsPhi(func, v)
=============================================================================
