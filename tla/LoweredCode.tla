---------------------------- MODULE LoweredCode ----------------------------
(***************************************************************************)
(* What FunctionLower made is run beside the function it was made from,    *)
(* over the same path, and both must have the same effects.                *)
(*                                                                         *)
(* A low-level value is a term and the number of its bytes that hold it;   *)
(* a value assigned to a register is wherever the register is, the copies  *)
(* of a parallel copy are where its value is, any other has a place of its *)
(* own.  Reading more bytes than hold the term reads a cut one.            *)
(***************************************************************************)
EXTENDS Lowering

CONSTANT MaxBlocks      \* the blocks that are run

VARIABLES
    at, from,   \* the block to run, the block before it; 0 is none
    steps,
    mir, lir    \* what both runs have come to

vars == <<func, phase, queue, rest, todo, late, mapping, owners, code, fixed, group,
          at, from, steps, mir, lir>>

ASSUME MaxBlocksAssumption == MaxBlocks \in Nat \ {0}

(***************************************************************************)
(* Places, and what is read from them.                                     *)
(***************************************************************************)
Held(t, good) == [t |-> t, good |-> good]

Undefined == Held(<<"undefined">>, 8)

Register(r) == <<0, r, 0>>

Place(name) ==
    LET of == IF name \in DOMAIN group THEN group[name] ELSE name
    IN  IF of \in DOMAIN fixed THEN Register(fixed[of]) ELSE of

(* The registers, in order, holding Of(1), Of(2), ...                      *)
InRegisters(regs, Of(_)) ==
    [p \in {Register(regs[k]) : k \in DOMAIN regs} |->
       Of(CHOOSE k \in DOMAIN regs : Register(regs[k]) = p)]

ObjectAt(o) ==
    Address(CASE o.is = "global" -> <<"glb", o.id[1]>>
              [] o.id[2] = "value" -> <<"slot", o.id[1]>>
              [] OTHER -> <<"passed", o.id>>, 0, <<>>)

Cell(l, p) ==
    LET cell == AsAddress(p)
    IN  IF cell \in DOMAIN l.mem THEN l.mem[cell] ELSE Held(<<"initially", cell>>, 8)

Holds(l, o) ==
    CASE o.is = "imm" -> Held(<<"cst", o.id[1]>>, 8)
      [] o.is = "reg" -> IF Place(o.id) \in DOMAIN l.loc THEN l.loc[Place(o.id)] ELSE Undefined
      [] OTHER -> Cell(l, ObjectAt(o))

Cut(x, size) == IF x.good < size THEN <<"cut", x.t>> ELSE x.t

Smaller(a, b) == IF a < b THEN a ELSE b

Read(l, o, size) == Cut(Holds(l, o), size)

Write(l, name, t, good) == [l EXCEPT !.loc = (Place(name) :> Held(t, good)) @@ @]

(***************************************************************************)
(* The flags: what was compared, until something else sets them.  A        *)
(* comparison of floating-point numbers sets them as for "below" and       *)
(* "equal" alike when the two are unordered.                               *)
(***************************************************************************)
Lost == <<"lost">>

IntegerFlags ==
    [E |-> <<"eq", TRUE>>, NE |-> <<"ne", TRUE>>, G |-> <<"gt", TRUE>>, GE |-> <<"ge", TRUE>>,
     NGE |-> <<"lt", TRUE>>, NG |-> <<"le", TRUE>>, A |-> <<"gt", FALSE>>, AE |-> <<"ge", FALSE>>,
     NAE |-> <<"lt", FALSE>>, NA |-> <<"le", FALSE>>]

FloatFlags ==
    [E |-> <<"ueq", TRUE>>, NE |-> <<"one", TRUE>>, A |-> <<"ogt", TRUE>>, AE |-> <<"oge", TRUE>>,
     NAE |-> <<"ult", TRUE>>, NA |-> <<"ule", TRUE>>]

Decision(l, cond) ==
    IF l.flags = Lost THEN Lost
    ELSE (IF l.flags[1] = "icmp" THEN IntegerFlags[cond] ELSE FloatFlags[cond]) \o l.flags[2]

SetsFlags(i) ==
    \/ i.op \in {"call", "adjust"}
    \/ i.op = "produce" /\ i.class = "GP"
       /\ i.fn \in {"add", "sub", "xor", "sal", "sar", "shr", "idiv", "udiv"}
    \/ i.fn = "cvtuint2fp" /\ i.on[1].size = 8

(***************************************************************************)
(* The instructions, at the sizes their emitters are made for.             *)
(***************************************************************************)
Arithmetic ==
    [add |-> <<"add", TRUE>>, sub |-> <<"sub", TRUE>>, xor |-> <<"xor", TRUE>>,
     div |-> <<"div", TRUE>>, idiv |-> <<"div", TRUE>>, udiv |-> <<"div", FALSE>>]

Shifts == [sal |-> <<"shl", TRUE>>, sar |-> <<"shr", TRUE>>, shr |-> <<"shr", FALSE>>]

Converted ==
    [movsx |-> <<"sext", TRUE>>, movzx |-> <<"zext", TRUE>>, trunc |-> <<"trunc", TRUE>>,
     cvtfp2int |-> <<"fp2int", TRUE>>, cvtint2fp |-> <<"int2fp", TRUE>>,
     cvtuint2fp |-> <<"int2fp", FALSE>>]

(* Where an access to an element goes; a register holds the pointer.       *)
Accessed(l, p, index, size) ==
    Element(IF p.is = "reg" THEN Read(l, p, 8) ELSE ObjectAt(p), Read(l, index, 8), size)

Produced(l, i) ==
    LET R(k, size) == Read(l, i.on[k], size)
    IN  CASE i.fn \in DOMAIN Arithmetic ->
               Arithmetic[i.fn] \o <<i.size, R(1, i.size), R(2, i.size)>>
          [] i.fn \in DOMAIN Shifts -> Shifts[i.fn] \o <<i.size, R(1, i.size), R(2, 1)>>
          [] i.fn \in DOMAIN Converted ->
               Converted[i.fn] \o <<i.size, i.on[1].size, R(1, i.on[1].size)>>
          [] i.fn = "load" -> Cut(Cell(l, R(1, 8)), i.size)
          [] i.fn \in {"load_by_idx", "read_by_offset"} ->
               Cut(Cell(l, Accessed(l, i.on[1], i.on[2], i.size)), i.size)
          (* lea_i() asks for an address: a pointer in a register is none. *)
          [] i.fn = "lea" ->
               IF i.on[1].is = "reg" THEN Lost ELSE Accessed(l, i.on[1], i.on[2], i.size)

Producing(l, i) ==
    LET t == Produced(l, i)
        good == IF i.fn = "lea" THEN 8 ELSE i.size
    IN  IF Len(i.defs) = 2
        THEN Write(Write(l, i.defs[1].id, <<"part", 0, t>>, good),
                   i.defs[2].id, <<"part", 1, t>>, good)
        ELSE Write(l, i.defs[1].id, t, good)

(* A general copy moves what its source holds, a floating-point one the    *)
(* size of its result.                                                     *)
Copying(l, i) ==
    LET source == Holds(l, i.on[1])
        moved == IF i.class = "FP" THEN i.size ELSE i.on[1].size
    IN  Write(l, i.defs[1].id, source.t, Smaller(moved, source.good))

Storing(l, i) ==
    LET value == i.on[Len(i.on)]
        size == IF i.fn = "mov" THEN i.on[1].size ELSE value.size
        cell == CASE i.fn = "mov" -> ObjectAt(i.on[1])
                  [] i.fn = "store" -> AsAddress(Read(l, i.on[1], 8))
                  [] OTHER -> Accessed(l, i.on[1], i.on[2], size)
        stored == [l EXCEPT !.mem = (cell :> Held(Read(l, value, size), size)) @@ @]
        (* The copies of objects passed by value are no effect of the code.*)
        own == i.on[1].is = "slot" /\ i.on[1].id[2] = "argument"
    IN  IF own THEN stored ELSE Effect(stored, <<"store", cell, Read(l, value, size)>>)

PassedTo(l, o) ==
    IF o.is = "slot"
    THEN <<"object", [n \in 0 .. (o.size - 1) \div 8 |->
                        Cut(Cell(l, Bytes(ObjectAt(o), 8 * n)), 8)]>>
    ELSE Read(l, o, Smaller(o.size, 8))

(* The callee leaves nothing in the registers lowering assigns but its     *)
(* results, each kind of register counted apart.                           *)
Calling(l, i, types) ==
    LET passed == [k \in DOMAIN i.on |-> PassedTo(l, i.on[k])]
        bases == {passed[k][2] : k \in {j \in DOMAIN passed : passed[j][1] = "addr"}}
        result == <<"result", l.calls>>
        rank(k) == Cardinality({j \in 1 .. k : types[j].class = types[k].class})
        Result(k) == Held(IF Len(types) = 1 THEN result ELSE <<"part", k - 1, result>>,
                          types[k].size)
        results == InRegisters([k \in DOMAIN types |->
                                  ResultRegisters(types[k].class)[rank(k)]], Result)
        survive == {p \in DOMAIN l.loc : p[1] # 0}
    IN  [Effect(l, <<"call", passed>>) EXCEPT
           !.calls = @ + 1,
           !.mem = [cell \in DOMAIN @ |->
                      IF cell[2] \in bases THEN Held(<<"left", l.calls, cell>>, 8) ELSE @[cell]],
           !.loc = results @@ Restrict(@, survive)]

(* Something is read that was not written on this path.                    *)
ReadsUndefined(l, i) ==
    i.op # "pcopy" /\ \E k \in DOMAIN i.on : Holds(l, i.on[k]) = Undefined

(* The registers an argument may be left in: the adjustments keep them.    *)
Kept == {Register(GpArguments[k]) : k \in {1, 2, 5, 6}}

Run(l, i) ==
    LET ready == [l EXCEPT !.unready = @ \/ ReadsUndefined(l, i),
                           !.flags = IF SetsFlags(i) THEN Lost ELSE @]
    IN  CASE i.op = "produce" -> Producing(ready, i)
          [] i.op = "copy" -> Copying(ready, i)
          [] i.op = "store" -> Storing(ready, i)
          [] i.op = "cmp" ->
               LET size == i.on[1].size IN
               [ready EXCEPT !.flags =
                  <<i.fn, <<size, Read(l, i.on[1], size), Read(l, i.on[2], size)>>>>]
          [] i.op = "setcc" ->
               Write(ready, i.defs[1].id,
                     Choice(Decision(l, i.fn), <<"cst", 1>>, <<"cst", 0>>), 1)
          [] i.op = "cmov" ->
               Write(ready, i.defs[1].id,
                     Choice(Decision(l, i.fn), Read(l, i.on[1], i.size), Read(l, i.on[2], i.size)),
                     i.size)
          [] i.op = "jcc" -> Effect(ready, <<"branch", Decision(l, i.fn)>>)
          [] i.op = "call" -> Calling(ready, i, func.inst[Last(func.code[at])].with[1])
          [] i.op = "ret" ->
               Effect(ready, <<"return", [k \in DOMAIN i.on |-> Read(l, i.on[k], i.on[k].size)]>>)
          [] i.fn = "down_stack" -> [ready EXCEPT !.saved = Restrict(l.loc, Kept \cap DOMAIN l.loc)]
          [] i.fn = "up_stack" -> [ready EXCEPT !.loc = l.saved @@ @]
          [] OTHER -> ready      \* gen, jmp, ...; a parallel copy has its copies

(***************************************************************************)
(* The specification.                                                      *)
(***************************************************************************)
InitialLir ==
    LET Given(k) == Held(<<"arg", k>>, func.args[k].size)
    IN  [loc |-> InRegisters([k \in DOMAIN func.args |-> ArgumentRegister(func, k)], Given),
         mem |-> <<>>, saved |-> <<>>, flags |-> Lost, calls |-> 0, done |-> <<>>, unready |-> FALSE]

CodeInit ==
    /\ Init
    /\ at = 0 /\ from = 0 /\ steps = 0
    /\ mir = <<>> /\ lir = <<>>

LowerStep == Lower /\ UNCHANGED <<at, from, steps, mir, lir>>

StartRun ==
    /\ IsLoweredAll /\ at = 0 /\ steps = 0
    /\ at' = func.entry
    /\ mir' = InitialMeaning
    /\ lir' = InitialLir
    /\ UNCHANGED <<func, phase, queue, rest, todo, late, mapping, owners, code, fixed, group,
                   from, steps>>

RunBlock ==
    /\ at # 0 /\ steps < MaxBlocks
    /\ mir' = ExecuteBlock(func, mir, at, from)
    /\ lir' = FoldLeft(Run, lir, code[at])
    /\ steps' = steps + 1
    /\ from' = at
    /\ IF func.succ[at] = <<>> THEN at' = 0
       ELSE \E k \in DOMAIN func.succ[at] : at' = func.succ[at][k]
    /\ UNCHANGED lvars

Finished ==
    /\ phase = Died \/ (steps > 0 /\ at = 0) \/ steps = MaxBlocks
    /\ UNCHANGED vars

CodeNext == LowerStep \/ StartRun \/ RunBlock \/ Finished

CodeSpec == CodeInit /\ [][CodeNext]_vars

(***************************************************************************)
(* What the lowering does not get right.  Each is a condition on the       *)
(* function alone, and the properties speak of the functions where none    *)
(* holds.                                                                  *)
(***************************************************************************)
(* What can run right after an instruction.                                *)
Following(m, x) ==
    LET b == Owner(m, x)
        k == CHOOSE j \in DOMAIN m.code[b] : m.code[b][j] = x
    IN  IF k < Len(m.code[b]) THEN {m.code[b][k + 1]}
        ELSE {m.code[m.succ[b][j]][1] : j \in DOMAIN m.succ[b]}

(* What can run after x before v runs again.                               *)
Later(m, x, v) ==
    LET grow(seen) == seen \cup ((UNION {Following(m, y) : y \in seen}) \ {v})
        step[n \in 0 .. Cardinality(Insts(m))] ==
          IF n = 0 THEN Following(m, x) \ {v} ELSE grow(step[n - 1])
    IN  step[Cardinality(Insts(m))]

(* The instructions where v is read: what is set aside reads its operands  *)
(* at its own user.                                                        *)
Readers(m, v) ==
    LET reads[w \in Insts(m)] ==
          IF IsPinned(m, w) THEN {w} ELSE UNION {reads[u] : u \in Users(m, w)}
    IN  UNION {reads[u] : u \in Users(m, v)}

OfOp(m, op) == {v \in Insts(m) : m.inst[v].op = op}

(* A comparison of several users is emitted once.                          *)
SharedComparison(m) == \E v \in OfOp(m, "cmp") : Cardinality(Uses(m, v)) > 1

(* A comparison of floating-point numbers that answers otherwise than its  *)
(* flags do when the numbers are unordered.                                *)
UnorderedMisread(m) ==
    \E v \in OfOp(m, "cmp") : m.inst[v].fn \in {"oeq", "une", "ugt", "uge", "olt", "ole"}

(* The flag is written as one byte.                                        *)
WideFlag(m) ==
    \E v \in Insts(m) :
       LET i == m.inst[v] IN
       /\ \/ i.fn = "flag2int"
          \/ /\ i.op = "select" /\ <<i.on[2].is, i.on[3].is>> = <<"cst", "cst">>
             /\ {i.on[2].id, i.on[3].id} = {0, 1}
       /\ i.ty.size > 1

(* Where an address is asked for as a value: not to load, store, pass,     *)
(* return or go on from.                                                   *)
PlainUses(m, v) ==
    {u \in Uses(m, v) :
       LET i == m.inst[u[1]] IN
       ~ \/ i.op \in {"call", "ret"}
         \/ u[2] = 1 /\ (IsLoad(i) \/ i.op = "store")
         \/ u[2] = 1 /\ IsFieldAccess(i)
            /\ (IsFieldAccess(m.inst[v]) => ConstantIndex(i) /\ ConstantIndex(m.inst[v]))}

(* A field access on its own is an eight-byte element of an object, and    *)
(* is where its first user is.                                             *)
LoneFieldAccess(m) ==
    \E v \in OfOp(m, "gep") :
       /\ PlainUses(m, v) # {}
       /\ \/ m.inst[v].with[1] # 8 \/ ~ValueSemantic(m, m.inst[v].on[1])
          \/ Cardinality({Owner(m, u[1]) : u \in PlainUses(m, v)}) > 1

(* The object as an operand is what it holds.                              *)
AddressAsOperand(m) ==
    \/ \E v \in OfOp(m, "alloc") :
          \/ PlainUses(m, v) # {}
          \/ \E u \in Uses(m, v) : m.inst[u[1]].op = "ret"
    \/ \E u \in Insts(m) : \E k \in DOMAIN m.inst[u].on :
          /\ m.inst[u].on[k].is = "glb"
          /\ m.inst[u].op \notin {"call", "ret"}
          /\ ~(k = 1 /\ (m.inst[u].op \in {"gep", "gfp", "store"} \/ IsLoad(m.inst[u])))

(* The place of a folded access is no multiple of its size.                *)
UnevenOffset(m) ==
    \E v \in OfOp(m, "gep") \cup OfOp(m, "gfp") :
       /\ ConstantIndex(m.inst[v])
       /\ LET along[w \in Insts(m)] ==
                LET p == m.inst[w].on[1] IN
                Offset(m.inst[w])
                  + (IF IsField(m, p) /\ ConstantIndex(OperandInst(m, p)) THEN along[p.id] ELSE 0)
          IN  along[v] % m.inst[v].with[1] # 0

(* What is loaded from an object is read in the object, at its readers.    *)
LoadOutlived(m) ==
    \E v \in {w \in Insts(m) : IsLoad(m.inst[w]) /\ ValueSemantic(m, m.inst[w].on[1])} :
      \E w \in Later(m, v, v) :
        /\ \/ m.inst[w].op = "store" /\ m.inst[w].on[1] = m.inst[v].on[1]
           \/ m.inst[w].op = "call" /\ m.inst[v].on[1] \in Range(m.inst[w].on)
        /\ Later(m, w, v) \cap Readers(m, v) # {}

Phis(m) == OfOp(m, "phi")

(* The parallel copies of a block are not its first instructions: what is  *)
(* set aside for a phi is lowered before them, or a call left its own.     *)
PhiApart(m) ==
    \E v \in Phis(m) :
       \/ \E k \in DOMAIN m.inst[v].on :
             m.inst[v].on[k].is = "val" /\ ~IsPinned(m, m.inst[v].on[k].id)
       \/ \E c \in OfOp(m, "call") : Owner(m, v) = m.succ[Owner(m, c)][1]

(* The copies for the phis are made one after the other, before the end of *)
(* the block, whatever comes next.                                         *)
PhiOverwritten(m) ==
    \E v \in Phis(m) :
       \/ \E w \in Phis(m) \ {v} : Owner(m, w) = Owner(m, v) /\ w \in Users(m, v)
       \/ \E k \in DOMAIN m.inst[v].on :
             Later(m, Last(m.code[m.inst[v].with[k]]), v) \cap Readers(m, v) # {}

(* Both results are copied as the second's size and the first's kind.      *)
TupleMixed(m) ==
    \E c \in OfOp(m, "call") :
       Len(m.inst[c].with[1]) = 2 /\ m.inst[c].with[1][1] # m.inst[c].with[1][2]

(* What follows a call is made in the block it returns to, once.           *)
ContinuationShared(m) ==
    \E c \in OfOp(m, "call") : Cardinality(Predecessors(m, m.succ[Owner(m, c)][1])) > 1

(* An argument left in its register is read while those of a call are put  *)
(* in theirs.                                                              *)
ArgumentOverwritten(m) ==
    \E c \in OfOp(m, "call") : \E k \in DOMAIN m.args :
       /\ Len(m.inst[c].on) > 1 /\ StaysInRegister(m, k)
       /\ \E u \in ArgUsers(m, k) : ~IsPinned(m, u) /\ c \in Readers(m, u)

(* A floating-point value that is returned is in xmm0 or xmm1 all along.   *)
FloatReturned(m) ==
    LET returned == {o \in UNION {Range(m.inst[v].on) : v \in OfOp(m, "ret")} :
                       o.ty.class = "FP" /\ InOwnRegister(m, o)}
    IN  Cardinality(returned) > 1 \/ (returned # {} /\ OfOp(m, "call") # {})

Misread(m) ==
    \/ SharedComparison(m) \/ UnorderedMisread(m) \/ WideFlag(m) \/ LoneFieldAccess(m)
    \/ AddressAsOperand(m) \/ UnevenOffset(m) \/ LoadOutlived(m) \/ PhiApart(m)
    \/ PhiOverwritten(m) \/ TupleMixed(m) \/ ContinuationShared(m)
    \/ ArgumentOverwritten(m) \/ FloatReturned(m)

(***************************************************************************)
(* The properties.                                                         *)
(***************************************************************************)
Effects(s, what) == SelectSeq(s.done, LAMBDA e : e[1] \in what)

(* Over every path, what the code stores, passes to calls and returns is   *)
(* what the function does: no operand is read too early, too late, at the  *)
(* wrong size or where another value is by then.                           *)
SameEffects ==
    steps > 0 /\ ~Misread(func) =>
        Effects(lir, {"store", "call", "return"}) = Effects(mir, {"store", "call", "return"})

(* Every branch is decided by the comparison it names, with the signs of   *)
(* its operands: nothing sets the flags between the two.                   *)
SameDecisions ==
    steps > 0 /\ ~Misread(func) => Effects(lir, {"branch"}) = Effects(mir, {"branch"})

(* Whatever an instruction reads was written before on the path taken, in  *)
(* the blocks the phis' copies were moved to as well.                      *)
DefinedBeforeRead == steps > 0 /\ ~Misread(func) => ~lir.unready

(* Why the lowering may give up: a phi that comes before what comes in, a  *)
(* constant or a global coming in, an address it has no code for.          *)
Position(m, v) == CHOOSE n \in DOMAIN BreadthFirst(m) : BreadthFirst(m)[n] = Owner(m, v)

InputTooLate(m) ==
    \E v \in Phis(m) : \E k \in DOMAIN m.inst[v].on :
       LET o == m.inst[v].on[k] IN
       \/ o.is \in {"cst", "glb"}
       \/ o.is = "val" /\ IsLoad(OperandInst(m, o)) /\ OperandInst(m, o).on[1].is = "glb"
       \/ o.is = "val" /\ Position(m, o.id) >= Position(m, v)

NoCode(m) ==
    \/ \E v \in OfOp(m, "gfp") : PlainUses(m, v) # {}
    \/ \E v \in OfOp(m, "gep") : PlainUses(m, v) # {} /\ m.inst[v].on[1].is = "glb"
    \/ \E v \in Insts(m) :
          /\ IsLoad(m.inst[v]) \/ m.inst[v].op = "store"
          /\ LET p == m.inst[v].on[1] IN ~(p.is = "arg" \/ IsField(m, p) \/ ValueSemantic(m, p))

(* The lowering finds every operand, in the order of the blocks and with   *)
(* what is set aside, but for those.                                       *)
DiesOnlyOnUnlowered == phase = Died => InputTooLate(func) \/ NoCode(func)
=============================================================================
