------------------------------ MODULE Lowering ------------------------------
(***************************************************************************)
(* FunctionLower: the instructions of a function become instructions of    *)
(* the low-level representation, one block after the other in the cached   *)
(* order.  Pinned instructions are lowered where they stand; the others    *)
(* are set aside and lowered before the first instruction that needs them. *)
(*                                                                         *)
(* What a handler does is a script: the operands it asks for and the       *)
(* instructions it inserts, in order.  The scripts that are under way are  *)
(* on a stack, as the calls of the handlers are.                           *)
(*                                                                         *)
(* A low-level value is named <<instruction, role, number>>; an operand is *)
(* [is, id, size, class], an instruction [op, fn, size, class, defs, on].  *)
(***************************************************************************)
EXTENDS MIRFunction

CONSTANTS
    Functions,
    GpArguments, XmmArguments   \* the registers of arguments, in order

VARIABLES
    func,
    phase,      \* "traverse", "finalize" or Died
    queue,      \* the blocks to lower; the first one is m_bb
    rest,       \* what is left of the block
    todo,       \* what is left of the scripts
    late,       \* m_late_schedule_instructions
    mapping,    \* m_value_mapping
    owners,     \* m_parallel_copy_owners
    code,       \* block -> low-level instructions
    fixed,      \* the registers assigned: name -> register
    group       \* the copies inserted for a parallel copy: name -> its value

lvars == <<func, phase, queue, rest, todo, late, mapping, owners, code, fixed, group>>

Died == "died"

(***************************************************************************)
(* Low-level operands and the steps of scripts.                            *)
(***************************************************************************)
Reg(name, size, class)  == [is |-> "reg", id |-> name, size |-> size, class |-> class]
Slot(name, size)        == [is |-> "slot", id |-> name, size |-> size, class |-> "GP"]
Imm(n, size)            == [is |-> "imm", id |-> <<n, "imm", 0>>, size |-> size, class |-> "GP"]
Named(n)                == [is |-> "global", id |-> <<n, "glb", 0>>, size |-> 8, class |-> "GP"]

Value(v)        == <<v, "value", 0>>
Own(name)       == [is |-> "own", id |-> name]

Need(o)     == [do |-> "need", on |-> o, vreg |-> FALSE]    \* get_lir_operand()
NeedReg(o)  == [do |-> "need", on |-> o, vreg |-> TRUE]     \* get_lir_val()
Try(o)      == [do |-> "try", on |-> o]                     \* try_schedule_late()
Alias(v, o) == [do |-> "alias", of |-> v, on |-> o]         \* memorize(inst, operand)
Unimplemented == [do |-> "die"]                             \* unimplemented()
OwnCopies   == [do |-> "own"]                               \* m_parallel_copy_owners.emplace()
Fix(o, r)   == [do |-> "fix", on |-> o, reg |-> r]          \* assign_reg()
(* Insertion.  The size 0 is that of the first operand; "memo" is the      *)
(* value whose mapping becomes the first definition, 0 if there is none.   *)
Insert(op, fn, size, class, defs, on, memo) ==
    [do |-> "insert", op |-> op, fn |-> fn, size |-> size, class |-> class,
     defs |-> defs, on |-> on, memo |-> memo, into |-> 0]
Produce(v, fn, size, class, on) == Insert("produce", fn, size, class, <<Value(v)>>, on, v)
Copy(name, size, class, o) == Insert("copy", "copy", size, class, <<name>>, <<o>>, 0)
Adjust(fn) == Insert("adjust", fn, 0, "GP", <<>>, <<>>, 0)
Into(b, step) == [step EXCEPT !.into = b]
Memo(v, step) == [step EXCEPT !.memo = v]

(***************************************************************************)
(* FunctionLower's helpers.                                                *)
(***************************************************************************)
IsPinned(m, v) ==
    LET i == m.inst[v] IN
    \/ ~IsValue(i) \/ IsLoad(i) \/ IsTerminator(i)
    \/ ~IsFieldAccess(i) /\ Cardinality(Uses(m, v)) > 1

ConstantIndex(i) == i.op = "gfp" \/ i.on[2].is = "cst"

Offset(i) == IF i.op = "gfp" THEN i.with[2] ELSE i.with[1] * i.on[2].id

(* try_fold_field_access(): the pointer and the index of an access; a      *)
(* chain of accesses at constant places is one offset.                     *)
Fold(m, v) ==
    LET along[w \in Insts(m)] ==
          LET p == m.inst[w].on[1] IN
          IF IsField(m, p) /\ ConstantIndex(OperandInst(m, p))
          THEN [along[p.id] EXCEPT !.offset = @ + Offset(m.inst[w])]
          ELSE [pointer |-> p, offset |-> Offset(m.inst[w])]
        i == m.inst[v]
    IN  IF ConstantIndex(i)
        THEN [pointer |-> along[v].pointer,
              index |-> Cst(along[v].offset \div i.with[1], Signed(8))]
        ELSE [pointer |-> i.on[1], index |-> i.on[2]]

SignedCond   == [eq |-> "E", ne |-> "NE", gt |-> "G", ge |-> "GE", lt |-> "NGE", le |-> "NG"]
UnsignedCond == [eq |-> "E", ne |-> "NE", gt |-> "A", ge |-> "AE", lt |-> "NAE", le |-> "NA"]
FcmpCond == [ueq |-> "E", oeq |-> "E", une |-> "NE", one |-> "NE", ugt |-> "A", ogt |-> "A",
             uge |-> "AE", oge |-> "AE", ult |-> "NAE", olt |-> "NAE", ule |-> "NA", ole |-> "NA"]
Ordered == {"oeq", "one", "ogt", "oge", "olt", "ole"}

CondType(m, o) ==
    LET i == OperandInst(m, o) IN
    IF i.fn \in DOMAIN FcmpCond THEN FcmpCond[i.fn]
    ELSE IF i.on[1].ty.signed THEN SignedCond[i.fn] ELSE UnsignedCond[i.fn]

Inverted ==
    LET pairs == {<<"E", "NE">>, <<"GE", "NGE">>, <<"G", "NG">>, <<"AE", "NAE">>, <<"A", "NA">>}
    IN  [c \in UNION {{p[1], p[2]} : p \in pairs} |->
           CHOOSE d \in UNION {{p[1], p[2]} : p \in pairs} :
               <<c, d>> \in pairs \/ <<d, c>> \in pairs]

(***************************************************************************)
(* The handlers.                                                           *)
(***************************************************************************)
(* Binary: a count that is no constant goes to rcx.                        *)
BinaryScript(v, i) ==
    LET shift == i.fn \in {"shl", "shr"}
        fn == CASE i.fn = "shl" -> "sal"
                [] i.fn = "shr" -> IF i.ty.signed THEN "sar" ELSE "shr"
                [] OTHER -> i.fn
        count == <<v, "count", 0>>
        move == shift /\ i.on[2].is # "cst"
    IN  <<Need(i.on[1]), Need(i.on[2])>>
        \o (IF move THEN <<Copy(count, 0, "GP", i.on[2]), Fix(Own(count), "rcx")>> ELSE <<>>)
        \o <<Produce(v, fn, 0, i.ty.class, <<i.on[1], IF move THEN Own(count) ELSE i.on[2]>>)>>

(* lower_load(): the value of an object is the object itself.              *)
LoadScript(m, v, i) ==
    LET p == i.on[1] IN
    CASE ValueSemantic(m, p) -> <<Need(p), Alias(v, p)>>
      [] IsField(m, p) ->
           LET f == Fold(m, p.id)
               fn == IF ValueSemantic(m, f.pointer) THEN "read_by_offset" ELSE "load_by_idx"
           IN  <<Need(f.pointer), Need(f.index),
                 Produce(v, fn, OperandInst(m, p).with[1], i.ty.class, <<f.pointer, f.index>>)>>
      [] p.is = "arg" -> <<NeedReg(p), Produce(v, "load", i.ty.size, i.ty.class, <<p>>)>>
      [] OTHER -> <<Unimplemented>>

Conversions == [sext |-> "movsx", zext |-> "movzx", trunc |-> "trunc",
                fp2int |-> "cvtfp2int", int2fp |-> "cvtint2fp"]

(* make_setcc(): one byte, whatever the type of the value.                 *)
SetCC(v, cond) == Insert("setcc", cond, 1, "GP", <<Value(v)>>, <<>>, v)

UnaryScript(m, v, i) ==
    CASE i.fn = "load" -> LoadScript(m, v, i)
      [] i.fn = "flag2int" ->
           <<Try(i.on[1]), SetCC(v, CondType(m, i.on[1]))>>
      [] i.fn \in DOMAIN Conversions ->
           <<Need(i.on[1]),
             Produce(v, IF i.fn = "int2fp" /\ ~i.on[1].ty.signed THEN "cvtuint2fp"
                        ELSE Conversions[i.fn],
                     i.ty.size, IF i.fn \in {"fp2int", "int2fp"} THEN "FP" ELSE "GP", <<i.on[1]>>)>>
      [] OTHER -> <<Need(i.on[1]), Memo(v, Copy(Value(v), i.ty.size, "GP", i.on[1]))>>

CompareScript(i) ==
    <<Need(i.on[1]), Need(i.on[2]),
      Insert("cmp", IF i.fn \notin DOMAIN FcmpCond THEN "icmp"
                    ELSE IF i.fn \in Ordered THEN "ordered" ELSE "unordered",
             0, "GP", <<>>, i.on, 0)>>

(* Variant: the comparison goes before the values it chooses from.         *)
SelectConditionFirst(c, t, f) == <<Try(c), Need(t), Need(f)>>

SelectOperands(c, t, f) == <<Need(t), Need(f), Try(c)>>

IsInt(o, n) == o.is = "cst" /\ o.id = n

SelectScript(m, v, i) ==
    LET c == CondType(m, i.on[1])
        t == i.on[2]
        f == i.on[3]
    IN  SelectOperands(i.on[1], t, f) \o
        <<CASE IsInt(t, 1) /\ IsInt(f, 0) -> SetCC(v, c)
            [] IsInt(t, 0) /\ IsInt(f, 1) -> SetCC(v, Inverted[c])
            [] OTHER -> Insert("cmov", c, 0, "GP", <<Value(v)>>, <<t, f>>, v)>>

IntDivScript(m, v, i) ==
    LET lhs == <<v, "dividend", 0>>
        Part(idx) == <<v, "part", idx>>
        (* The parts somebody uses are copied at once.                     *)
        Kept(idx) ==
            LET p == ProjectionOf(m, v, idx) IN
            IF Uses(m, p) = {} THEN <<>>
            ELSE <<Memo(p, Copy(Value(p), m.inst[p].ty.size, "GP", Own(Part(idx))))>>
    IN  <<Need(i.on[1]), Copy(lhs, 0, "GP", i.on[1]), Fix(Own(lhs), "rax"), Need(i.on[2]),
          Insert("produce", IF i.ty.signed THEN "idiv" ELSE "udiv", 0, "GP",
                 <<Part(0), Part(1)>>, <<Own(lhs), i.on[2]>>, 0),
          Fix(Own(Part(0)), "rax"), Fix(Own(Part(1)), "rdx")>>
        \o Kept(0) \o Kept(1)

StoreScript(m, i) ==
    LET p == i.on[1]
        x == i.on[2]
        Op(fn, on) == Insert("store", fn, 0, x.ty.class, <<>>, on, 0)
    IN  <<Need(x)>> \o
        (CASE ValueSemantic(m, p) -> <<Need(p), Op("mov", <<p, x>>)>>
           [] IsField(m, p) ->
                LET f == Fold(m, p.id) IN
                <<Need(f.pointer), Need(f.index),
                  Op(IF ValueSemantic(m, f.pointer) THEN "store_by_offset" ELSE "mov_by_idx",
                     <<f.pointer, f.index, x>>)>>
           [] p.is = "arg" -> <<NeedReg(p), Op("store", <<p, x>>)>>
           [] OTHER -> <<Unimplemented>>)

PhiScript(v, i) ==
    <<OwnCopies>> \o [k \in DOMAIN i.on |-> NeedReg(i.on[k])]
    \o <<Memo(v, Insert("pcopy", "pcopy", 0, i.ty.class, <<Value(v)>>, i.on, 0))>>

Lea(name, size, p, index) ==
    Insert("produce", "lea", size, "GP", <<name>>, <<p, index>>, 0)

Zero == Cst(0, Signed(8))

(* The address of what a field access points to.                           *)
FieldAddress(m, name, o) ==
    LET f == Fold(m, o.id) IN
    <<Need(f.pointer), Need(f.index),
      Lea(name, OperandInst(m, o).with[1], f.pointer, f.index)>>

(* lower_primitive_type_argument().                                        *)
PassPrimitive(m, name, o) ==
    CASE IsOf(m, o, "alloc") -> <<Need(o), Lea(name, OperandInst(m, o).with[1].size, o, Zero)>>
      [] IsField(m, o) -> FieldAddress(m, name, o)
      [] o.is = "glb" -> <<Lea(name, o.ty.size, o, Zero)>>
      [] OTHER -> <<Need(o), Copy(name, o.ty.size, o.ty.class, o)>>

(* An object by value is copied, eight bytes at a time.                    *)
PassObject(m, name, o) ==
    LET size == OperandInst(m, o).with[1].size
        chunks == (size + 7) \div 8
        Chunk(n) == <<name[1], "chunk", 100 * name[3] + n>>
        Move(n) ==
            <<Insert("produce", "read_by_offset", 8, "GP", <<Chunk(n)>>,
                     <<o, Cst(n - 1, Signed(8))>>, 0),
              Insert("store", "store_by_offset", 0, "GP", <<>>,
                     <<Own(name), Cst(n - 1, Signed(8)), Own(Chunk(n))>>, 0)>>
    IN  <<Need(o), Insert("gen", "gen", size, "GP", <<name>>, <<>>, 0)>>
        \o FlattenSeq([n \in 1 .. chunks |-> Move(n)])

ArgumentName(v, k) == <<v, "argument", k>>

PassAll(m, v, i) ==
    FlattenSeq([k \in DOMAIN i.on |->
                  IF k \in i.with[2] THEN PassObject(m, ArgumentName(v, k), i.on[k])
                  ELSE PassPrimitive(m, ArgumentName(v, k), i.on[k])])

(* allocate_arguments_for_call(): the registers of the arguments that are  *)
(* in registers, each class counted apart.                                 *)
FixArguments(v, i) ==
    LET class(k) == IF k \in i.with[2] THEN "MEM" ELSE i.on[k].ty.class
        rank(k) == Cardinality({j \in 1 .. k : class(j) = class(k)})
        regs(k) == IF class(k) = "GP" THEN GpArguments ELSE XmmArguments
        Give(k) == IF class(k) = "MEM" \/ rank(k) > Len(regs(k)) THEN <<>>
                   ELSE <<Fix(Own(ArgumentName(v, k)), regs(k)[rank(k)])>>
    IN  FlattenSeq([k \in DOMAIN i.on |-> Give(k)])

ResultRegisters(class) == IF class = "FP" THEN <<"xmm0", "xmm1">> ELSE <<"rax", "rdx">>

(* Call, TupleCall and VCall.  Both results of a TupleCall have the size   *)
(* and the kind of register of the first, their copies the second's size.  *)
CallScript(m, v, i, cont) ==
    LET types == i.with[1]
        Result(k) == <<v, "result", k>>
        copied(k) == IF Len(types) = 1 THEN v ELSE ProjectionOf(m, v, k - 1)
        After(k) ==
            <<Into(cont, Memo(copied(k), Copy(Value(copied(k)), types[Len(types)].size,
                                              types[1].class, Own(Result(k))))),
              Fix(Own(Result(k)), ResultRegisters(types[1].class)[k])>>
    IN  <<Adjust("down_stack")>> \o PassAll(m, v, i)
        \o <<Insert("call", "call", IF types = <<>> THEN 8 ELSE types[1].size,
                    IF types = <<>> THEN "GP" ELSE types[1].class,
                    [k \in DOMAIN types |-> Result(k)],
                    [k \in DOMAIN i.on |-> Own(ArgumentName(v, k))], 0),
             Into(cont, Adjust("up_stack"))>>
        \o FlattenSeq([k \in DOMAIN types |-> After(k)]) \o FixArguments(v, i)

(* lower_return_value(): a floating-point value is returned as it is.      *)
ReturnCopied(m, name, o) ==
    CASE o.is = "glb" -> <<Lea(name, o.ty.size, o, Zero)>>
      [] IsField(m, o) -> FieldAddress(m, name, o)
      [] OTHER -> <<Need(o), Copy(name, o.ty.size, o.ty.class, o)>>

(* The operand that is a value of its own: no constant, no object.         *)
InOwnRegister(m, o) ==
    o.is # "cst" /\ ~(o.is = "val" /\ IsLoad(OperandInst(m, o))
                      /\ ValueSemantic(m, OperandInst(m, o).on[1]))

ReturnScript(m, v, i) ==
    LET o(k) == i.on[k]
        asis(k) == o(k).ty.class = "FP" /\ InOwnRegister(m, o(k))
        name(k) == <<v, "return", k>>
        returned(k) == IF asis(k) THEN o(k) ELSE Own(name(k))
        (* assign_return_reg() counts the two kinds of registers apart.    *)
        rank(k) == Cardinality({j \in 1 .. k : o(j).ty.class = o(k).ty.class})
    IN  FlattenSeq([k \in DOMAIN i.on |->
                      IF asis(k) THEN <<Need(o(k))>> ELSE ReturnCopied(m, name(k), o(k))])
        \o <<Adjust("epilogue"),
             Insert("ret", "ret", 8, "GP", <<>>, [k \in DOMAIN i.on |-> returned(k)], 0)>>
        \o [k \in DOMAIN i.on |-> Fix(returned(k), ResultRegisters(o(k).ty.class)[rank(k)])]

(* Variant: the condition is taken to be lowered.                          *)
BranchOnFlags(m, c) == <<Insert("jcc", CondType(m, c), 1, "GP", <<>>, <<>>, 0)>>

CondBranchScript(m, c) == <<Try(c), Insert("jcc", CondType(m, c), 1, "GP", <<>>, <<>>, 0)>>

Script(m, v) ==
    LET i == m.inst[v] IN
    CASE i.op = "binary" -> BinaryScript(v, i)
      [] i.op = "unary" -> UnaryScript(m, v, i)
      [] i.op = "cmp" -> CompareScript(i)
      [] i.op = "select" -> SelectScript(m, v, i)
      [] i.op = "div" -> IntDivScript(m, v, i)
      [] i.op = "proj" -> <<>>
      [] i.op = "phi" -> PhiScript(v, i)
      [] i.op = "alloc" ->
           <<Memo(v, Insert("gen", "gen", i.with[1].size, "GP", <<Value(v)>>, <<>>, 0))>>
      [] i.op = "store" -> StoreScript(m, i)
      [] i.op = "gep" ->
           <<NeedReg(i.on[1]), Need(i.on[2]), Memo(v, Lea(Value(v), i.ty.size, i.on[1], i.on[2]))>>
      [] i.op = "gfp" -> <<Unimplemented>>
      [] i.op = "br" -> <<Insert("jmp", "jmp", 1, "GP", <<>>, <<>>, 0)>>
      [] i.op = "condbr" -> CondBranchScript(m, i.on[1])
      [] i.op = "call" -> CallScript(m, v, i, m.succ[Owner(m, v)][1])
      [] i.op = "ret" -> ReturnScript(m, v, i)

(***************************************************************************)
(* The run of FunctionLower.                                               *)
(***************************************************************************)
Key(o) == <<o.is, o.id>>

(* What get_lir_operand() returns for a value that is lowered.             *)
Resolved(o) ==
    CASE o.is = "cst" -> Imm(o.id, o.ty.size)
      [] o.is = "glb" -> Named(o.id)
      [] OTHER -> mapping[Key(o)]

IsLowered(o) == o.is \in {"cst", "glb"} \/ Key(o) \in DOMAIN mapping

(* ArgumentRegistersAllocator counts both classes together.                *)
ArgumentRegister(m, k) ==
    IF m.args[k].class = "FP" THEN XmmArguments[k] ELSE GpArguments[k]

LirArgument(m, k) == Reg(<<k, "arg", 0>>, m.args[k].size, "GP")

(* Nothing but the first block reads it, its terminator excepted.          *)
NoLiveOut(m, k) ==
    \A u \in ArgUsers(m, k) : Owner(m, u) = m.entry /\ ~IsTerminator(m.inst[u])

(* setup_gp_argument(): rdx and rcx, the third and the fourth, are kept    *)
(* free for divisions and shifts.                                          *)
StaysInRegister(m, k) ==
    m.args[k].class = "GP" /\ k \notin {3, 4} /\ NoLiveOut(m, k)

CopiedArgument(m, k) == Reg(<<k, "copied", 0>>, m.args[k].size, m.args[k].class)

Instruction(op, fn, size, class, defs, on) ==
    [op |-> op, fn |-> fn, size |-> size, class |-> class, defs |-> defs, on |-> on]

(* setup_arguments().                                                      *)
Prologue(m) ==
    LET Moved(k) == IF StaysInRegister(m, k) THEN <<>>
                    ELSE <<Instruction("copy", "copy", m.args[k].size, m.args[k].class,
                                       <<CopiedArgument(m, k)>>, <<LirArgument(m, k)>>)>>
    IN  <<Instruction("adjust", "prologue", 0, "GP", <<>>, <<>>)>>
        \o FlattenSeq([k \in DOMAIN m.args |-> Moved(k)])

SetupArguments(m) ==
    /\ mapping = [o \in {<<"arg", k>> : k \in DOMAIN m.args} |->
                    IF StaysInRegister(m, o[2]) THEN LirArgument(m, o[2])
                    ELSE CopiedArgument(m, o[2])]
    /\ fixed = [name \in {<<k, "arg", 0>> : k \in DOMAIN m.args} |->
                  ArgumentRegister(m, name[1])]
    /\ code = [b \in Blocks(m) |-> IF b = m.entry THEN Prologue(m) ELSE <<>>]

(* create(): the order is the cached one of BFSOrderTraverseBase.          *)
Init ==
    /\ func \in Functions
    /\ phase = "traverse"
    /\ queue = BreadthFirst(func)
    /\ rest = func.code[func.entry]
    /\ todo = <<>> /\ late = {} /\ owners = {} /\ group = <<>>
    /\ SetupArguments(func)

(* The instructions of the next block.                                     *)
NextBlock ==
    /\ phase = "traverse" /\ todo = <<>> /\ rest = <<>>
    /\ queue' = Tail(queue)
    /\ IF queue' = <<>> THEN phase' = "finalize" /\ rest' = <<>>
       ELSE phase' = phase /\ rest' = func.code[Head(queue')]
    /\ UNCHANGED <<func, todo, late, mapping, owners, code, fixed, group>>

(* Variant: what is not pinned is lowered by nobody.                       *)
VisitDropping ==
    /\ phase = "traverse" /\ todo = <<>> /\ rest # <<>>
    /\ rest' = Tail(rest)
    /\ todo' = IF IsPinned(func, Head(rest)) THEN Script(func, Head(rest)) ELSE todo
    /\ UNCHANGED <<func, phase, queue, late, mapping, owners, code, fixed, group>>

Visit ==
    /\ phase = "traverse" /\ todo = <<>> /\ rest # <<>>
    /\ rest' = Tail(rest)
    /\ IF IsPinned(func, Head(rest))
       THEN todo' = Script(func, Head(rest)) /\ late' = late
       ELSE todo' = todo /\ late' = late \cup {Head(rest)}
    /\ UNCHANGED <<func, phase, queue, mapping, owners, code, fixed, group>>

Doing(what) == phase = "traverse" /\ todo # <<>> /\ Head(todo).do = what

SetAside(o) == o.is = "val" /\ o.id \in late

IsVregIfAsked == Head(todo).vreg => Resolved(Head(todo).on).is \in {"reg", "slot"}

(* The operand is there, or it is no instruction set aside to be lowered.  *)
HaveOperand ==
    /\ \/ Doing("need") /\ IsLowered(Head(todo).on) /\ IsVregIfAsked
       \/ Doing("try") /\ ~SetAside(Head(todo).on)
    /\ todo' = Tail(todo)
    /\ UNCHANGED <<func, phase, queue, rest, late, mapping, owners, code, fixed, group>>

(* schedule_late(): then the operand is asked for again.                   *)
ScheduleLate ==
    /\ \/ Doing("need") /\ ~IsLowered(Head(todo).on)
       \/ Doing("try")
    /\ SetAside(Head(todo).on)
    /\ late' = late \ {Head(todo).on.id}
    /\ todo' = Script(func, Head(todo).on.id) \o todo
    /\ UNCHANGED <<func, phase, queue, rest, mapping, owners, code, fixed, group>>

(* The assertion of get_lir_operand(), die() of get_lir_val().             *)
Die ==
    /\ \/ Doing("need") /\ ~IsLowered(Head(todo).on) /\ ~SetAside(Head(todo).on)
       \/ Doing("need") /\ IsLowered(Head(todo).on) /\ ~IsVregIfAsked
       \/ Doing("die")
    /\ phase' = Died
    /\ UNCHANGED <<func, queue, rest, todo, late, mapping, owners, code, fixed, group>>

Memorize ==
    /\ Doing("alias")
    /\ mapping' = (<<"val", Head(todo).of>> :> Resolved(Head(todo).on)) @@ mapping
    /\ todo' = Tail(todo)
    /\ UNCHANGED <<func, phase, queue, rest, late, owners, code, fixed, group>>

OwnParallelCopy ==
    /\ Doing("own")
    /\ owners' = owners \cup {Head(queue)}
    /\ todo' = Tail(todo)
    /\ UNCHANGED <<func, phase, queue, rest, late, mapping, code, fixed, group>>

AssignReg ==
    /\ Doing("fix")
    /\ fixed' = (Resolved(Head(todo).on).id :> Head(todo).reg) @@ fixed
    /\ todo' = Tail(todo)
    /\ UNCHANGED <<func, phase, queue, rest, late, mapping, owners, code, group>>

(* m_bb->ins() and cont->ins().                                            *)
InsertInstruction ==
    /\ Doing("insert")
    /\ LET i == Head(todo)
           on == [k \in DOMAIN i.on |-> Resolved(i.on[k])]
           size == IF i.size = 0 /\ on # <<>> THEN on[1].size ELSE i.size
           Def(name) == IF i.op = "gen" THEN Slot(name, size) ELSE Reg(name, size, i.class)
           defs == [k \in DOMAIN i.defs |-> Def(i.defs[k])]
           b == IF i.into = 0 THEN Head(queue) ELSE i.into
           own == [key \in {<<"own", i.defs[k]>> : k \in DOMAIN i.defs} |->
                     CHOOSE d \in Range(defs) : d.id = key[2]]
       IN  /\ code' = [code EXCEPT ![b] =
                          Append(@, Instruction(i.op, i.fn, size, i.class, defs, on))]
           /\ mapping' = own @@ (IF i.memo = 0 THEN <<>> ELSE <<"val", i.memo>> :> defs[1]) @@ mapping
    /\ todo' = Tail(todo)
    /\ UNCHANGED <<func, phase, queue, rest, late, owners, fixed, group>>

(* Variant: a copy on the first edge only.                                 *)
CopiedInputsOfFirst(i) == {1} \cap DOMAIN i.on

CopiedInputs(i) == DOMAIN i.on

(* insert_copies(): before the terminators of the blocks that come in.     *)
WithCopies(c, b, n) ==
    LET i == c[b][n]
        phi == i.defs[1].id
        targets == func.inst[phi[1]].with
        CopyOf(k) == Reg(<<phi[1], "copy", k>>, i.on[k].size, i.on[k].class)
        Before(seq, x) == Append(Append(Front(seq), x), Last(seq))
        InsertCopy(d, k) ==
            [d EXCEPT ![targets[k]] =
                Before(@, Instruction("copy", "copy", i.on[k].size, i.on[k].class,
                                      <<CopyOf(k)>>, <<i.on[k]>>))]
        ks == CopiedInputs(i)
        moved == FoldLeft(InsertCopy, c, SelectSeq([k \in DOMAIN i.on |-> k], LAMBDA k : k \in ks))
        (* Where the parallel copy is now, should a copy go before it.     *)
        Same(d) == CHOOSE j \in DOMAIN d[b] : d[b][j] = i
    IN  [moved EXCEPT ![b][Same(moved)].on = [k \in DOMAIN i.on |->
                                                IF k \in ks THEN CopyOf(k) ELSE i.on[k]]]

LeadingParallelCopies(seq) ==
    SelectSeq([n \in DOMAIN seq |-> n],
              LAMBDA n : \A j \in 1 .. n : seq[j].op = "pcopy")

(* finalize_parallel_copies(): the owners are in a hash set.               *)
InsertCopies ==
    /\ phase = "finalize" /\ owners # {}
    /\ \E b \in owners :
         LET leading == LeadingParallelCopies(code[b])
             phi(n) == code[b][n].defs[1].id
             copies == {<<phi(n)[1], "copy", k>> :
                          n \in Range(leading), k \in 1 .. Len(code[b][Head(leading)].on)}
         IN  /\ owners' = owners \ {b}
             /\ code' = FoldLeft(LAMBDA c, n : WithCopies(c, b, n), code, leading)
             /\ group' = IF leading = <<>> THEN group
                         ELSE [name \in copies |-> <<name[1], "value", 0>>] @@ group
    /\ UNCHANGED <<func, phase, queue, rest, todo, late, mapping, fixed>>

Lower ==
    \/ NextBlock \/ Visit \/ HaveOperand \/ ScheduleLate \/ Die \/ Memorize
    \/ OwnParallelCopy \/ AssignReg \/ InsertInstruction \/ InsertCopies

IsLoweredAll == phase = "finalize" /\ owners = {}
=============================================================================
