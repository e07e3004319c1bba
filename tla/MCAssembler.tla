------------------------------ MODULE MCAssembler -----------------------------
(* The modules that are assembled.                                         *)
EXTENDS Assembler

Local(n)    == Symbol(n, "internal")
Foreign(n)  == Symbol(n, "external")
Default(n)  == Symbol(n, "default")
Label(l)    == [k |-> "label", label |-> l]
CallOf(s)   == Instruction("call", 8, 0, None, [k |-> "symbol", sym |-> s])
Jump(l)     == Instruction("jmp", 8, 0, None, Label(l))
JumpIf(c, l) == Instruction("jcc", 8, c, None, Label(l))
Return      == Instruction("ret", 8, 0, None, None)
Unit1(s, items)  == [sym |-> s, items |-> items, labels |-> <<>>]

-------------------------------------------------------------------------------
(* One function for each instruction: every overload and each of its       *)
(* sizes, with every choice of operands below.  The registers are the ones *)
(* an encoding treats apart, and one that needs no care.                   *)

Gps(size) == {Gp(n) : n \in IF size = 1 THEN {0, 6, 7, 8, 13} ELSE {0, 4, 5, 6, 8, 12, 13}}
Xms       == {Xm(n) : n \in {0, 5, 8, 15}}
Disps     == {0, -128, 127, 128, -129}

\* Not the base r12, nor r13 without displacement, for which EncodeBaseDisp names another operand.
BaseDisps   == {BaseDisp(Gp(b), d) : b \in {0, 4, 5, 8, 13}, d \in Disps} \ {BaseDisp(Gp(13), 0)}
IndexScales == {IndexScale(Gp(b), Gp(x), s, d) : b \in {0, 5, 12}, x \in {5, 12}, s \in {1, 4}, d \in {0, 127, 128}}
                 \cup {IndexScale(Gp(4), Gp(0), 8, 0), IndexScale(Gp(13), Gp(0), 2, 8)}
Literals    == {Literal(Local("slot"), d) : d \in {0, 8}} \cup {Literal(Foreign("puts"), 0)}
Mems        == BaseDisps \cup IndexScales \cup Literals

Imms(size) == {5} \cup IF size = 1 THEN {0, -1, 127} ELSE {-1, 128} \cup (IF size > 2 THEN {70000} ELSE {})

Operands(kind, size) ==
  CASE kind = "gp"     -> Gps(size)
    [] kind = "xmm"    -> Xms
    [] kind = "mem"    -> Mems
    [] kind = "imm"    -> {Imm(v) : v \in Imms(size)}
    [] kind = "cl"     -> {rcx}
    [] kind = "none"   -> {None}
    [] kind = "symbol" -> {[k |-> "symbol", sym |-> s] : s \in {Foreign("puts"), Default("f"), Local("slot")}}

\* Beside an address, two registers.
Beside(kind, other, size) ==
  Operands(kind, size) \ (IF other # "mem" THEN {}
                          ELSE {Gp(n) : n \in {0, 4, 5, 7, 8, 12}} \cup {Xm(n) : n \in {0, 8}})

Args(op, size) ==
  CASE op = "cmov" -> {0, 5, 15}
    [] op = "setcc" -> {0, 5, 15}
    [] op \in {"movzx", "movsx"} -> {1, 2} \ {size}
    [] op = "movsxd" -> {4}
    [] OTHER -> {0}

SourceSize(op, arg, size) == IF op \in {"movzx", "movsx"} THEN arg ELSE size

\* A shift of a byte only, by a constant, of a slot: the distance EncodeMI8 states is right for one byte.
Exact(o, i) ==
  /\ o.op \in {"sal", "sar", "shr"} /\ i.src.k = "imm" => i.src.v = 5
  /\ o.op \in {"sal", "sar", "shr"} /\ i.dst.k = "literal" => o.size = 1
  /\ o.op \in {"movzx", "movsx", "movsxd"} => i.size # i.arg

InstructionsOf(o) ==
  {i \in UNION {{Instruction(o.op, o.size, a, s, d) :
                   s \in Beside(o.src, o.dst, SourceSize(o.op, a, o.size)),
                   d \in Beside(o.dst, o.src, o.size)} :
                 a \in Args(o.op, o.size)} : Exact(o, i)}

(* The encodings the code gets wrong, and which no emitter asks for: and,  *)
(* the forms of test other than with a register, subtraction, a 2-byte     *)
(* cdq, movsxd to less than 8 bytes.                                       *)
Sound(o) ==
  /\ o.op # "and" /\ o.op \notin {"subss", "subsd"}
  /\ o.op = "test" => o.src = "gp"
  /\ o.op = "cdq" => o.size # 2
  /\ o.op = "movsxd" => o.size = 8

Overloads == {o \in MoveOverloads \cup ArithmeticOverloads \cup UnaryOverloads \cup ScalarOverloads : Sound(o)}

Constant(v, size) == [leaf |-> "constant", v |-> v, size |-> size]

Single(i) ==
  [slots |-> <<Unit1(Local("slot"), <<Constant(1, 8), Constant(2, 8)>>)>>,
   functions |-> <<Unit1(Default("f"), <<i, Return>>)>>,
   externals |-> <<Foreign("getc"), Foreign("puts")>>]

-------------------------------------------------------------------------------
(* Jumps over a given number of bytes.  Distances of -127 and -128, for    *)
(* which the short form wraps, are left out.                               *)

Fill(n) == [k \in 1..(n \div 5) |-> Instruction("mov", 4, 0, Imm(7), rax)]
             \o [k \in 1..(n % 5) |-> Instruction("leave", 8, 0, None, None)]

Alone(items, labels) ==
  [slots |-> <<>>, functions |-> <<[sym |-> Default("f"), items |-> items, labels |-> labels]>>, externals |-> <<>>]

Backward(n)  == Alone(Fill(n) \o <<Jump(1)>> \o <<Return>>, <<0>>)
BackwardIf(n) == Alone(Fill(n) \o <<JumpIf(4, 1), Return>>, <<0>>)
Loop(n) ==
  Alone(<<JumpIf(13, 2)>> \o Fill(n) \o <<JumpIf(5, 2), Jump(1), Return>>, <<0, Len(Fill(n)) + 3>>)
Skip(n) == Alone(<<Jump(2), Jump(1)>> \o Fill(n) \o <<Jump(2), Return>>, <<1, Len(Fill(n)) + 2>>)

Lengths == {0, 1, 7, 120, 124, 126, 129, 135}
JumpModules == {Backward(n) : n \in Lengths} \cup {BackwardIf(n) : n \in Lengths}
                 \cup {Loop(n) : n \in Lengths \ {120, 126}} \cup {Skip(n) : n \in Lengths}

-------------------------------------------------------------------------------
(* Several units: calls between functions, literals, strings.              *)

Text(n) == [leaf |-> "string", chars |-> [k \in 1..n |-> 65]]
Load(s, d) == Instruction("mov", 8, 0, Literal(s, d), Gp(8))
Store(s, d, v, size) == Instruction("mov", size, 0, Imm(v), Literal(s, d))

Caller == [sym |-> Default("f"), labels |-> <<2>>,
           items |-> <<CallOf(Default("g")), Load(Local("b"), 8), Store(Local("a"), 4, 7, 4),
                       CallOf(Foreign("puts")), JumpIf(4, 1), CallOf(Default("f")), Return>>]
Callee == Unit1(Default("g"), <<CallOf(Foreign("getc")), Store(Local("b"), 0, -1, 2), Return>>)

Composed(slots, functions) ==
  [slots |-> slots, functions |-> functions, externals |-> <<Foreign("getc"), Foreign("puts")>>]

SlotA == Unit1(Local("a"), <<Constant(5, 4), Constant(-1, 4)>>)
SlotB == Unit1(Local("b"), <<[leaf |-> "zero", size |-> 16], Text(3), Constant(9, 1)>>)

ComposedModules ==
  {Composed(s, f) : s \in {<<SlotA, SlotB>>, <<SlotB, SlotA>>}, f \in {<<Caller, Callee>>, <<Callee, Caller>>}}

MCModules ==
  {Single(i) : i \in UNION {InstructionsOf(o) : o \in Overloads}} \cup JumpModules \cup ComposedModules

(* An element of an array at r13: the base that needs a displacement.      *)
BaseR13 == {Single(Instruction("mov", 8, 0, IndexScale(Gp(13), Gp(0), 8, 0), Gp(0)))}
=============================================================================
