------------------------- MODULE Assembler_proofs -------------------------
(***************************************************************************)
(* Theorems about the assembler, for every set of modules: what it emits   *)
(* is bytes, the dry run measures it, and jumps and references lead where  *)
(* they should.                                                            *)
(***************************************************************************)
EXTENDS Assembler, FiniteSetTheorems, SequenceTheorems, TLAPS

\* What is known of the numbers up to a bound.
Base == INSTANCE FlowGraph_proofs

\* A number in bytes.
LEMMA LittleEndianTyped ==
  ASSUME NEW v \in Int, NEW w \in Nat
  PROVE  LittleEndian(v, w) \in Seq(Int) /\ Len(LittleEndian(v, w)) = w
  BY DEF LittleEndian

\* Registers, as operands and as numbers.
LEMMA RegisterTyped ==
  ASSUME NEW r \in GPRegs \cup XmmRegs
  PROVE  /\ IsRegister(r) /\ r.k \in {"gp", "xmm"} /\ r.n \in 0 .. 31 /\ LowBits(r) \in 0 .. 7
         /\ Is64BitReg(r) \in BOOLEAN
<1>1. ASSUME NEW n \in 0 .. 15, r = Gp(n)
      PROVE r.k = "gp" /\ r.n = n
  BY <1>1 DEF Gp
<1>2. ASSUME NEW n \in 0 .. 15, r = Xm(n)
      PROVE r.k = "xmm" /\ r.n = 16 + n
  BY <1>2 DEF Xm
<1>3. r.k \in {"gp", "xmm"} /\ r.n \in 0 .. 31
  <2>1. CASE r \in GPRegs
    BY <2>1, <1>1 DEF GPRegs
  <2>2. CASE r \in XmmRegs
    BY <2>2, <1>2 DEF XmmRegs
  <2>. QED BY <2>1, <2>2
<1>4. LowBits(r) \in 0 .. 7
  BY <1>3 DEF LowBits
<1>5. Is64BitReg(r) \in BOOLEAN
  <2>1. CASE r.k = "xmm"
    BY <2>1 DEF Is64BitReg
  <2>2. CASE r.k # "xmm"
    BY <2>2 DEF Is64BitReg
  <2>. QED BY <2>1, <2>2
<1>. QED BY <1>3, <1>4, <1>5 DEF IsRegister

\* Sequences of bytes put together.
LEMMA Joined ==
  ASSUME NEW a \in Seq(Int), NEW b \in Seq(Int)
  PROVE  a \o b \in Seq(Int) /\ Len(a \o b) = Len(a) + Len(b) /\ Len(a) \in Nat /\ Len(b) \in Nat
  OBVIOUS

\* Three of them.
LEMMA Joined3 ==
  ASSUME NEW a \in Seq(Int), NEW b \in Seq(Int), NEW c \in Seq(Int)
  PROVE  /\ a \o b \o c \in Seq(Int) /\ Len(a \o b \o c) = Len(a) + Len(b) + Len(c)
         /\ Len(a) \in Nat /\ Len(b) \in Nat /\ Len(c) \in Nat
<1>1. a \o b \in Seq(Int) /\ Len(a \o b) = Len(a) + Len(b)
  BY Joined
<1> DEFINE d == a \o b
<1>2. d \in Seq(Int)
  BY <1>1
<1> HIDE DEF d
<1>3. d \o c \in Seq(Int) /\ Len(d \o c) = Len(d) + Len(c)
  BY <1>2, Joined
<1>. QED BY <1>1, <1>3 DEF d

\* A number that fits in a size is a number.
LEMMA NumbersInSize ==
  ASSUME NEW v, NEW s, InSize(v, s)
  PROVE  v \in Int
  BY DEF InSize

\* An address, with the parts its kind has.
IsMem(o) == /\ o.k \in {"base", "index", "literal"} /\ o.disp \in Int
            /\ o.k \in {"base", "index"} => o.base \in GPRegs
            /\ o.k = "index" => o.index \in GPRegs
            /\ o.k = "literal" => o.sym.bind \in {"external", "internal"}

\* An address the emitters make is one.
LEMMA AddressTyped ==
  ASSUME NEW a, IsAddress(a)
  PROVE  IsMem(a)
  BY NumbersInSize DEF IsAddress, IsMem

\* What the r/m field of an instruction may stand for.
IsRM(o) == o \in GPRegs \cup XmmRegs \/ IsMem(o)

\* ModR/M, SIB and displacement are bytes; for a symbol, five of them.
LEMMA OperandsTyped ==
  ASSUME NEW m \in Int, NEW o, IsRM(o)
  PROVE  /\ EmitOperands(m, o) \in Seq(Int) /\ Len(EmitOperands(m, o)) > 0
         /\ o.k = "literal" => Len(EmitOperands(m, o)) = 5
<1>1. CASE o \in GPRegs \cup XmmRegs
  BY <1>1, RegisterTyped DEF EmitOperands
<1>2. ASSUME o.k \in {"base", "index"}, IsMem(o)
      PROVE  Mod(o) \in Int /\ Displacement(o) \in Seq(Int) /\ LowBits(o.base) \in Int
  <2>1. o.base \in GPRegs /\ o.disp \in Int
    BY <1>2 DEF IsMem
  <2>2. Mod(o) \in Int
    BY <2>1 DEF Mod
  <2>3. Displacement(o) \in Seq(Int)
    BY <2>1, LittleEndianTyped DEF Displacement
  <2>. QED BY <2>1, <2>2, <2>3, RegisterTyped
<1>3. CASE o.k = "base" /\ IsMem(o)
  <2>1. LowBits(rsp) \in Int
    BY DEF rsp, Gp, LowBits
  <2> DEFINE x == <<Mod(o) + 8 * m + LowBits(o.base)>>
             y == IF o.base = rsp THEN <<8 * LowBits(rsp) + LowBits(o.base)>> ELSE <<>>
  <2>2. x \in Seq(Int) /\ y \in Seq(Int) /\ Len(x) = 1
    BY <1>2, <1>3, <2>1
  <2>3. EmitOperands(m, o) = x \o y \o Displacement(o)
    BY <1>3 DEF EmitOperands, IsRegister, EncodeBaseDisp
  <2> HIDE DEF x, y
  <2>4. EmitOperands(m, o) \in Seq(Int) /\ Len(EmitOperands(m, o)) > 0
    <3>1. Displacement(o) \in Seq(Int)
      BY <1>2, <1>3
    <3> DEFINE d == Displacement(o)
               e == EmitOperands(m, o)
    <3>2. e = x \o y \o d
      BY <2>3
    <3>3. d \in Seq(Int)
      BY <3>1
    <3> HIDE DEF d, e
    <3>4. e \in Seq(Int) /\ Len(e) = Len(x) + Len(y) + Len(d) /\ Len(y) \in Nat /\ Len(d) \in Nat
      BY <3>2, <3>3, <2>2, Joined3
    <3>5. Len(e) > 0
      BY <3>4, <2>2
    <3>. QED BY <3>4, <3>5 DEF e
  <2>. QED BY <1>3, <2>4
<1>4. CASE o.k = "index" /\ IsMem(o)
  <2>1. LowBits(o.index) \in Int
    BY <1>4, RegisterTyped DEF IsMem
  <2> DEFINE scale == CASE o.scale = 2 -> 1 [] o.scale = 4 -> 2 [] o.scale = 8 -> 3 [] OTHER -> 0
             x == <<Mod(o) + 8 * m + 4, 64 * scale + 8 * LowBits(o.index) + LowBits(o.base)>>
  <2>2. scale \in Int
    OBVIOUS
  <2>3. EmitOperands(m, o) = x \o Displacement(o)
    BY <1>4 DEF EmitOperands, IsRegister, EncodeIndexScale
  <2> HIDE DEF scale
  <2>4. x \in Seq(Int) /\ Len(x) = 2
    BY <1>2, <1>4, <2>1, <2>2
  <2> HIDE DEF x
  <2>5. EmitOperands(m, o) \in Seq(Int) /\ Len(EmitOperands(m, o)) > 0
    <3>1. Displacement(o) \in Seq(Int)
      BY <1>2, <1>4
    <3> DEFINE d == Displacement(o)
               e == EmitOperands(m, o)
    <3>2. e = x \o d
      BY <2>3
    <3>3. d \in Seq(Int)
      BY <3>1
    <3> HIDE DEF d, e
    <3>4. e \in Seq(Int) /\ Len(e) = Len(x) + Len(d) /\ Len(d) \in Nat
      BY <3>2, <3>3, <2>4, Joined
    <3>5. Len(e) > 0
      BY <3>4, <2>4
    <3>. QED BY <3>4, <3>5 DEF e
  <2>. QED BY <1>4, <2>5
<1>5. CASE o.k = "literal" /\ IsMem(o)
  BY <1>5 DEF EmitOperands, IsRegister, EncodeLiteral, Unpatched
<1>. QED BY <1>1, <1>3, <1>4, <1>5 DEF IsRM, IsMem

\* The prefix is bytes.
LEMMA RexTyped ==
  ASSUME NEW size, NEW narrow, NEW looked, NEW reg, NEW rm,
         IsRM(reg) \/ reg = None, IsRM(rm)
  PROVE  Rex(size, narrow, looked, reg, rm) \in Seq(Int)
<1>1. R(reg) \in Int
  BY RegisterTyped DEF IsRM, IsMem, None, R, Bit, IsRegister
<1>2. X(rm) \in Int
  BY RegisterTyped DEF IsRM, IsMem, X, Bit
<1>3. B(rm) \in Int
  BY RegisterTyped DEF IsRM, IsMem, B, Bit, IsRegister
<1>4. 64 + (IF size = 8 THEN 8 ELSE 0) + R(reg) + X(rm) + B(rm) \in Int
  BY <1>1, <1>2, <1>3
<1>. QED BY <1>4 DEF Rex

\* So is all that comes before the opcode.
LEMMA PrologueTyped ==
  ASSUME NEW size, NEW reg, NEW rm, IsRM(reg) \/ reg = None, IsRM(rm)
  PROVE  /\ AddWordOpSize(size) \in Seq(Int)
         /\ EmitOpPrologue(size, reg, rm) \in Seq(Int)
         /\ \A from : EmitExtensionPrologue(size, from, reg, rm) \in Seq(Int)
  BY RexTyped DEF AddWordOpSize, EmitOpPrologue, EmitExtensionPrologue

\* Bytes, and the relocation that lies in them, if there is one.
IsEmitted(e) ==
  /\ e.bytes \in Seq(Int) /\ Len(e.bytes) > 0
  /\ \/ e.relocs = <<>>
     \/ \E r : /\ e.relocs = <<r>>
               /\ r \in [type: {"PC32", "PLT32"}, offset: Nat, disp: Int, sym: {r.sym}]
               /\ r.offset + 4 <= Len(e.bytes)

\* Bytes alone.
LEMMA PlainEmitted ==
  ASSUME NEW b \in Seq(Int), Len(b) > 0
  PROVE  IsEmitted(Plain(b))
  BY DEF IsEmitted, Plain

\* The relocation of a symbol lies in the four bytes after ModR/M, whatever comes before and after.
LEMMA EmitEmitted ==
  ASSUME NEW front \in Seq(Int), NEW m \in Int, NEW rm, IsRM(rm), NEW toEnd \in Int,
         NEW imm \in Seq(Int)
  PROVE  IsEmitted(Emit(front, m, rm, toEnd, imm))
<1> DEFINE o == EmitOperands(m, rm)
           b == front \o o \o imm
           end == Len(front) + Len(o)
           r == LiteralRelocation(rm, end, toEnd)
           e == Emit(front, m, rm, toEnd, imm)
<1>1. o \in Seq(Int) /\ Len(o) > 0 /\ (rm.k = "literal" => Len(o) = 5)
  BY OperandsTyped
<1>2. e = [bytes |-> b, relocs |-> IF rm.k = "literal" THEN <<r>> ELSE <<>>]
  BY DEF Emit
<1> HIDE DEF o, e
<1>3. b \in Seq(Int) /\ Len(b) = Len(front) + Len(o) + Len(imm) /\ Len(front) \in Nat /\ Len(o) \in Nat /\ Len(imm) \in Nat
  BY <1>1, Joined3
<1> HIDE DEF b
<1>4. e.bytes = b /\ e.relocs = IF rm.k = "literal" THEN <<r>> ELSE <<>>
  BY <1>2
<1>5. Len(b) > 0
  BY <1>1, <1>3
<1>6. CASE rm.k = "literal"
  <2>0. Len(o) = 5 /\ Len(front) \in Nat /\ Len(imm) \in Nat /\ Len(b) = Len(front) + 5 + Len(imm) /\ end = Len(front) + 5
    BY <1>1, <1>3, <1>6
  <2>1. Len(o) = 5 /\ end - 4 \in Nat /\ end - 4 + 4 <= Len(b) /\ end \in Int
    BY <2>0
  <2>2. rm.disp \in Int /\ rm.sym.bind \in {"external", "internal"}
    BY <1>6, RegisterTyped DEF IsRM, IsMem
  <2> HIDE DEF end
  <2>3. r.type = RelType(rm.sym) /\ r.offset = end - 4 /\ r.disp = end + toEnd - rm.disp
    BY DEF LiteralRelocation
  <2>4. RelType(rm.sym) \in {"PC32", "PLT32"}
    BY <2>2 DEF RelType
  <2> HIDE DEF r
  <2>5. r.offset \in Nat /\ r.disp \in Int /\ r.offset + 4 <= Len(b)
    BY <2>1, <2>2, <2>3
  <2>6. r \in [type: {"PC32", "PLT32"}, offset: Nat, disp: Int, sym: {r.sym}]
    <3>1. r = [type |-> RelType(rm.sym), offset |-> end - 4, disp |-> end + toEnd - rm.disp, sym |-> rm.sym]
      BY DEF LiteralRelocation, r
    <3>. QED BY <2>1, <2>2, <2>4, <3>1
  <2>. QED BY <1>3, <1>4, <1>5, <1>6, <2>5, <2>6 DEF IsEmitted, e
<1>7. CASE rm.k # "literal"
  BY <1>3, <1>4, <1>5, <1>7 DEF IsEmitted, e
<1>. QED BY <1>6, <1>7 

\* The same with nothing after it.
LEMMA EmitAlone ==
  ASSUME NEW front \in Seq(Int), NEW m \in Int, NEW rm, IsRM(rm)
  PROVE  IsEmitted(Emit(front, m, rm, 0, <<>>))
<1> DEFINE none == <<>>
           zero == 0
<1>1. none \in Seq(Int) /\ zero \in Int
  OBVIOUS
<1> HIDE DEF none, zero
<1>2. IsEmitted(Emit(front, m, rm, zero, none))
  BY <1>1, EmitEmitted
<1>. QED BY <1>2 DEF none, zero

\* Integer operations with two operands.
TwoOperandOps == {"add", "and", "or", "sub", "cmp", "xor", "test", "mov"}
\* Floating-point operations between registers and memory.
BinaryScalarOps == {"addss", "addsd", "subss", "subsd", "divss", "divsd", "ucomiss", "ucomisd",
                    "comiss", "comisd", "xorps", "xorpd"}
\* All integer operations.
IntegerOps ==
  TwoOperandOps \cup {"cmov", "movzx", "movsx", "movsxd", "push", "pop", "call", "neg", "div", "idiv",
                      "sal", "sar", "shr", "setcc", "lea", "ret", "leave", "cdq"}
\* All floating-point operations.
ScalarOps == {"movss", "movsd"} \cup BinaryScalarOps \cup {"cvttss2si", "cvttsd2si", "cvtsi2ss", "cvtsi2sd"}
\* The kinds of operands each operation takes.
Takes(op, size, src, dst) ==
  /\ op \in IntegerOps \cup ScalarOps
  /\ op \in TwoOperandOps =>
       /\ size \in Sizes /\ src \in {"gp", "imm", "mem"} /\ dst \in {"gp", "mem"}
       /\ src = "mem" => dst = "gp"
  /\ op \in {"cmov", "movzx", "movsx", "movsxd"} => size \in {2, 4, 8} /\ src \in {"gp", "mem"} /\ dst = "gp"
  /\ op = "push" => /\ src = "none" /\ dst \in {"gp", "mem", "imm"}
                    /\ size \in IF dst = "imm" THEN {1, 2, 4} ELSE {2, 8}
  /\ op = "pop" => size \in {2, 8} /\ src = "none" /\ dst \in {"gp", "mem"}
  /\ op = "call" => size = 8 /\ src = "none" /\ dst \in {"symbol", "mem"}
  /\ op \in {"neg", "div", "idiv"} => size \in Sizes /\ src = "none" /\ dst \in {"gp", "mem"}
  /\ op \in {"sal", "sar", "shr"} =>
       size \in Sizes /\ src \in {"imm", "cl"} /\ dst \in {"gp", "mem"} /\ (src = "cl" => dst = "gp")
  /\ op = "setcc" => size = 1 /\ src = "none" /\ dst = "gp"
  /\ op = "lea" => size = 8 /\ src = "mem" /\ dst = "gp"
  /\ op \in {"ret", "leave", "cdq"} => size \in {2, 4, 8} /\ src = "none" /\ dst = "none"
  /\ op \in {"movss", "movsd"} =>
       size = 4 /\ src \in {"xmm", "mem"} /\ dst \in {"xmm", "mem"} /\ (src = "mem" => dst = "xmm")
  /\ op \in BinaryScalarOps => size = 4 /\ src \in {"xmm", "mem"} /\ dst = "xmm"
  /\ op \in {"cvttss2si", "cvttsd2si"} => size \in {4, 8} /\ src \in {"xmm", "mem"} /\ dst = "gp"
  /\ op \in {"cvtsi2ss", "cvtsi2sd"} => size \in {4, 8} /\ src \in {"gp", "mem"} /\ dst = "xmm"

\* Each overload takes the kinds named.
LEMMA KindsTaken ==
  ASSUME NEW o \in AllOverloads
  PROVE  Takes(o.op, o.size, o.src, o.dst)
<1>1. CASE o \in MoveOverloads
  <2>0. \/ o \in Overload({"mov"}, {"gp", "imm"}, {"gp", "mem"}, Sizes)
        \/ o \in Overload({"mov"}, {"mem"}, {"gp"}, Sizes)
        \/ o \in Overload({"cmov"}, {"gp", "mem"}, {"gp"}, {2, 4, 8})
        \/ o \in Overload({"push", "pop"}, {"none"}, {"gp", "mem"}, {2, 8})
        \/ o \in Overload({"push"}, {"none"}, {"imm"}, {1, 2, 4})
        \/ o \in Overload({"ret"}, {"none"}, {"none"}, {8})
    BY <1>1 DEF MoveOverloads
  <2>1. CASE o \in Overload({"mov"}, {"gp", "imm"}, {"gp", "mem"}, Sizes)
    <3>1. o.op \in {"mov"} /\ o.src \in {"gp", "imm"} /\ o.dst \in {"gp", "mem"} /\ o.size \in Sizes
      BY <2>1 DEF Overload
    <3>. QED BY <3>1 DEF Takes, IntegerOps, ScalarOps, TwoOperandOps, BinaryScalarOps, Sizes
  <2>2. CASE o \in Overload({"mov"}, {"mem"}, {"gp"}, Sizes)
    <3>1. o.op \in {"mov"} /\ o.src \in {"mem"} /\ o.dst \in {"gp"} /\ o.size \in Sizes
      BY <2>2 DEF Overload
    <3>. QED BY <3>1 DEF Takes, IntegerOps, ScalarOps, TwoOperandOps, BinaryScalarOps, Sizes
  <2>3. CASE o \in Overload({"cmov"}, {"gp", "mem"}, {"gp"}, {2, 4, 8})
    <3>1. o.op \in {"cmov"} /\ o.src \in {"gp", "mem"} /\ o.dst \in {"gp"} /\ o.size \in {2, 4, 8}
      BY <2>3 DEF Overload
    <3>. QED BY <3>1 DEF Takes, IntegerOps, ScalarOps, TwoOperandOps, BinaryScalarOps, Sizes
  <2>4. CASE o \in Overload({"push", "pop"}, {"none"}, {"gp", "mem"}, {2, 8})
    <3>1. o.op \in {"push", "pop"} /\ o.src \in {"none"} /\ o.dst \in {"gp", "mem"} /\ o.size \in {2, 8}
      BY <2>4 DEF Overload
    <3>. QED BY <3>1 DEF Takes, IntegerOps, ScalarOps, TwoOperandOps, BinaryScalarOps, Sizes
  <2>5. CASE o \in Overload({"push"}, {"none"}, {"imm"}, {1, 2, 4})
    <3>1. o.op \in {"push"} /\ o.src \in {"none"} /\ o.dst \in {"imm"} /\ o.size \in {1, 2, 4}
      BY <2>5 DEF Overload
    <3>. QED BY <3>1 DEF Takes, IntegerOps, ScalarOps, TwoOperandOps, BinaryScalarOps, Sizes
  <2>6. CASE o \in Overload({"ret"}, {"none"}, {"none"}, {8})
    <3>1. o.op \in {"ret"} /\ o.src \in {"none"} /\ o.dst \in {"none"} /\ o.size \in {8}
      BY <2>6 DEF Overload
    <3>. QED BY <3>1 DEF Takes, IntegerOps, ScalarOps, TwoOperandOps, BinaryScalarOps, Sizes
  <2>. QED BY <2>0, <2>1, <2>2, <2>3, <2>4, <2>5, <2>6
<1>2. CASE o \in ArithmeticOverloads
  <2>0. \/ o \in Overload({"add", "and", "or", "sub", "cmp", "xor", "test"}, {"gp", "imm"}, {"gp", "mem"}, Sizes)
        \/ o \in Overload({"add", "and", "or", "sub", "cmp", "xor", "test"}, {"mem"}, {"gp"}, Sizes)
    BY <1>2 DEF ArithmeticOverloads
  <2>1. CASE o \in Overload({"add", "and", "or", "sub", "cmp", "xor", "test"}, {"gp", "imm"}, {"gp", "mem"}, Sizes)
    <3>1. o.op \in {"add", "and", "or", "sub", "cmp", "xor", "test"} /\ o.src \in {"gp", "imm"} /\ o.dst \in {"gp", "mem"} /\ o.size \in Sizes
      BY <2>1 DEF Overload
    <3>. QED BY <3>1 DEF Takes, IntegerOps, ScalarOps, TwoOperandOps, BinaryScalarOps, Sizes
  <2>2. CASE o \in Overload({"add", "and", "or", "sub", "cmp", "xor", "test"}, {"mem"}, {"gp"}, Sizes)
    <3>1. o.op \in {"add", "and", "or", "sub", "cmp", "xor", "test"} /\ o.src \in {"mem"} /\ o.dst \in {"gp"} /\ o.size \in Sizes
      BY <2>2 DEF Overload
    <3>. QED BY <3>1 DEF Takes, IntegerOps, ScalarOps, TwoOperandOps, BinaryScalarOps, Sizes
  <2>. QED BY <2>0, <2>1, <2>2
<1>3. CASE o \in UnaryOverloads
  <2>0. \/ o \in Overload({"call"}, {"none"}, {"symbol", "mem"}, {8})
        \/ o \in Overload({"movzx", "movsx", "movsxd"}, {"gp", "mem"}, {"gp"}, {2, 4, 8})
        \/ o \in Overload({"neg", "div", "idiv"}, {"none"}, {"gp", "mem"}, Sizes)
        \/ o \in Overload({"cdq"}, {"none"}, {"none"}, {2, 4, 8})
        \/ o \in Overload({"leave"}, {"none"}, {"none"}, {8})
        \/ o \in Overload({"sal", "sar", "shr"}, {"imm"}, {"gp", "mem"}, Sizes)
        \/ o \in Overload({"sal", "sar", "shr"}, {"cl"}, {"gp"}, Sizes)
        \/ o \in Overload({"setcc"}, {"none"}, {"gp"}, {1})
        \/ o \in Overload({"lea"}, {"mem"}, {"gp"}, {8})
    BY <1>3 DEF UnaryOverloads
  <2>1. CASE o \in Overload({"call"}, {"none"}, {"symbol", "mem"}, {8})
    <3>1. o.op \in {"call"} /\ o.src \in {"none"} /\ o.dst \in {"symbol", "mem"} /\ o.size \in {8}
      BY <2>1 DEF Overload
    <3>. QED BY <3>1 DEF Takes, IntegerOps, ScalarOps, TwoOperandOps, BinaryScalarOps, Sizes
  <2>2. CASE o \in Overload({"movzx", "movsx", "movsxd"}, {"gp", "mem"}, {"gp"}, {2, 4, 8})
    <3>1. o.op \in {"movzx", "movsx", "movsxd"} /\ o.src \in {"gp", "mem"} /\ o.dst \in {"gp"} /\ o.size \in {2, 4, 8}
      BY <2>2 DEF Overload
    <3>. QED BY <3>1 DEF Takes, IntegerOps, ScalarOps, TwoOperandOps, BinaryScalarOps, Sizes
  <2>3. CASE o \in Overload({"neg", "div", "idiv"}, {"none"}, {"gp", "mem"}, Sizes)
    <3>1. o.op \in {"neg", "div", "idiv"} /\ o.src \in {"none"} /\ o.dst \in {"gp", "mem"} /\ o.size \in Sizes
      BY <2>3 DEF Overload
    <3>. QED BY <3>1 DEF Takes, IntegerOps, ScalarOps, TwoOperandOps, BinaryScalarOps, Sizes
  <2>4. CASE o \in Overload({"cdq"}, {"none"}, {"none"}, {2, 4, 8})
    <3>1. o.op \in {"cdq"} /\ o.src \in {"none"} /\ o.dst \in {"none"} /\ o.size \in {2, 4, 8}
      BY <2>4 DEF Overload
    <3>. QED BY <3>1 DEF Takes, IntegerOps, ScalarOps, TwoOperandOps, BinaryScalarOps, Sizes
  <2>5. CASE o \in Overload({"leave"}, {"none"}, {"none"}, {8})
    <3>1. o.op \in {"leave"} /\ o.src \in {"none"} /\ o.dst \in {"none"} /\ o.size \in {8}
      BY <2>5 DEF Overload
    <3>. QED BY <3>1 DEF Takes, IntegerOps, ScalarOps, TwoOperandOps, BinaryScalarOps, Sizes
  <2>6. CASE o \in Overload({"sal", "sar", "shr"}, {"imm"}, {"gp", "mem"}, Sizes)
    <3>1. o.op \in {"sal", "sar", "shr"} /\ o.src \in {"imm"} /\ o.dst \in {"gp", "mem"} /\ o.size \in Sizes
      BY <2>6 DEF Overload
    <3>. QED BY <3>1 DEF Takes, IntegerOps, ScalarOps, TwoOperandOps, BinaryScalarOps, Sizes
  <2>7. CASE o \in Overload({"sal", "sar", "shr"}, {"cl"}, {"gp"}, Sizes)
    <3>1. o.op \in {"sal", "sar", "shr"} /\ o.src \in {"cl"} /\ o.dst \in {"gp"} /\ o.size \in Sizes
      BY <2>7 DEF Overload
    <3>. QED BY <3>1 DEF Takes, IntegerOps, ScalarOps, TwoOperandOps, BinaryScalarOps, Sizes
  <2>8. CASE o \in Overload({"setcc"}, {"none"}, {"gp"}, {1})
    <3>1. o.op \in {"setcc"} /\ o.src \in {"none"} /\ o.dst \in {"gp"} /\ o.size \in {1}
      BY <2>8 DEF Overload
    <3>. QED BY <3>1 DEF Takes, IntegerOps, ScalarOps, TwoOperandOps, BinaryScalarOps, Sizes
  <2>9. CASE o \in Overload({"lea"}, {"mem"}, {"gp"}, {8})
    <3>1. o.op \in {"lea"} /\ o.src \in {"mem"} /\ o.dst \in {"gp"} /\ o.size \in {8}
      BY <2>9 DEF Overload
    <3>. QED BY <3>1 DEF Takes, IntegerOps, ScalarOps, TwoOperandOps, BinaryScalarOps, Sizes
  <2>. QED BY <2>0, <2>1, <2>2, <2>3, <2>4, <2>5, <2>6, <2>7, <2>8, <2>9
<1>4. CASE o \in ScalarOverloads
  <2>0. \/ o \in Overload({"movss", "movsd"}, {"xmm"}, {"xmm", "mem"}, {4})
        \/ o \in Overload({"movss", "movsd"}, {"mem"}, {"xmm"}, {4})
        \/ o \in Overload(BinaryScalarOps, {"xmm", "mem"}, {"xmm"}, {4})
        \/ o \in Overload({"cvttss2si", "cvttsd2si"}, {"xmm", "mem"}, {"gp"}, {4, 8})
        \/ o \in Overload({"cvtsi2ss", "cvtsi2sd"}, {"gp", "mem"}, {"xmm"}, {4, 8})
    BY <1>4 DEF ScalarOverloads, BinaryScalarOps
  <2>1. CASE o \in Overload({"movss", "movsd"}, {"xmm"}, {"xmm", "mem"}, {4})
    <3>1. o.op \in {"movss", "movsd"} /\ o.src \in {"xmm"} /\ o.dst \in {"xmm", "mem"} /\ o.size \in {4}
      BY <2>1 DEF Overload
    <3>. QED BY <3>1 DEF Takes, IntegerOps, ScalarOps, TwoOperandOps, BinaryScalarOps, Sizes
  <2>2. CASE o \in Overload({"movss", "movsd"}, {"mem"}, {"xmm"}, {4})
    <3>1. o.op \in {"movss", "movsd"} /\ o.src \in {"mem"} /\ o.dst \in {"xmm"} /\ o.size \in {4}
      BY <2>2 DEF Overload
    <3>. QED BY <3>1 DEF Takes, IntegerOps, ScalarOps, TwoOperandOps, BinaryScalarOps, Sizes
  <2>3. CASE o \in Overload(BinaryScalarOps, {"xmm", "mem"}, {"xmm"}, {4})
    <3>1. o.op \in BinaryScalarOps /\ o.src \in {"xmm", "mem"} /\ o.dst \in {"xmm"} /\ o.size \in {4}
      BY <2>3 DEF Overload
    <3>. QED BY <3>1 DEF Takes, IntegerOps, ScalarOps, TwoOperandOps, BinaryScalarOps, Sizes
  <2>4. CASE o \in Overload({"cvttss2si", "cvttsd2si"}, {"xmm", "mem"}, {"gp"}, {4, 8})
    <3>1. o.op \in {"cvttss2si", "cvttsd2si"} /\ o.src \in {"xmm", "mem"} /\ o.dst \in {"gp"} /\ o.size \in {4, 8}
      BY <2>4 DEF Overload
    <3>. QED BY <3>1 DEF Takes, IntegerOps, ScalarOps, TwoOperandOps, BinaryScalarOps, Sizes
  <2>5. CASE o \in Overload({"cvtsi2ss", "cvtsi2sd"}, {"gp", "mem"}, {"xmm"}, {4, 8})
    <3>1. o.op \in {"cvtsi2ss", "cvtsi2sd"} /\ o.src \in {"gp", "mem"} /\ o.dst \in {"xmm"} /\ o.size \in {4, 8}
      BY <2>5 DEF Overload
    <3>. QED BY <3>1 DEF Takes, IntegerOps, ScalarOps, TwoOperandOps, BinaryScalarOps, Sizes
  <2>. QED BY <2>0, <2>1, <2>2, <2>3, <2>4, <2>5
<1>. QED BY <1>1, <1>2, <1>3, <1>4 DEF AllOverloads

\* The operations of the floating-point overloads.
LEMMA ScalarOpsAre == {o.op : o \in ScalarOverloads} = ScalarOps
<1>1. ASSUME NEW o \in ScalarOverloads PROVE o.op \in ScalarOps
  <2>1. \/ o \in Overload({"movss", "movsd"}, {"xmm"}, {"xmm", "mem"}, {4})
        \/ o \in Overload({"movss", "movsd"}, {"mem"}, {"xmm"}, {4})
        \/ o \in Overload(BinaryScalarOps, {"xmm", "mem"}, {"xmm"}, {4})
        \/ o \in Overload({"cvttss2si", "cvttsd2si"}, {"xmm", "mem"}, {"gp"}, {4, 8})
        \/ o \in Overload({"cvtsi2ss", "cvtsi2sd"}, {"gp", "mem"}, {"xmm"}, {4, 8})
    BY DEF ScalarOverloads, BinaryScalarOps
  <2>. QED BY <2>1 DEF Overload, ScalarOps
<1>2. ASSUME NEW op \in ScalarOps PROVE \E o \in ScalarOverloads : o.op = op
  <2>1. CASE op \in {"movss", "movsd"}
    <3> DEFINE o == [op |-> op, src |-> "mem", dst |-> "xmm", size |-> 4]
    <3>1. o \in Overload({"movss", "movsd"}, {"mem"}, {"xmm"}, {4}) /\ o.op = op
      BY <2>1 DEF Overload
    <3> HIDE DEF o
    <3>. QED BY <3>1 DEF ScalarOverloads
  <2>2. CASE op \in BinaryScalarOps
    <3> DEFINE o == [op |-> op, src |-> "mem", dst |-> "xmm", size |-> 4]
    <3>1. o \in Overload(BinaryScalarOps, {"xmm", "mem"}, {"xmm"}, {4}) /\ o.op = op
      BY <2>2 DEF Overload
    <3> HIDE DEF o
    <3>. QED BY <3>1 DEF ScalarOverloads, BinaryScalarOps
  <2>3. CASE op \in {"cvttss2si", "cvttsd2si"}
    <3> DEFINE o == [op |-> op, src |-> "mem", dst |-> "gp", size |-> 4]
    <3>1. o \in Overload({"cvttss2si", "cvttsd2si"}, {"xmm", "mem"}, {"gp"}, {4, 8}) /\ o.op = op
      BY <2>3 DEF Overload
    <3> HIDE DEF o
    <3>. QED BY <3>1 DEF ScalarOverloads
  <2>4. CASE op \in {"cvtsi2ss", "cvtsi2sd"}
    <3> DEFINE o == [op |-> op, src |-> "mem", dst |-> "xmm", size |-> 4]
    <3>1. o \in Overload({"cvtsi2ss", "cvtsi2sd"}, {"gp", "mem"}, {"xmm"}, {4, 8}) /\ o.op = op
      BY <2>4 DEF Overload
    <3> HIDE DEF o
    <3>. QED BY <3>1 DEF ScalarOverloads
  <2>. QED BY <2>1, <2>2, <2>3, <2>4 DEF ScalarOps
<1>. QED BY <1>1, <1>2

\* An operand by its kind.
LEMMA OperandTyped ==
  ASSUME NEW kind, NEW o, NEW size, IsOperand(kind, o, size)
  PROVE  /\ kind = "gp" => o \in GPRegs /\ o.k = "gp"
         /\ kind = "xmm" => o \in XmmRegs /\ o.k = "xmm"
         /\ kind = "mem" => IsMem(o)
         /\ kind = "imm" => o.k = "imm" /\ o.v \in Int
         /\ kind = "cl" => o = rcx
         /\ kind = "none" => o = None
         /\ kind = "symbol" => o.k = "symbol"
<1>1. ASSUME NEW r \in GPRegs PROVE r.k = "gp"
  BY DEF GPRegs, Gp
<1>2. ASSUME NEW r \in XmmRegs PROVE r.k = "xmm"
  BY DEF XmmRegs, Xm
<1>3. CASE kind = "gp"
  BY <1>1, <1>3 DEF IsOperand
<1>4. CASE kind = "xmm"
  BY <1>2, <1>4 DEF IsOperand
<1>5. CASE kind = "mem"
  BY <1>5, AddressTyped DEF IsOperand
<1>6. CASE kind = "imm"
  BY <1>6, NumbersInSize DEF IsOperand
<1>7. CASE kind \in {"cl", "none", "symbol"}
  BY <1>7 DEF IsOperand
<1>. QED BY <1>3, <1>4, <1>5, <1>6, <1>7 DEF IsOperand

\* A register of either file.
IsReg(o) == o \in GPRegs \cup XmmRegs
\* The opcodes of an operation, for a byte and for more.
IsOps(ops) == ops.wide \in Seq(Int) /\ ops.byte \in Seq(Int)

\* Prefix and opcode are bytes.
LEMMA FrontTyped ==
  ASSUME NEW size, NEW reg, NEW rm, IsRM(reg) \/ reg = None, IsRM(rm), NEW ops, IsOps(ops)
  PROVE  EmitOpPrologue(size, reg, rm) \o EmitOpcodes(size, ops) \in Seq(Int)
<1>1. EmitOpPrologue(size, reg, rm) \in Seq(Int) /\ EmitOpcodes(size, ops) \in Seq(Int)
  BY PrologueTyped DEF EmitOpcodes, IsOps
<1>. QED BY <1>1, Joined

\* The encodings with one operand.
LEMMA MTyped ==
  ASSUME NEW size, NEW m \in Int, NEW ops, IsOps(ops), NEW rm, IsRM(rm)
  PROVE  IsEmitted(EncodeM(m, size, ops, rm)) /\ IsEmitted(EncodeMWithoutREXW(m, size, ops, rm))
<1> DEFINE a == EmitOpPrologue(size, None, rm) \o EmitOpcodes(size, ops)
           b == EmitOpPrologue(Min4(size), None, rm) \o EmitOpcodes(size, ops)
<1>1. a \in Seq(Int)
  BY FrontTyped
<1>2. b \in Seq(Int)
  <2>1. EmitOpPrologue(Min4(size), None, rm) \in Seq(Int) /\ EmitOpcodes(size, ops) \in Seq(Int)
    BY PrologueTyped DEF EmitOpcodes, IsOps
  <2>. QED BY <2>1, Joined
<1>3. EncodeM(m, size, ops, rm) = Emit(a, m, rm, 0, <<>>) /\ EncodeMWithoutREXW(m, size, ops, rm) = Emit(b, m, rm, 0, <<>>)
  BY DEF EncodeM, EncodeMWithoutREXW
<1> HIDE DEF a, b
<1>. QED BY <1>1, <1>2, <1>3, EmitAlone

\* The encodings with an immediate.
LEMMA MITyped ==
  ASSUME NEW size \in Sizes, NEW m \in Int, NEW ops, IsOps(ops), NEW v \in Int, NEW rm, IsRM(rm)
  PROVE  IsEmitted(EncodeMI32(m, size, ops, v, rm)) /\ IsEmitted(EncodeMI8(m, size, ops, v, rm))
<1> DEFINE a == EmitOpPrologue(size, None, rm) \o EmitOpcodes(size, ops)
<1>1. a \in Seq(Int)
  BY FrontTyped
<1>2. Min4(size) \in Nat
  BY DEF Min4, Sizes
<1>3. LittleEndian(v, Min4(size)) \in Seq(Int) /\ LittleEndian(v, 1) \in Seq(Int)
  BY <1>2, LittleEndianTyped
<1> HIDE DEF a
<1>4. /\ IsEmitted(Emit(a, m, rm, Min4(size), LittleEndian(v, Min4(size))))
      /\ IsEmitted(Emit(a, m, rm, Min4(size), LittleEndian(v, 1)))
  BY <1>1, <1>2, <1>3, EmitEmitted
<1>. QED BY <1>4 DEF EncodeMI32, EncodeMI8, a

\* The encodings with a register and an operand.
LEMMA MRTyped ==
  ASSUME NEW size, NEW ops, IsOps(ops), NEW reg, IsReg(reg), NEW rm, IsRM(rm)
  PROVE  IsEmitted(EncodeMR(size, ops, reg, rm))
<1> DEFINE a == EmitOpPrologue(size, reg, rm) \o EmitOpcodes(size, ops)
<1>1. a \in Seq(Int)
  BY FrontTyped DEF IsReg, IsRM
<1>2. LowBits(reg) \in Int
  BY RegisterTyped DEF IsReg
<1> HIDE DEF a
<1>3. IsEmitted(Emit(a, LowBits(reg), rm, 0, <<>>))
  BY <1>1, <1>2, EmitAlone
<1>. QED BY <1>3 DEF EncodeMR, a

\* The encoding of shifts by cl.
LEMMA MCTyped ==
  ASSUME NEW size, NEW ops, IsOps(ops), NEW m \in Int, NEW rm, IsRM(rm)
  PROVE  IsEmitted(EncodeMC(m, size, ops, rm))
<1> DEFINE a == EmitOpPrologue(size, None, rm) \o EmitOpcodes(size, ops)
           d == IF IsRegister(rm) THEN m ELSE 0
<1>1. a \in Seq(Int)
  BY FrontTyped
<1>2. d \in Int
  OBVIOUS
<1> HIDE DEF a, d
<1>3. IsEmitted(Emit(a, d, rm, 0, <<>>))
  BY <1>1, <1>2, EmitAlone
<1>. QED BY <1>3 DEF EncodeMC, a, d

\* The encoding of extensions.
LEMMA ExtensionTyped ==
  ASSUME NEW size, NEW from, NEW ops, IsOps(ops), NEW reg, IsReg(reg), NEW rm, IsRM(rm)
  PROVE  IsEmitted(EncodeExtension(size, from, ops, reg, rm))
<1> DEFINE a == EmitExtensionPrologue(size, from, reg, rm) \o EmitOpcodes(from, ops)
<1>1. EmitExtensionPrologue(size, from, reg, rm) \in Seq(Int) /\ EmitOpcodes(from, ops) \in Seq(Int)
  BY PrologueTyped DEF EmitOpcodes, IsOps, IsReg, IsRM
<1>2. a \in Seq(Int)
  BY <1>1, Joined
<1>3. LowBits(reg) \in Int
  BY RegisterTyped DEF IsReg
<1> HIDE DEF a
<1>4. IsEmitted(Emit(a, LowBits(reg), rm, 0, <<>>))
  BY <1>2, <1>3, EmitAlone
<1>. QED BY <1>4 DEF EncodeExtension, a

\* The encoding of floating-point operations.
LEMMA SSETyped ==
  ASSUME NEW prefix \in Seq(Int), NEW opcode \in Seq(Int), NEW size, NEW reg, IsReg(reg), NEW rm, IsRM(rm)
  PROVE  IsEmitted(EncodeSSE(prefix, size, opcode, reg, rm))
<1> DEFINE x == Rex(size, 4, {}, reg, rm)
           a == prefix \o x \o opcode
<1>1. x \in Seq(Int)
  BY RexTyped DEF IsReg, IsRM
<1> HIDE DEF x
<1>2. a \in Seq(Int)
  BY <1>1, Joined3
<1>3. LowBits(reg) \in Int
  <2>1. reg \in GPRegs \cup XmmRegs
    BY DEF IsReg
  <2>2. LowBits(reg) \in 0 .. 7
    BY <2>1, RegisterTyped
  <2>. QED BY <2>2
<1> HIDE DEF a
<1>4. IsEmitted(Emit(a, LowBits(reg), rm, 0, <<>>))
  BY <1>2, <1>3, EmitAlone
<1>. QED BY <1>4 DEF EncodeSSE, a, x

\* Opcodes of one or two bytes.
LEMMA OpsTyped ==
  ASSUME NEW a \in Int, NEW b \in Int
  PROVE  /\ IsOps(Ops(<<a>>, <<b>>)) /\ IsOps(Ops(<<a>>, <<>>)) /\ IsOps(Ops(<<15, a>>, <<15, b>>))
         /\ Ops(<<a>>, <<b>>).wide[1] \in Int /\ Ops(<<a>>, <<b>>).byte[1] \in Int
  BY DEF IsOps, Ops

\* The encoding with the register in the opcode.
LEMMA OTyped ==
  ASSUME NEW size, NEW c \in Int, NEW reg, IsReg(reg)
  PROVE  IsEmitted(EncodeO(size, c, reg))
<1> DEFINE w == AddWordOpSize(size)
           x == Rex(4, 4, {}, None, reg)
           z == <<c + LowBits(reg)>>
<1>1. w \in Seq(Int) /\ x \in Seq(Int)
  BY RexTyped, PrologueTyped DEF IsReg, IsRM
<1>2. LowBits(reg) \in Int
  BY RegisterTyped DEF IsReg
<1>3. z \in Seq(Int) /\ Len(z) = 1
  BY <1>2
<1>4. EncodeO(size, c, reg) = Plain(w \o x \o z)
  BY DEF EncodeO
<1> HIDE DEF w, x, z
<1> DEFINE b == w \o x \o z
<1>5. b \in Seq(Int) /\ Len(b) > 0
  <2>1. b \in Seq(Int) /\ Len(b) = Len(w) + Len(x) + Len(z) /\ Len(w) \in Nat /\ Len(x) \in Nat
    BY <1>1, <1>3, Joined3
  <2> HIDE DEF b
  <2>. QED BY <2>1, <1>1, <1>3
<1> HIDE DEF b
<1>6. IsEmitted(Plain(b))
  BY <1>5, PlainEmitted
<1>. QED BY <1>4, <1>6 DEF b

\* The encoding with an immediate alone.
LEMMA ITyped ==
  ASSUME NEW size \in Sizes, NEW ops, IsOps(ops), NEW v \in Int
  PROVE  IsEmitted(EncodeI(size, ops, v))
<1> DEFINE w == AddWordOpSize(size)
           x == EmitOpcodes(size, ops)
           z == LittleEndian(v, size)
<1>1. w \in Seq(Int) /\ x \in Seq(Int)
  BY DEF AddWordOpSize, EmitOpcodes, IsOps
<1>2. size \in Nat /\ size > 0
  BY DEF Sizes
<1>3. z \in Seq(Int) /\ Len(z) = size
  BY <1>2, LittleEndianTyped
<1>4. EncodeI(size, ops, v) = Plain(w \o x \o z)
  BY DEF EncodeI
<1> HIDE DEF w, x, z
<1> DEFINE b == w \o x \o z
<1>5. b \in Seq(Int) /\ Len(b) > 0
  <2>1. b \in Seq(Int) /\ Len(b) = Len(w) + Len(x) + Len(z) /\ Len(w) \in Nat /\ Len(x) \in Nat
    BY <1>1, <1>2, <1>3, Joined3
  <2> HIDE DEF b
  <2>. QED BY <2>1, <1>1, <1>2, <1>3
<1> HIDE DEF b
<1>6. IsEmitted(Plain(b))
  BY <1>5, PlainEmitted
<1>. QED BY <1>4, <1>6 DEF b

\* The encoding of an immediate of any size into a register.
LEMMA RI64Typed ==
  ASSUME NEW size \in Sizes, NEW c \in Int, NEW d \in Int, NEW v \in Int, NEW reg, IsReg(reg)
  PROVE  IsEmitted(EncodeRI64(size, Ops(<<c>>, <<d>>), v, reg))
<1> DEFINE w == EmitOpPrologue(size, None, reg)
           x == <<EmitOpcodes(size, Ops(<<c>>, <<d>>))[1] + LowBits(reg)>>
           z == LittleEndian(v, size)
<1>1. w \in Seq(Int)
  BY PrologueTyped DEF IsReg, IsRM
<1>2. size \in Nat /\ size > 0
  BY DEF Sizes
<1>3. z \in Seq(Int) /\ Len(z) = size
  BY <1>2, LittleEndianTyped
<1>4. x \in Seq(Int)
  <2>1. LowBits(reg) \in Int
    BY RegisterTyped DEF IsReg
  <2>2. EmitOpcodes(size, Ops(<<c>>, <<d>>))[1] \in Int
    BY OpsTyped DEF EmitOpcodes
  <2>. QED BY <2>1, <2>2
<1>5. EncodeRI64(size, Ops(<<c>>, <<d>>), v, reg) = Plain(w \o x \o z)
  BY DEF EncodeRI64
<1> HIDE DEF w, x, z
<1> DEFINE b == w \o x \o z
<1>6. b \in Seq(Int) /\ Len(b) > 0
  <2>1. b \in Seq(Int) /\ Len(b) = Len(w) + Len(x) + Len(z) /\ Len(w) \in Nat /\ Len(x) \in Nat
    BY <1>1, <1>2, <1>3, <1>4, Joined3
  <2> HIDE DEF b
  <2>. QED BY <2>1, <1>1, <1>2, <1>3, <1>4
<1> HIDE DEF b
<1>7. IsEmitted(Plain(b))
  BY <1>6, PlainEmitted
<1>. QED BY <1>5, <1>7 DEF b

\* An operation with two operands, by their kinds.
LEMMA TwoOperandTyped ==
  ASSUME NEW i, NEW src, NEW dst, Takes(i.op, i.size, src, dst), i.op \in TwoOperandOps,
         IsOperand(src, i.src, i.size), IsOperand(dst, i.dst, i.size),
         NEW mr, IsOps(mr), NEW rm, IsOps(rm), NEW mi, IsOps(mi), NEW digit \in Int
  PROVE  IsEmitted(TwoOperand(i, mr, rm, mi, digit))
<1>1. /\ i.size \in Sizes /\ src \in {"gp", "imm", "mem"} /\ dst \in {"gp", "mem"}
      /\ src = "mem" => dst = "gp"
  BY DEF Takes
<1>2. IsRM(i.dst)
  BY <1>1, OperandTyped DEF IsRM
<1>3. CASE src = "imm"
  <2>1. i.src.k = "imm" /\ i.src.v \in Int
    BY <1>3, OperandTyped
  <2>. QED BY <1>1, <1>2, <2>1, MITyped DEF TwoOperand
<1>4. CASE src = "gp"
  <2>1. i.src.k = "gp" /\ IsReg(i.src)
    BY <1>4, OperandTyped DEF IsReg
  <2>. QED BY <1>1, <1>2, <2>1, MRTyped DEF TwoOperand
<1>5. CASE src = "mem"
  <2>1. IsMem(i.src) /\ IsReg(i.dst)
    BY <1>1, <1>5, OperandTyped DEF IsReg
  <2>2. i.src.k # "imm" /\ i.src.k # "gp" /\ IsRM(i.src)
    BY <2>1 DEF IsMem, IsRM
  <2>. QED BY <1>1, <2>1, <2>2, MRTyped DEF TwoOperand
<1>. QED BY <1>1, <1>3, <1>4, <1>5
\* Each of these operations.
LEMMA TwoOperandsTyped ==
  ASSUME NEW i, NEW src, NEW dst, Takes(i.op, i.size, src, dst), i.op \in TwoOperandOps,
         IsOperand(src, i.src, i.size), IsOperand(dst, i.dst, i.size)
  PROVE  /\ IsEmitted(Add(i)) /\ IsEmitted(Or(i)) /\ IsEmitted(And(i)) /\ IsEmitted(Sub(i))
         /\ IsEmitted(Xor(i)) /\ IsEmitted(Cmp(i)) /\ IsEmitted(Test(i)) /\ IsEmitted(Mov(i))
<1>1. IsOps(Group1)
  BY DEF IsOps, Ops, Group1
<1>2. IsEmitted(Add(i))
  <2>1. IsOps(Ops(<<\h01>>, <<\h00>>)) /\ IsOps(Ops(<<\h03>>, <<\h02>>))
    BY DEF IsOps, Ops
  <2>. QED BY <1>1, <2>1, TwoOperandTyped DEF Add
<1>3. IsEmitted(Or(i))
  <2>1. IsOps(Ops(<<\h09>>, <<\h08>>)) /\ IsOps(Ops(<<\h0B>>, <<\h0A>>))
    BY DEF IsOps, Ops
  <2>. QED BY <1>1, <2>1, TwoOperandTyped DEF Or
<1>4. IsEmitted(And(i))
  <2>1. IsOps(Ops(<<\h20>>, <<\h21>>)) /\ IsOps(Ops(<<\h22>>, <<\h23>>))
    BY DEF IsOps, Ops
  <2>. QED BY <1>1, <2>1, TwoOperandTyped DEF And
<1>5. IsEmitted(Sub(i))
  <2>1. IsOps(Ops(<<\h29>>, <<\h28>>)) /\ IsOps(Ops(<<\h2B>>, <<\h2A>>))
    BY DEF IsOps, Ops
  <2>. QED BY <1>1, <2>1, TwoOperandTyped DEF Sub
<1>6. IsEmitted(Xor(i))
  <2>1. IsOps(Ops(<<\h31>>, <<\h30>>)) /\ IsOps(Ops(<<\h33>>, <<\h32>>))
    BY DEF IsOps, Ops
  <2>. QED BY <1>1, <2>1, TwoOperandTyped DEF Xor
<1>7. IsEmitted(Cmp(i))
  <2>1. IsOps(Ops(<<\h39>>, <<\h38>>)) /\ IsOps(Ops(<<\h3B>>, <<\h3A>>))
    BY DEF IsOps, Ops
  <2>. QED BY <1>1, <2>1, TwoOperandTyped DEF Cmp
<1>8. IsEmitted(Test(i))
  <2>1. IsOps(Ops(<<\h85>>, <<\h84>>)) /\ IsOps(Ops(<<\h03>>, <<\h02>>))
    BY DEF IsOps, Ops
  <2>. QED BY <1>1, <2>1, TwoOperandTyped DEF Test
<1>9. IsEmitted(Mov(i))
  <2>1. IsOps(Ops(<<\h89>>, <<\h88>>)) /\ IsOps(Ops(<<\h8B>>, <<\h8A>>)) /\ IsOps(Ops(<<\hC7>>, <<\hC6>>))
    BY DEF IsOps, Ops
  <2>2. CASE i.src.k = "imm" /\ i.dst.k = "gp"
    <3>1. /\ i.size \in Sizes /\ src \in {"gp", "imm", "mem"} /\ dst \in {"gp", "mem"}
      BY DEF Takes
    <3>2. src = "imm" /\ dst = "gp"
      BY <2>2, <3>1, OperandTyped DEF IsMem
    <3>3. IsReg(i.dst) /\ i.src.v \in Int
      BY <3>2, OperandTyped DEF IsReg
    <3>4. IsEmitted(EncodeRI64(i.size, Ops(<<\hB8>>, <<\hB0>>), i.src.v, i.dst))
      BY <3>1, <3>3, RI64Typed
    <3>. QED BY <2>2, <3>4 DEF Mov
  <2>3. CASE ~(i.src.k = "imm" /\ i.dst.k = "gp")
    <3>1. IsEmitted(TwoOperand(i, Ops(<<\h89>>, <<\h88>>), Ops(<<\h8B>>, <<\h8A>>), Ops(<<\hC7>>, <<\hC6>>), 0))
      BY <2>1, TwoOperandTyped
    <3>. QED BY <2>3, <3>1 DEF Mov
  <2>. QED BY <2>2, <2>3
<1>. QED BY <1>2, <1>3, <1>4, <1>5, <1>6, <1>7, <1>8, <1>9

\* The operations with one operand or none, and shifts and calls.
LEMMA UnaryTyped ==
  ASSUME NEW i, NEW src, NEW dst, Takes(i.op, i.size, src, dst),
         IsOperand(src, i.src, i.size), IsOperand(dst, i.dst, i.size)
  PROVE  /\ i.op \in {"sal", "sar", "shr"} => IsEmitted(Shift(i))
         /\ i.op = "neg" => IsEmitted(Neg(i))
         /\ i.op \in {"div", "idiv"} => IsEmitted(Div(i))
         /\ i.op = "cdq" => IsEmitted(Cdq(i))
         /\ i.op = "leave" => IsEmitted(Leave(i))
         /\ i.op = "ret" => IsEmitted(Ret(i))
         /\ i.op = "push" => IsEmitted(Push(i))
         /\ i.op = "pop" => IsEmitted(Pop(i))
<1>1. dst \in {"gp", "mem"} => IsRM(i.dst)
  BY OperandTyped DEF IsRM
<1>2. ASSUME i.op \in {"sal", "sar", "shr"} PROVE IsEmitted(Shift(i))
  <2>1. i.size \in Sizes /\ src \in {"imm", "cl"} /\ dst \in {"gp", "mem"}
    BY <1>2 DEF Takes
  <2>2. ShiftDigit(i.op) \in Int
    BY <1>2 DEF ShiftDigit
  <2>3. IsOps(Ops(<<\hC1>>, <<\hC0>>)) /\ IsOps(Ops(<<\hD3>>, <<\hD2>>))
    BY DEF IsOps, Ops
  <2>4. CASE src = "imm"
    <3>1. i.src.k = "imm" /\ i.src.v \in Int
      BY <2>4, OperandTyped
    <3>2. IsEmitted(EncodeMI8(ShiftDigit(i.op), i.size, Ops(<<\hC1>>, <<\hC0>>), i.src.v, i.dst))
      BY <1>1, <2>1, <2>2, <2>3, <3>1, MITyped
    <3>. QED BY <3>1, <3>2 DEF Shift
  <2>5. CASE src = "cl"
    <3>1. i.src.k = "gp"
      BY <2>5, OperandTyped DEF rcx, Gp
    <3>2. IsEmitted(EncodeMC(ShiftDigit(i.op), i.size, Ops(<<\hD3>>, <<\hD2>>), i.dst))
      BY <1>1, <2>1, <2>2, <2>3, MCTyped
    <3>. QED BY <3>1, <3>2 DEF Shift
  <2>. QED BY <2>1, <2>4, <2>5
<1>3. ASSUME i.op \in {"neg", "div", "idiv"} PROVE IsEmitted(Neg(i)) /\ IsEmitted(Div(i))
  <2>1. dst \in {"gp", "mem"}
    BY <1>3 DEF Takes
  <2>2. IsOps(Ops(<<\hF7>>, <<\hF6>>))
    BY DEF IsOps, Ops
  <2>3. IsEmitted(EncodeM(3, i.size, Ops(<<\hF7>>, <<\hF6>>), i.dst))
    BY <1>1, <2>1, <2>2, MTyped
  <2>4. IsEmitted(EncodeM(6, i.size, Ops(<<\hF7>>, <<\hF6>>), i.dst)) /\ IsEmitted(EncodeM(7, i.size, Ops(<<\hF7>>, <<\hF6>>), i.dst))
    BY <1>1, <2>1, <2>2, MTyped
  <2>. QED BY <2>3, <2>4 DEF Neg, Div
<1>4. IsEmitted(Cdq(i)) /\ IsEmitted(Leave(i)) /\ IsEmitted(Ret(i))
  <2>1. /\ <<\h48, \h99>> \in Seq(Int) /\ <<\h99>> \in Seq(Int) /\ <<\hC9>> \in Seq(Int) /\ <<\hC3>> \in Seq(Int)
        /\ Len(<<\h48, \h99>>) > 0 /\ Len(<<\h99>>) > 0 /\ Len(<<\hC9>>) > 0 /\ Len(<<\hC3>>) > 0
    OBVIOUS
  <2>2. /\ IsEmitted(Plain(<<\h48, \h99>>)) /\ IsEmitted(Plain(<<\h99>>)) /\ IsEmitted(Plain(<<\hC9>>))
        /\ IsEmitted(Plain(<<\hC3>>))
    BY <2>1, PlainEmitted
  <2>. QED BY <2>2 DEF Cdq, Leave, Ret
<1>5. IsOps(Ops(<<\hFF>>, <<\hFF>>)) /\ IsOps(Ops(<<\h68>>, <<\h6A>>)) /\ IsOps(Ops(<<\h8F>>, <<\h8F>>))
  BY DEF IsOps, Ops
<1>6. ASSUME dst \in {"gp", "mem"}
      PROVE  /\ IsEmitted(EncodeMWithoutREXW(6, i.size, Ops(<<\hFF>>, <<\hFF>>), i.dst))
             /\ IsEmitted(EncodeMWithoutREXW(0, i.size, Ops(<<\h8F>>, <<\h8F>>), i.dst))
  BY <1>1, <1>5, <1>6, MTyped
<1>7. ASSUME dst = "gp"
      PROVE  i.dst.k = "gp" /\ IsEmitted(EncodeO(i.size, \h50, i.dst)) /\ IsEmitted(EncodeO(i.size, \h58, i.dst))
  <2>1. i.dst.k = "gp" /\ IsReg(i.dst)
    BY <1>7, OperandTyped DEF IsReg
  <2>. QED BY <2>1, OTyped
<1>8. ASSUME dst = "mem" PROVE i.dst.k # "gp" /\ i.dst.k # "imm"
  BY <1>8, OperandTyped DEF IsMem
<1>9. ASSUME i.op = "push" PROVE IsEmitted(Push(i))
  <2>1. dst \in {"gp", "mem", "imm"} /\ (dst = "imm" => i.size \in Sizes)
    BY <1>9 DEF Takes, Sizes
  <2>2. CASE dst = "imm"
    <3>1. i.dst.k = "imm" /\ i.dst.v \in Int
      BY <2>2, OperandTyped
    <3>2. IsEmitted(EncodeI(i.size, Ops(<<\h68>>, <<\h6A>>), i.dst.v))
      BY <1>5, <2>1, <2>2, <3>1, ITyped
    <3>. QED BY <3>1, <3>2 DEF Push
  <2>3. CASE dst = "gp"
    BY <2>3, <1>7 DEF Push
  <2>4. CASE dst = "mem"
    BY <2>4, <1>6, <1>8 DEF Push
  <2>. QED BY <2>1, <2>2, <2>3, <2>4
<1>10. ASSUME i.op = "pop" PROVE IsEmitted(Pop(i))
  <2>1. dst \in {"gp", "mem"}
    BY <1>10 DEF Takes
  <2>2. CASE dst = "gp"
    BY <2>2, <1>7 DEF Pop
  <2>3. CASE dst = "mem"
    BY <2>3, <1>6, <1>8 DEF Pop
  <2>. QED BY <2>1, <2>2, <2>3
<1>. QED BY <1>2, <1>3, <1>4, <1>9, <1>10

\* Moves, extensions and what depends on a condition.
LEMMA MovesTyped ==
  ASSUME NEW i, NEW src, NEW dst, Takes(i.op, i.size, src, dst), TakesArg(i),
         IsOperand(src, i.src, i.size), IsOperand(dst, i.dst, i.size)
  PROVE  /\ i.op = "lea" => IsEmitted(Lea(i))
         /\ i.op = "movzx" => IsEmitted(Movzx(i))
         /\ i.op = "movsx" => IsEmitted(Movsx(i))
         /\ i.op = "movsxd" => IsEmitted(Movsxd(i))
         /\ i.op = "cmov" => IsEmitted(CMov(i))
         /\ i.op = "setcc" => IsEmitted(SetCC(i))
         /\ i.op = "call" => IsEmitted(Call(i))
<1>1. src \in {"gp", "mem"} => IsRM(i.src)
  BY OperandTyped DEF IsRM
<1>2. dst = "gp" => IsReg(i.dst) /\ IsRM(i.dst)
  BY OperandTyped DEF IsRM, IsReg
<1>3. /\ IsOps(Ops(<<\h8D>>, <<\h8D>>)) /\ IsOps(Ops(<<\h63>>, <<>>))
      /\ IsOps(Ops(<<\h0F, \hB7>>, <<\h0F, \hB6>>)) /\ IsOps(Ops(<<\h0F, \hBF>>, <<\h0F, \hBE>>))
  BY DEF IsOps, Ops
<1>4. ASSUME i.op = "lea" PROVE IsEmitted(Lea(i))
  <2>1. src = "mem" /\ dst = "gp"
    BY <1>4 DEF Takes
  <2>2. IsEmitted(EncodeMR(8, Ops(<<\h8D>>, <<\h8D>>), i.dst, i.src))
    BY <1>1, <1>2, <1>3, <2>1, MRTyped
  <2>. QED BY <2>2 DEF Lea
<1>5. ASSUME i.op \in {"movzx", "movsx", "movsxd"}
      PROVE  IsEmitted(Movzx(i)) /\ IsEmitted(Movsx(i)) /\ IsEmitted(Movsxd(i))
  <2>1. src \in {"gp", "mem"} /\ dst = "gp"
    BY <1>5 DEF Takes
  <2>2. IsEmitted(EncodeExtension(i.size, i.arg, Ops(<<\h0F, \hB7>>, <<\h0F, \hB6>>), i.dst, i.src))
    BY <1>1, <1>2, <1>3, <2>1, ExtensionTyped
  <2>3. IsEmitted(EncodeExtension(i.size, i.arg, Ops(<<\h0F, \hBF>>, <<\h0F, \hBE>>), i.dst, i.src))
    BY <1>1, <1>2, <1>3, <2>1, ExtensionTyped
  <2>4. IsEmitted(EncodeExtension(i.size, i.arg, Ops(<<\h63>>, <<>>), i.dst, i.src))
    BY <1>1, <1>2, <1>3, <2>1, ExtensionTyped
  <2>. QED BY <2>2, <2>3, <2>4 DEF Movzx, Movsx, Movsxd
<1>6. ASSUME i.op \in {"cmov", "setcc"} PROVE i.arg \in Int
  BY <1>6 DEF TakesArg
<1>7. ASSUME i.op = "cmov" PROVE IsEmitted(CMov(i))
  <2>1. src \in {"gp", "mem"} /\ dst = "gp"
    BY <1>7 DEF Takes
  <2> DEFINE a == EmitOpPrologue(i.size, i.dst, i.src)
             b == <<\h0F, \h40 + i.arg>>
             c == a \o b
  <2>2. a \in Seq(Int) /\ b \in Seq(Int)
    BY <1>1, <1>2, <1>6, <1>7, <2>1, PrologueTyped
  <2>3. LowBits(i.dst) \in Int
    <3>1. i.dst \in GPRegs \cup XmmRegs
      BY <1>2, <2>1 DEF IsReg
    <3>. QED BY <3>1, RegisterTyped
  <2>4. CMov(i) = Emit(c, LowBits(i.dst), i.src, 0, <<>>)
    BY DEF CMov
  <2> HIDE DEF a, b
  <2>5. c \in Seq(Int)
    BY <2>2, Joined
  <2> HIDE DEF c
  <2>. QED BY <1>1, <2>1, <2>3, <2>4, <2>5, EmitAlone
<1>8. ASSUME i.op = "setcc" PROVE IsEmitted(SetCC(i))
  <2>1. dst = "gp"
    BY <1>8 DEF Takes
  <2> DEFINE a == EmitOpPrologue(1, None, i.dst)
             b == <<\h0F, \h90 + i.arg>>
             c == a \o b
  <2>2. a \in Seq(Int) /\ b \in Seq(Int)
    BY <1>2, <1>6, <1>8, <2>1, PrologueTyped
  <2>3. SetCC(i) = Emit(c, 0, i.dst, 0, <<>>)
    BY DEF SetCC
  <2> HIDE DEF a, b
  <2>4. c \in Seq(Int)
    BY <2>2, Joined
  <2> HIDE DEF c
  <2>. QED BY <1>2, <2>1, <2>3, <2>4, EmitAlone
<1>9. ASSUME i.op = "call" PROVE IsEmitted(Call(i))
  <2>1. dst \in {"symbol", "mem"}
    BY <1>9 DEF Takes
  <2>2. ASSUME NEW a, IsMem(a) PROVE IsEmitted(CallPlt(a))
    <3>1. IsOps(Ops(<<\hFF>>, <<\hFF>>)) /\ IsRM(a)
      BY <2>2 DEF IsOps, Ops, IsRM
    <3>2. IsEmitted(EncodeMWithoutREXW(2, 8, Ops(<<\hFF>>, <<\hFF>>), a))
      BY <3>1, MTyped
    <3>. QED BY <3>2 DEF CallPlt
  <2>3. CASE dst = "mem"
    <3>1. IsMem(i.dst)
      BY <2>3, OperandTyped
    <3>2. i.dst.k # "symbol"
      BY <3>1 DEF IsMem
    <3>3. IsEmitted(CallPlt(i.dst))
      BY <2>2, <3>1
    <3>. QED BY <3>2, <3>3 DEF Call
  <2>4. CASE dst = "symbol"
    <3>1. i.dst.k = "symbol"
      BY <2>4, OperandTyped
    <3>2. CASE i.dst.sym.bind = "external"
      <4>1. IsMem(Literal(i.dst.sym, 0))
        BY <3>2 DEF IsMem, Literal
      <4>. QED BY <2>2, <3>1, <3>2, <4>1 DEF Call
    <3>3. CASE i.dst.sym.bind # "external"
      <4> DEFINE r == [type |-> "PC32", offset |-> 1, disp |-> 5, sym |-> i.dst.sym]
                 b == <<\hE8, \hFF, \hFF, \hFF, \h7F>>
                 e == [bytes |-> b, relocs |-> <<r>>]
      <4>1. b \in Seq(Int) /\ Len(b) = 5
        OBVIOUS
      <4>2. Call(i) = e
        BY <3>1, <3>3 DEF Call
      <4>3. r \in [type: {"PC32", "PLT32"}, offset: Nat, disp: Int, sym: {r.sym}] /\ r.offset = 1
        OBVIOUS
      <4> HIDE DEF r, b
      <4>4. e.bytes = b /\ e.relocs = <<r>>
        OBVIOUS
      <4> HIDE DEF e
      <4>5. /\ r \in [type: {"PC32", "PLT32"}, offset: Nat, disp: Int, sym: {r.sym}]
            /\ r.offset + 4 <= Len(b) /\ Len(b) > 0
        BY <4>1, <4>3
      <4>6. IsEmitted(e)
        BY <4>1, <4>4, <4>5, Zenon DEF IsEmitted
      <4>. QED BY <4>2, <4>6
    <3>. QED BY <3>2, <3>3
  <2>. QED BY <2>1, <2>3, <2>4
<1>. QED BY <1>4, <1>5, <1>7, <1>8, <1>9

\* The floating-point operations.
LEMMA ScalarTyped ==
  ASSUME NEW i, NEW src, NEW dst, Takes(i.op, i.size, src, dst), i.op \in ScalarOps,
         IsOperand(src, i.src, i.size), IsOperand(dst, i.dst, i.size)
  PROVE  IsEmitted(ScalarInstruction(i))
<1>1. /\ src \in {"gp", "xmm", "mem"} => IsRM(i.src)
      /\ dst \in {"gp", "xmm", "mem"} => IsRM(i.dst)
      /\ src \in {"gp", "xmm"} => IsReg(i.src)
      /\ dst \in {"gp", "xmm"} => IsReg(i.dst)
      /\ dst = "xmm" => i.dst.k = "xmm"
      /\ dst = "mem" => i.dst.k # "xmm"
  BY OperandTyped DEF IsRM, IsReg, IsMem
<1>2. \A b \in Int : <<\h0F, b>> \in Seq(Int) /\ <<b>> \in Seq(Int) /\ <<>> \in Seq(Int)
  OBVIOUS
<1>3. ASSUME NEW prefix \in Seq(Int), NEW size, NEW b \in Int, IsReg(i.dst), IsRM(i.src)
      PROVE  IsEmitted(EncodeSSE(prefix, size, <<\h0F, b>>, i.dst, i.src))
  <2> DEFINE opcode == <<\h0F, b>>
  <2>1. opcode \in Seq(Int)
    OBVIOUS
  <2> HIDE DEF opcode
  <2>2. IsEmitted(EncodeSSE(prefix, size, opcode, i.dst, i.src))
    BY <1>3, <2>1, SSETyped
  <2>. QED BY <2>2 DEF opcode
<1>4. CASE i.op \in {"movss", "movsd"}
  <2>1. src \in {"xmm", "mem"} /\ dst \in {"xmm", "mem"} /\ (src = "mem" => dst = "xmm")
    BY <1>4 DEF Takes
  <2>2. ASSUME NEW b \in Int PROVE IsEmitted(MovScalar(<<b>>, i))
    <3>1. <<b>> \in Seq(Int) /\ <<\h0F, \h11>> \in Seq(Int)
      BY <1>2
    <3>2. CASE dst = "xmm"
      <4>1. IsEmitted(EncodeSSE(<<b>>, 4, <<\h0F, \h10>>, i.dst, i.src))
        <5> DEFINE p == <<b>>
        <5>1. p \in Seq(Int) /\ IsReg(i.dst) /\ IsRM(i.src)
          BY <1>1, <2>1, <3>1, <3>2
        <5> HIDE DEF p
        <5>2. IsEmitted(EncodeSSE(p, 4, <<\h0F, \h10>>, i.dst, i.src))
          BY <1>3, <5>1
        <5>. QED BY <5>2 DEF p
      <4>. QED BY <1>1, <3>2, <4>1 DEF MovScalar
    <3>3. CASE dst = "mem"
      <4>1. IsReg(i.src) /\ IsRM(i.dst) /\ i.dst.k # "xmm"
        BY <1>1, <2>1, <3>3
      <4>2. IsEmitted(EncodeSSE(<<b>>, 4, <<\h0F, \h11>>, i.src, i.dst))
        BY <3>1, <4>1, SSETyped
      <4>. QED BY <4>1, <4>2 DEF MovScalar
    <3>. QED BY <2>1, <3>2, <3>3
  <2>3. IsEmitted(MovScalar(<<\hF3>>, i)) /\ IsEmitted(MovScalar(<<\hF2>>, i))
    BY <2>2
  <2>4. IsEmitted(Movss(i)) /\ IsEmitted(Movsd(i))
    BY <2>3 DEF Movss, Movsd
  <2>. QED BY <1>4, <2>4 DEF ScalarInstruction
<1>5. CASE i.op \in {"addss", "addsd", "subss", "subsd", "divss", "divsd"}
  <2>1. IsReg(i.dst) /\ IsRM(i.src)
    BY <1>1, <1>5 DEF Takes, BinaryScalarOps
  <2> DEFINE p == Either(i, "addss", <<\hF3>>, <<\hF2>>)
             q == Either(i, "divss", <<\hF3>>, <<\hF2>>)
             r == IF i.op = "subsd" /\ i.src.k = "xmm" THEN <<\hF3>> ELSE <<\hF2>>
  <2>2. p \in Seq(Int) /\ q \in Seq(Int) /\ r \in Seq(Int)
    BY DEF Either
  <2>3. Addss(i) = EncodeSSE(p, 4, <<\h0F, \h58>>, i.dst, i.src)
    BY DEF Addss
  <2>4. Divss(i) = EncodeSSE(q, 4, <<\h0F, \h5E>>, i.dst, i.src)
    BY DEF Divss
  <2>5. Subss(i) = EncodeSSE(r, 4, <<\h0F, \h58>>, i.dst, i.src)
    BY DEF Subss
  <2> HIDE DEF p, q, r
  <2>6. IsEmitted(Addss(i)) /\ IsEmitted(Subss(i)) /\ IsEmitted(Divss(i))
    BY <1>3, <2>1, <2>2, <2>3, <2>4, <2>5
  <2>. QED BY <1>5, <2>6 DEF ScalarInstruction
<1>6. CASE i.op \in {"xorps", "xorpd", "ucomiss", "ucomisd", "comiss", "comisd"}
  <2>1. IsReg(i.dst) /\ IsRM(i.src)
    BY <1>1, <1>6 DEF Takes, BinaryScalarOps
  <2> DEFINE p == <<>>
             q == <<\h66>>
  <2>2. p \in Seq(Int) /\ q \in Seq(Int)
    OBVIOUS
  <2>3. /\ Xorps(i) = EncodeSSE(p, 4, <<\h0F, \h57>>, i.dst, i.src)
        /\ Xorpd(i) = EncodeSSE(q, 4, <<\h0F, \h57>>, i.dst, i.src)
        /\ Ucomiss(i) = EncodeSSE(p, 4, <<\h0F, \h2E>>, i.dst, i.src)
        /\ Ucomisd(i) = EncodeSSE(q, 4, <<\h0F, \h2E>>, i.dst, i.src)
        /\ Comiss(i) = EncodeSSE(p, 4, <<\h0F, \h2F>>, i.dst, i.src)
        /\ Comisd(i) = EncodeSSE(q, 4, <<\h0F, \h2F>>, i.dst, i.src)
    BY DEF Xorps, Xorpd, Ucomiss, Ucomisd, Comiss, Comisd
  <2> HIDE DEF p, q
  <2>4. /\ IsEmitted(Xorps(i)) /\ IsEmitted(Xorpd(i)) /\ IsEmitted(Ucomiss(i)) /\ IsEmitted(Ucomisd(i))
        /\ IsEmitted(Comiss(i)) /\ IsEmitted(Comisd(i))
    BY <1>3, <2>1, <2>2, <2>3
  <2>. QED BY <1>6, <2>4 DEF ScalarInstruction
<1>7. CASE i.op \in {"cvttss2si", "cvttsd2si", "cvtsi2ss", "cvtsi2sd"}
  <2>1. IsReg(i.dst) /\ IsRM(i.src)
    BY <1>1, <1>7 DEF Takes
  <2> DEFINE p == <<\hF3>>
             q == <<\hF2>>
             size == i.size
  <2>2. p \in Seq(Int) /\ q \in Seq(Int)
    BY <1>2
  <2> HIDE DEF p, q, size
  <2>3. /\ IsEmitted(EncodeSSE(p, size, <<\h0F, \h2A>>, i.dst, i.src))
        /\ IsEmitted(EncodeSSE(q, size, <<\h0F, \h2A>>, i.dst, i.src))
        /\ IsEmitted(EncodeSSE(p, size, <<\h0F, \h2C>>, i.dst, i.src))
        /\ IsEmitted(EncodeSSE(q, size, <<\h0F, \h2C>>, i.dst, i.src))
    BY <1>3, <2>1, <2>2
  <2>4. IsEmitted(Cvttss2si(i)) /\ IsEmitted(Cvttsd2si(i)) /\ IsEmitted(Cvtsi2ss(i)) /\ IsEmitted(Cvtsi2sd(i))
    BY <2>3 DEF Cvttss2si, Cvttsd2si, Cvtsi2ss, Cvtsi2sd, p, q, size
  <2>. QED BY <1>7, <2>4 DEF ScalarInstruction
<1>. QED BY <1>4, <1>5, <1>6, <1>7 DEF ScalarOps, BinaryScalarOps

(* Whatever overload of the assembler is called, the result is bytes,    *)
(* and a relocation lies inside of them: what the layout and the patches *)
(* rest on.                                                              *)
LEMMA EncodeTyped ==
  ASSUME NEW i, IsInstruction(i)
  PROVE  IsEmitted(Encode(i))
<1>1. PICK o \in AllOverloads : /\ o.op = i.op /\ o.size = i.size
                                /\ IsOperand(o.src, i.src, i.size) /\ IsOperand(o.dst, i.dst, i.size)
  BY DEF IsInstruction
<1>2. PICK src, dst : /\ Takes(i.op, i.size, src, dst)
                      /\ IsOperand(src, i.src, i.size) /\ IsOperand(dst, i.dst, i.size)
  <2>1. Takes(i.op, i.size, o.src, o.dst)
    BY <1>1, KindsTaken
  <2>. QED BY <1>1, <2>1
<1>3. TakesArg(i) /\ i.op \in IntegerOps \cup ScalarOps
  BY <1>2 DEF IsInstruction, Takes
<1>4. CASE i.op \in ScalarOps
  <2>1. IsEmitted(ScalarInstruction(i))
    BY <1>2, <1>4, ScalarTyped
  <2>. QED BY <1>4, <2>1, ScalarOpsAre DEF Encode
<1>5. CASE i.op \notin ScalarOps
  <2>1. i.op \in IntegerOps
    BY <1>3, <1>5
  <2>2. CASE i.op \in TwoOperandOps
    <3>1. /\ IsEmitted(Add(i)) /\ IsEmitted(Or(i)) /\ IsEmitted(And(i)) /\ IsEmitted(Sub(i))
          /\ IsEmitted(Xor(i)) /\ IsEmitted(Cmp(i)) /\ IsEmitted(Test(i)) /\ IsEmitted(Mov(i))
      BY <1>2, <2>2, TwoOperandsTyped
    <3>2. IsEmitted(IntegerInstruction(i))
      BY <2>2, <3>1 DEF IntegerInstruction, TwoOperandOps
    <3>. QED BY <1>5, <3>2, ScalarOpsAre DEF Encode
  <2>3. CASE i.op \in {"sal", "sar", "shr", "neg", "div", "idiv", "cdq", "leave", "ret", "push", "pop"}
    <3>1. /\ i.op \in {"sal", "sar", "shr"} => IsEmitted(Shift(i))
          /\ i.op = "neg" => IsEmitted(Neg(i))
          /\ i.op \in {"div", "idiv"} => IsEmitted(Div(i))
          /\ i.op = "cdq" => IsEmitted(Cdq(i))
          /\ i.op = "leave" => IsEmitted(Leave(i))
          /\ i.op = "ret" => IsEmitted(Ret(i))
          /\ i.op = "push" => IsEmitted(Push(i))
          /\ i.op = "pop" => IsEmitted(Pop(i))
      BY <1>2, UnaryTyped
    <3>2. IsEmitted(IntegerInstruction(i))
      BY <2>3, <3>1 DEF IntegerInstruction
    <3>. QED BY <1>5, <3>2, ScalarOpsAre DEF Encode
  <2>4. CASE i.op \in {"lea", "movzx", "movsx", "movsxd", "cmov", "setcc", "call"}
    <3>1. /\ i.op = "lea" => IsEmitted(Lea(i))
          /\ i.op = "movzx" => IsEmitted(Movzx(i))
          /\ i.op = "movsx" => IsEmitted(Movsx(i))
          /\ i.op = "movsxd" => IsEmitted(Movsxd(i))
          /\ i.op = "cmov" => IsEmitted(CMov(i))
          /\ i.op = "setcc" => IsEmitted(SetCC(i))
          /\ i.op = "call" => IsEmitted(Call(i))
      BY <1>2, <1>3, MovesTyped
    <3>2. IsEmitted(IntegerInstruction(i))
      BY <2>4, <3>1 DEF IntegerInstruction
    <3>. QED BY <1>5, <3>2, ScalarOpsAre DEF Encode
  <2>. QED BY <2>1, <2>2, <2>3, <2>4 DEF IntegerOps, TwoOperandOps
<1>. QED BY <1>4, <1>5

\* The gaps patched one after the other, in the order CHOOSE takes them.
IsFold(f, S) ==
  f = [s \in S |-> IF s = {} THEN buffer
                   ELSE LET x == CHOOSE x \in s : TRUE IN PatchGap(x, f[s \ {x}])]

\* There is such a function, for any finite set of gaps.
LEMMA FoldExists ==
  ASSUME IsFiniteSet(gaps)
  PROVE  \E f : IsFold(f, SUBSET gaps)
<1> DEFINE n == Cardinality(gaps)
           S(k) == {s \in SUBSET gaps : Cardinality(s) <= k}
           T == {k \in 0 .. n : \E f : IsFold(f, S(k))}
           ch(s) == CHOOSE x \in s : TRUE
<1>1. n \in Nat
  BY FS_CardinalityType
<1>2. ASSUME NEW s \in SUBSET gaps
      PROVE  IsFiniteSet(s) /\ Cardinality(s) \in Nat /\ Cardinality(s) <= n /\ (Cardinality(s) = 0 <=> s = {})
  BY FS_Subset, FS_CardinalityType, FS_EmptySet
<1>3. 0 \in T
  <2> DEFINE f == [s \in S(0) |-> buffer]
  <2>1. \A s \in S(0) : s = {}
    BY <1>2
  <2>2. IsFold(f, S(0))
    BY <2>1 DEF IsFold
  <2> HIDE DEF n, f, S
  <2>. QED BY <1>1, <2>2
<1>4. ASSUME NEW k \in 1 .. n, k - 1 \in T PROVE k \in T
  <2>1. PICK f : IsFold(f, S(k - 1))
    BY <1>4
  <2> DEFINE h == [s \in S(k) |-> IF s = {} THEN buffer ELSE PatchGap(ch(s), f[s \ {ch(s)}])]
  <2>2. ASSUME NEW s \in S(k), s # {}
        PROVE  s \ {ch(s)} \in S(k - 1)
    <3>1. ch(s) \in s
      BY <2>2
    <3>2. Cardinality(s \ {ch(s)}) = Cardinality(s) - 1
      BY <1>2, <3>1, FS_RemoveElement
    <3>. QED BY <1>2, <3>2
  <2>3. ASSUME NEW s \in S(k - 1) PROVE h[s] = f[s]
    <3>1. s \in S(k)
      BY <1>2
    <3>2. f[s] = IF s = {} THEN buffer ELSE PatchGap(ch(s), f[s \ {ch(s)}])
      BY <2>1 DEF IsFold
    <3> HIDE DEF S, ch
    <3>. QED BY <3>1, <3>2
  <2>4. h = [s \in S(k) |-> IF s = {} THEN buffer ELSE PatchGap(ch(s), h[s \ {ch(s)}])]
    <3>1. ASSUME NEW s \in S(k), s # {} PROVE h[s \ {ch(s)}] = f[s \ {ch(s)}]
      BY <2>2, <2>3, <3>1
    <3> HIDE DEF ch
    <3>2. \A s \in S(k) : h[s] = IF s = {} THEN buffer ELSE PatchGap(ch(s), h[s \ {ch(s)}])
      <4> SUFFICES ASSUME NEW s \in S(k)
                   PROVE  h[s] = IF s = {} THEN buffer ELSE PatchGap(ch(s), h[s \ {ch(s)}])
        OBVIOUS
      <4>1. h[s] = IF s = {} THEN buffer ELSE PatchGap(ch(s), f[s \ {ch(s)}])
        OBVIOUS
      <4> HIDE DEF h
      <4>. QED BY <3>1, <4>1
    <3> HIDE DEF S
    <3>3. h = [s \in S(k) |-> h[s]]
      OBVIOUS
    <3>. QED BY <3>2, <3>3, Zenon
  <2>5. IsFold(h, S(k))
    BY <2>4 DEF IsFold
  <2> HIDE DEF h, S, n
  <2>. QED BY <1>1, <2>5
<1> HIDE DEF T
<1>5. n \in T
  BY <1>1, <1>3, <1>4, Base!UpTo
<1>6. S(n) = SUBSET gaps
  BY <1>2
<1>. QED BY <1>5, <1>6 DEF T

\* Patching all gaps is its value for all.
LEMMA FoldUnfolds ==
  ASSUME IsFiniteSet(gaps)
  PROVE  \E f : IsFold(f, SUBSET gaps) /\ ResolveAndPatch = f[gaps]
<1>1. ResolveAndPatch =
        LET iter[s \in SUBSET gaps] ==
              IF s = {} THEN buffer ELSE LET x == CHOOSE x \in s : TRUE IN PatchGap(x, iter[s \ {x}])
        IN  iter[gaps]
  BY DEF ResolveAndPatch, FoldSet, MapThenFoldSet
<1> DEFINE f == CHOOSE f : IsFold(f, SUBSET gaps)
<1>2. IsFold(f, SUBSET gaps)
  BY FoldExists
<1>3. ResolveAndPatch = f[gaps]
  BY <1>1 DEF IsFold
<1>. QED BY <1>2, <1>3

\* The bytes of an item, k-th of its unit, when the items before it end where f says.
ItemBytes(u, f, k) ==
  LET i == u.items[k]
  IN  IF IsJump(i)
      THEN JumpBytes(i, u.labels[i.dst.label] <= k - 1, f[u.labels[i.dst.label]] - f[k - 1])
      ELSE IF IsLeaf(i) THEN LeafBytes(i, f[k - 1]).bytes ELSE Encode(i).bytes

\* What is assumed of functions and slots alike, by position.
IsUnit(u) ==
  /\ u.items \in Seq(Range(u.items))
  /\ \A k \in 1 .. Len(u.items) :
       LET i == u.items[k]
       IN  IF IsJump(i)
           THEN /\ ~IsLeaf(i) /\ u.labels[i.dst.label] \in 0 .. Len(u.items) - 1
                /\ i.arg \in 0 .. 15 /\ i.op \in {"jmp", "jcc"} /\ i.dst.k = "label"
           ELSE IF IsLeaf(i) THEN IsLeafOfSlot(i) ELSE IsInstruction(i)

\* Sequences and the sets of their elements.
LEMMA Ranges ==
  ASSUME NEW s, NEW S, s \in Seq(S)
  PROVE  /\ Len(s) \in Nat /\ DOMAIN s = 1 .. Len(s)
         /\ \A k \in 1 .. Len(s) : s[k] \in Range(s)
         /\ \A x \in Range(s) : \E k \in 1 .. Len(s) : s[k] = x
  BY DEF Range

\* The items of a function.
LEMMA ItemKinds ==
  ASSUME NEW i
  PROVE  /\ IsJump(i) \in BOOLEAN /\ IsLeaf(i) \in BOOLEAN
         /\ IsJump(i) => i.op \in {"jmp", "jcc"}
  BY DEF IsJump, IsLeaf

\* The units of a module.
LEMMA UnitFacts ==
  ASSUME NEW m \in Modules
  PROVE  /\ m.slots \in Seq(Range(m.slots)) /\ m.functions \in Seq(Range(m.functions))
         /\ \A u \in Range(m.slots) :
              IsUnit(u) /\ \A k \in 1 .. Len(u.items) : ~IsJump(u.items[k]) /\ IsLeaf(u.items[k])
         /\ \A u \in Range(m.functions) : IsUnit(u) /\ \A k \in 1 .. Len(u.items) : ~IsLeaf(u.items[k])
<1>1. m.slots \in Seq(Range(m.slots)) /\ m.functions \in Seq(Range(m.functions))
  BY ModulesAssumption DEF ModulesAssumption
<1>2. ASSUME NEW u \in Range(m.slots)
      PROVE  IsUnit(u) /\ \A k \in 1 .. Len(u.items) : ~IsJump(u.items[k]) /\ IsLeaf(u.items[k])
  <2>1. /\ u.items \in Seq(Range(u.items))
        /\ \A i \in Range(u.items) : ~IsJump(i) /\ IsLeaf(i) /\ IsLeafOfSlot(i)
    BY ModulesAssumption DEF ModulesAssumption
  <2>2. \A k \in 1 .. Len(u.items) : u.items[k] \in Range(u.items)
    BY <2>1, Ranges
  <2>. QED BY <2>1, <2>2 DEF IsUnit
<1>3. ASSUME NEW u \in Range(m.functions)
      PROVE  IsUnit(u) /\ \A k \in 1 .. Len(u.items) : ~IsLeaf(u.items[k])
  <2>1. /\ u.items \in Seq(Range(u.items))
        /\ \A l \in DOMAIN u.labels : u.labels[l] \in 0..(Len(u.items) - 1)
        /\ \A i \in Range(u.items) : ~IsLeaf(i) /\ IsItem(i, u.labels)
    BY ModulesAssumption DEF ModulesAssumption
  <2>2. ASSUME NEW k \in 1 .. Len(u.items)
        PROVE  LET i == u.items[k]
               IN  /\ ~IsLeaf(i)
                   /\ IF IsJump(i)
                      THEN /\ ~IsLeaf(i) /\ u.labels[i.dst.label] \in 0 .. Len(u.items) - 1
                           /\ i.arg \in 0 .. 15 /\ i.op \in {"jmp", "jcc"} /\ i.dst.k = "label"
                      ELSE IsInstruction(i)
    <3> DEFINE i == u.items[k]
    <3>1. i \in Range(u.items)
      BY <2>1, Ranges
    <3>2. ~IsLeaf(i) /\ IsItem(i, u.labels)
      BY <2>1, <3>1
    <3> HIDE DEF i
    <3>3. CASE IsJump(i)
      <4>1. i.dst.k = "label" /\ i.dst.label \in DOMAIN u.labels /\ i.arg \in IF i.op = "jcc" THEN 0..15 ELSE {0}
        BY <3>2, <3>3 DEF IsItem
      <4>2. i.arg \in 0 .. 15
        BY <4>1
      <4>. QED BY <2>1, <3>2, <3>3, <4>1, <4>2, ItemKinds DEF i
    <3>4. CASE ~IsJump(i)
      BY <3>2, <3>4 DEF IsItem, i
    <3>. QED BY <3>3, <3>4 
  <2>. QED BY <2>1, <2>2 DEF IsUnit
<1>. QED BY <1>1, <1>2, <1>3

\* A jump is bytes, at least one.
LEMMA JumpBytesTyped ==
  ASSUME NEW i, i.op \in {"jmp", "jcc"}, i.arg \in 0 .. 15, NEW behind \in BOOLEAN, NEW d,
         behind => d \in Int
  PROVE  JumpBytes(i, behind, d) \in Seq(Int) /\ Len(JumpBytes(i, behind, d)) > 0
<1>1. ASSUME d \in Int
      PROVE /\ LittleEndian(d - 2, 1) \in Seq(Int) /\ LittleEndian(d - 5, 4) \in Seq(Int) /\ LittleEndian(d - 6, 4) \in Seq(Int)
            /\ Len(LittleEndian(d - 2, 1)) = 1 /\ Len(LittleEndian(d - 5, 4)) = 4 /\ Len(LittleEndian(d - 6, 4)) = 4
  <2>1. d - 2 \in Int /\ d - 5 \in Int /\ d - 6 \in Int /\ 1 \in Nat /\ 4 \in Nat
    BY <1>1
  <2>2. LittleEndian(d - 2, 1) \in Seq(Int) /\ Len(LittleEndian(d - 2, 1)) = 1
    BY <2>1, LittleEndianTyped
  <2>3. LittleEndian(d - 5, 4) \in Seq(Int) /\ Len(LittleEndian(d - 5, 4)) = 4
    BY <2>1, LittleEndianTyped
  <2>4. LittleEndian(d - 6, 4) \in Seq(Int) /\ Len(LittleEndian(d - 6, 4)) = 4
    BY <2>1, LittleEndianTyped
  <2>. QED BY <2>2, <2>3, <2>4
<1>2. <<\hEB>> \in Seq(Int) /\ <<\hE9>> \in Seq(Int) /\ <<\h70 + i.arg>> \in Seq(Int) /\ <<\h0F, \h80 + i.arg>> \in Seq(Int)
  OBVIOUS
<1>3. ASSUME d \in Int PROVE Jmp(d) \in Seq(Int) /\ Len(Jmp(d)) > 0
  <2>1. CASE InByte(d)
    BY <1>1, <1>2, <1>3, <2>1, Joined DEF Jmp
  <2>2. CASE ~InByte(d)
    BY <1>1, <1>2, <1>3, <2>2, Joined DEF Jmp
  <2>. QED BY <2>1, <2>2
<1>4. ASSUME d \in Int PROVE Jcc(i.arg, d) \in Seq(Int) /\ Len(Jcc(i.arg, d)) > 0
  <2>1. CASE InByte(d)
    BY <1>1, <1>2, <1>4, <2>1, Joined DEF Jcc
  <2>2. CASE ~InByte(d)
    BY <1>1, <1>2, <1>4, <2>2, Joined DEF Jcc
  <2>. QED BY <2>1, <2>2
<1>5. /\ UnresolvedJmp \in Seq(Int) /\ UnresolvedJcc(i.arg) \in Seq(Int)
      /\ Len(UnresolvedJmp) > 0 /\ Len(UnresolvedJcc(i.arg)) > 0
  BY DEF UnresolvedJmp, UnresolvedJcc
<1>. QED BY <1>3, <1>4, <1>5 DEF JumpBytes

\* A sequence over a larger set.
LEMMA Wider ==
  ASSUME NEW S, NEW T, S \subseteq T, NEW s \in Seq(S)
  PROVE  s \in Seq(T) /\ Len(s) \in Nat
  OBVIOUS

\* Alignment keeps the position in a word.
LEMMA AlignedUp ==
  ASSUME NEW v \in Int
  PROVE  AlignUp(v, 8) \in Int /\ AlignUp(v, 8) - v \in 0 .. 7 /\ AlignUp(v, 8) % 8 = 0
  BY DEF AlignUp

\* The leaf of a slot is bytes; only a string depends on where it is, and then on the position in its word only.
LEMMA LeafTyped ==
  ASSUME NEW i, IsLeafOfSlot(i), NEW start \in Nat
  PROVE  /\ LeafBytes(i, start).bytes \in Seq(Int)
         /\ \A from \in Nat :
              i.leaf # "string" \/ from % 8 = 0 =>
                Len(LeafBytes(i, from + start).bytes) = Len(LeafBytes(i, start).bytes)
<1>1. \A n \in Nat : Zeros(n) \in Seq(Int) /\ Len(Zeros(n)) = n
  BY DEF Zeros
<1>2. CASE i.leaf = "constant"
  <2>1. i.v \in Int /\ i.size \in Nat
    BY <1>2 DEF IsLeafOfSlot
  <2>2. \A s : LeafBytes(i, s).bytes = LittleEndian(i.v, i.size)
    BY <1>2 DEF LeafBytes, Plain
  <2>. QED BY <2>1, <2>2, LittleEndianTyped
<1>3. CASE i.leaf = "zero"
  <2>1. i.size \in Nat
    BY <1>3 DEF IsLeafOfSlot
  <2>2. \A s : LeafBytes(i, s).bytes = Zeros(i.size)
    BY <1>3 DEF LeafBytes, Plain
  <2>. QED BY <1>1, <2>1, <2>2
<1>4. CASE i.leaf = "pointer"
  <2>1. \A s : LeafBytes(i, s).bytes = [k \in 1..8 |-> \hFF]
    BY <1>4 DEF LeafBytes
  <2> DEFINE b == [k \in 1..8 |-> \hFF]
  <2>2. b \in Seq(Int)
    OBVIOUS
  <2> HIDE DEF b
  <2>3. \A s : LeafBytes(i, s).bytes = b
    BY <2>1 DEF b
  <2>. QED BY <2>2, <2>3
<1>5. CASE i.leaf = "string"
  <2>1. i.chars \in Seq(Int) /\ Len(i.chars) \in Nat
    <3>1. i.chars \in Seq(0..255)
      BY <1>5 DEF IsLeafOfSlot
    <3>2. 0 .. 255 \subseteq Int
      OBVIOUS
    <3>. QED BY <3>1, <3>2, Wider
  <2>2. \A s : LeafBytes(i, s).bytes = i.chars \o <<0>> \o Zeros(AlignUp(s + Len(i.chars) + 2, 8) - (s + Len(i.chars) + 2))
    BY <1>5 DEF LeafBytes, StringBytes, Plain
  <2>3. ASSUME NEW s \in Nat
        PROVE  LET z == AlignUp(s + Len(i.chars) + 2, 8) - (s + Len(i.chars) + 2)
               IN  /\ z \in Nat
                   /\ LeafBytes(i, s).bytes \in Seq(Int)
                   /\ Len(LeafBytes(i, s).bytes) = Len(i.chars) + 1 + z
    <3> DEFINE z == AlignUp(s + Len(i.chars) + 2, 8) - (s + Len(i.chars) + 2)
               x == LeafBytes(i, s).bytes
    <3>1. z \in Nat
      <4> DEFINE v == s + Len(i.chars) + 2
      <4>1. v \in Int
        BY <2>1
      <4> HIDE DEF v
      <4>2. AlignUp(v, 8) - v \in 0 .. 7
        BY <4>1, AlignedUp
      <4>. QED BY <4>2 DEF v
    <3>2. x = i.chars \o <<0>> \o Zeros(z)
      BY <2>2
    <3> HIDE DEF z, x
    <3>3. Zeros(z) \in Seq(Int) /\ Len(Zeros(z)) = z /\ <<0>> \in Seq(Int) /\ Len(<<0>>) = 1
      BY <1>1, <3>1
    <3>4. x \in Seq(Int) /\ Len(x) = Len(i.chars) + Len(<<0>>) + Len(Zeros(z))
      BY <2>1, <3>2, <3>3, Joined3
    <3>5. Len(x) = Len(i.chars) + 1 + z
      BY <3>3, <3>4
    <3>. QED BY <3>1, <3>4, <3>5 DEF z, x
  <2>4. ASSUME NEW from \in Nat, from % 8 = 0
        PROVE  AlignUp(from + start + Len(i.chars) + 2, 8) - (from + start + Len(i.chars) + 2)
                 = AlignUp(start + Len(i.chars) + 2, 8) - (start + Len(i.chars) + 2)
    <3>1. PICK q \in Int : from = 8 * q
      BY <2>4
    <3>2. PICK t \in Nat : t = start + Len(i.chars) + 2
      BY <2>1
    <3>3. from + start + Len(i.chars) + 2 = 8 * q + t
      <4> DEFINE l == Len(i.chars)
      <4>1. l \in Nat /\ t = start + l + 2
        BY <2>1, <3>2
      <4> HIDE DEF l
      <4>2. from + start + l + 2 = 8 * q + t
        BY <3>1, <4>1
      <4>. QED BY <4>2 DEF l
    <3>4. ((8 * q + t + 8 - 1) \div 8) * 8 - (8 * q + t) = ((t + 8 - 1) \div 8) * 8 - t
      <4>1. (8 * q + t + 8 - 1) \div 8 = q + (t + 8 - 1) \div 8
        OBVIOUS
      <4>. QED BY <4>1
    <3>5. AlignUp(8 * q + t, 8) - (8 * q + t) = AlignUp(t, 8) - t
      BY <3>4 DEF AlignUp
    <3>. QED BY <3>2, <3>3, <3>5
  <2>5. ASSUME NEW from \in Nat, from % 8 = 0
        PROVE  Len(LeafBytes(i, from + start).bytes) = Len(LeafBytes(i, start).bytes)
    <3>1. from + start \in Nat
      OBVIOUS
    <3> DEFINE s == from + start
               z == AlignUp(s + Len(i.chars) + 2, 8) - (s + Len(i.chars) + 2)
               y == AlignUp(start + Len(i.chars) + 2, 8) - (start + Len(i.chars) + 2)
    <3>2. z = y
      BY <2>4, <2>5
    <3>3. Len(LeafBytes(i, s).bytes) = Len(i.chars) + 1 + z
      BY <2>3, <3>1
    <3>4. Len(LeafBytes(i, start).bytes) = Len(i.chars) + 1 + y
      BY <2>3
    <3> HIDE DEF z, y
    <3>. QED BY <3>2, <3>3, <3>4
  <2>6. LeafBytes(i, start).bytes \in Seq(Int)
    BY <2>3
  <2>. QED BY <1>5, <2>5, <2>6
<1>. QED BY <1>2, <1>3, <1>4, <1>5 DEF IsLeafOfSlot

\* Every item is bytes, wherever it is.
LEMMA ItemTyped ==
  ASSUME NEW u, IsUnit(u), NEW k \in 1 .. Len(u.items), NEW f, f[k - 1] \in Nat,
         \A j \in 0 .. k - 1 : f[j] \in Int
  PROVE  ItemBytes(u, f, k) \in Seq(Int)
<1> DEFINE i == u.items[k]
           idx == u.labels[i.dst.label]
           behind == idx <= k - 1
           d == f[idx] - f[k - 1]
<1>1. CASE IsJump(i)
  <2>1. idx \in 0 .. Len(u.items) - 1 /\ i.arg \in 0 .. 15 /\ i.op \in {"jmp", "jcc"}
    BY <1>1 DEF IsUnit
  <2>2. behind \in BOOLEAN
    OBVIOUS
  <2>3. behind => d \in Int
    <3>1. Len(u.items) \in Nat /\ k \in Int
      BY Ranges DEF IsUnit
    <3>2. behind => idx \in 0 .. k - 1
      BY <2>1, <3>1
    <3>3. k - 1 \in 0 .. k - 1
      BY <3>1
    <3>4. f[k - 1] \in Int
      BY <3>3
    <3>5. behind => f[idx] \in Int
      BY <3>2
    <3> HIDE DEF idx, behind
    <3>. QED BY <3>4, <3>5
  <2>4. ItemBytes(u, f, k) = JumpBytes(i, behind, d)
    BY <1>1 DEF ItemBytes
  <2> HIDE DEF behind, d
  <2>. QED BY <2>1, <2>2, <2>3, <2>4, JumpBytesTyped
<1>2. CASE ~IsJump(i) /\ IsLeaf(i)
  <2>1. IsLeafOfSlot(i)
    BY <1>2 DEF IsUnit
  <2>2. LeafBytes(i, f[k - 1]).bytes \in Seq(Int)
    BY <2>1, LeafTyped
  <2>. QED BY <1>2, <2>2 DEF ItemBytes
<1>3. CASE ~IsJump(i) /\ ~IsLeaf(i)
  <2>1. IsInstruction(i)
    BY <1>3 DEF IsUnit
  <2>2. Encode(i).bytes \in Seq(Int)
    BY <2>1, EncodeTyped DEF IsEmitted
  <2>. QED BY <1>3, <2>2 DEF ItemBytes
<1>. QED BY <1>1, <1>2, <1>3

\* Where the first n items of a unit end when the unit starts at 0.
IsLayout(u, f, n) ==
  /\ f \in [0 .. n -> Nat] /\ f[0] = 0
  /\ \A k \in 1 .. n : f[k] = f[k - 1] + Len(ItemBytes(u, f, k))

\* The size of an item depends on the items before it only.
LEMMA SameItem ==
  ASSUME NEW u, IsUnit(u), NEW k \in 1 .. Len(u.items), NEW f, NEW h, \A j \in 0 .. k - 1 : f[j] = h[j]
  PROVE  ItemBytes(u, f, k) = ItemBytes(u, h, k)
<1> DEFINE i == u.items[k]
           idx == u.labels[i.dst.label]
<1>0. Len(u.items) \in Nat /\ k - 1 \in 0 .. k - 1
  BY Ranges DEF IsUnit
<1>1. CASE IsJump(i)
  <2>1. idx \in 0 .. Len(u.items) - 1
    BY <1>1 DEF IsUnit
  <2>2. CASE idx <= k - 1
    <3>1. f[idx] = h[idx] /\ f[k - 1] = h[k - 1]
      <4>1. idx \in 0 .. k - 1
        BY <1>0, <2>1, <2>2
      <4> HIDE DEF idx
      <4>. QED BY <1>0, <4>1
    <3>. QED BY <1>1, <3>1 DEF ItemBytes
  <2>3. CASE ~(idx <= k - 1)
    BY <1>1, <2>3 DEF ItemBytes, JumpBytes
  <2>. QED BY <2>2, <2>3
<1>2. CASE ~IsJump(i)
  <2>1. f[k - 1] = h[k - 1]
    BY <1>0
  <2>. QED BY <1>2, <2>1 DEF ItemBytes
<1>. QED BY <1>1, <1>2

\* There is a layout, and it grows.
LEMMA LayoutExists ==
  ASSUME NEW u, IsUnit(u)
  PROVE  \E f : IsLayout(u, f, Len(u.items))
<1> DEFINE n == Len(u.items)
           T == {m \in 0 .. n : \E f : IsLayout(u, f, m)}
<1>1. n \in Nat
  BY Ranges DEF IsUnit
<1>2. 0 \in T
  <2> DEFINE f == [k \in 0 .. 0 |-> 0]
  <2>1. IsLayout(u, f, 0)
    BY DEF IsLayout
  <2> HIDE DEF f, n
  <2>. QED BY <1>1, <2>1
<1>3. ASSUME NEW m \in 1 .. n, m - 1 \in T PROVE m \in T
  <2>1. PICK f : IsLayout(u, f, m - 1)
    BY <1>3
  <2> DEFINE l == Len(ItemBytes(u, f, m))
             h == [k \in 0 .. m |-> IF k = m THEN f[m - 1] + l ELSE f[k]]
  <2>2. m - 1 \in Nat /\ f \in [0 .. m - 1 -> Nat] /\ f[0] = 0
    BY <1>1, <2>1 DEF IsLayout
  <2>3. l \in Nat
    <3>1. f[m - 1] \in Nat /\ \A j \in 0 .. m - 1 : f[j] \in Int
      BY <2>2
    <3>2. ItemBytes(u, f, m) \in Seq(Int)
      BY <3>1, ItemTyped
    <3>. QED BY <3>2
  <2> HIDE DEF l
  <2>4. h \in [0 .. m -> Nat] /\ h[0] = 0 /\ h[m] = f[m - 1] + l
    BY <2>2, <2>3
  <2>5. \A k \in 0 .. m - 1 : h[k] = f[k]
    BY <2>2
  <2> HIDE DEF h
  <2>6. ASSUME NEW k \in 1 .. m PROVE h[k] = h[k - 1] + Len(ItemBytes(u, h, k))
    <3>1. \A j \in 0 .. k - 1 : f[j] = h[j]
      BY <2>5
    <3>2. ItemBytes(u, f, k) = ItemBytes(u, h, k)
      BY <1>1, <3>1, SameItem
    <3>3. h[k - 1] = f[k - 1]
      BY <2>5
    <3>4. CASE k = m
      BY <2>4, <3>2, <3>3, <3>4 DEF l
    <3>5. CASE k # m
      <4>1. k \in 1 .. m - 1 /\ k \in 0 .. m - 1
        BY <3>5
      <4>2. f[k] = f[k - 1] + Len(ItemBytes(u, f, k)) /\ h[k] = f[k]
        BY <2>1, <2>5, <4>1 DEF IsLayout
      <4>. QED BY <3>2, <3>3, <4>2
    <3>. QED BY <3>4, <3>5
  <2>7. IsLayout(u, h, m)
    BY <2>4, <2>6 DEF IsLayout
  <2> HIDE DEF n
  <2>. QED BY <1>1, <2>7
<1>4. n \in T
  <2> HIDE DEF T
  <2>1. \A k \in 1 .. n : k - 1 \in T => k \in T
    BY <1>3
  <2> HIDE DEF n
  <2>2. \A k \in 0 .. n : k \in T
    BY <1>1, <1>2, <2>1, Base!UpTo
  <2>. QED BY <1>1, <2>2
<1>. QED BY <1>4

\* A sequence of anything.
IsSequence(b) == Len(b) \in Nat /\ b \in Seq(Range(b))

\* Any sequence is one.
LEMMA BytesAre ==
  ASSUME NEW V, NEW b \in Seq(V)
  PROVE  IsSequence(b)
<1>1. Len(b) \in Nat /\ \A k \in 1 .. Len(b) : b[k] \in Range(b)
  BY Ranges
<1>2. b \in [1 .. Len(b) -> Range(b)]
  BY <1>1
<1>. QED BY <1>1, <1>2 DEF IsSequence

\* The elements of two sequences put together.
LEMMA BytesJoined ==
  ASSUME NEW a, NEW b, IsSequence(a), IsSequence(b)
  PROVE  /\ IsSequence(a \o b) /\ Len(a \o b) = Len(a) + Len(b)
         /\ \A j \in 1 .. Len(a) : (a \o b)[j] = a[j]
         /\ \A j \in 1 .. Len(b) : (a \o b)[Len(a) + j] = b[j]
<1> DEFINE V == Range(a) \cup Range(b)
           c == a \o b
<1>1. a \in Seq(V) /\ b \in Seq(V)
  BY Wider DEF IsSequence
<1> HIDE DEF V
<1>2. /\ c \in Seq(V) /\ Len(c) = Len(a) + Len(b)
      /\ \A j \in 1 .. Len(a) + Len(b) : c[j] = IF j <= Len(a) THEN a[j] ELSE b[j - Len(a)]
  BY <1>1
<1>3. Len(a) \in Nat /\ Len(b) \in Nat
  BY DEF IsSequence
<1> HIDE DEF c
<1>4. IsSequence(c)
  BY <1>2, BytesAre
<1>5. \A j \in 1 .. Len(a) : c[j] = a[j]
  BY <1>2, <1>3
<1>6. \A j \in 1 .. Len(b) : c[Len(a) + j] = b[j]
  BY <1>2, <1>3
<1>. QED BY <1>2, <1>4, <1>5, <1>6 DEF c

\* A patch replaces the bytes of its field.
LEMMA BytesPatched ==
  ASSUME NEW b, IsSequence(b), NEW at, NEW field
  PROVE  /\ IsSequence(Patch(b, at, field)) /\ Len(Patch(b, at, field)) = Len(b)
         /\ \A k \in 1 .. Len(b) : ~(k - at \in 1 .. Len(field)) => Patch(b, at, field)[k] = b[k]
         /\ \A k \in 1 .. Len(b) : k - at \in 1 .. Len(field) => Patch(b, at, field)[k] = field[k - at]
<1> DEFINE c == Patch(b, at, field)
           V == {c[k] : k \in 1 .. Len(b)}
           n == Len(b)
<1>1. n \in Nat
  BY DEF IsSequence
<1>2. c = [k \in 1 .. n |-> IF k - at \in 1 .. Len(field) THEN field[k - at] ELSE b[k]]
  BY DEF Patch
<1>3. c \in [1 .. n -> V]
  <2>1. DOMAIN c = 1 .. n /\ c = [k \in 1 .. n |-> c[k]]
    BY <1>2
  <2> HIDE DEF c
  <2>. QED BY <2>1
<1> HIDE DEF c, V, n
<1>4. c \in Seq(V) /\ Len(c) = n
  BY <1>1, <1>3
<1>. QED BY <1>2, <1>4, BytesAre DEF c, n

\* The layout of a unit.
LayoutOf(u) == CHOOSE f : IsLayout(u, f, Len(u.items))
\* The size the dry run finds for a unit.
SizeOf(u) == LayoutOf(u)[Len(u.items)]

\* What grows step by step grows.
LEMMA Growing ==
  ASSUME NEW n \in Nat, NEW f \in [0 .. n -> Int], \A k \in 1 .. n : f[k - 1] <= f[k]
  PROVE  \A k \in 0 .. n : \A j \in 0 .. k : f[j] <= f[k]
<1> DEFINE T == {k \in 0 .. n : \A j \in 0 .. k : f[j] <= f[k]}
<1>1. 0 \in T
  OBVIOUS
<1>2. ASSUME NEW k \in 1 .. n, k - 1 \in T PROVE k \in T
  <2>1. ASSUME NEW j \in 0 .. k PROVE f[j] <= f[k]
    <3>1. CASE j = k
      BY <3>1
    <3>2. CASE j # k
      <4>1. j \in 0 .. k - 1 /\ f[j] <= f[k - 1] /\ f[k - 1] <= f[k]
        BY <1>2, <3>2
      <4>2. f[j] \in Int /\ f[k - 1] \in Int /\ f[k] \in Int
        OBVIOUS
      <4>. QED BY <4>1, <4>2
    <3>. QED BY <3>1, <3>2
  <2>. QED BY <2>1
<1> HIDE DEF T
<1>3. \A k \in 0 .. n : k \in T
  BY <1>1, <1>2, Base!UpTo
<1>. QED BY <1>3 DEF T

\* The layout of a unit grows to its size.
LEMMA LayoutFacts ==
  ASSUME NEW u, IsUnit(u)
  PROVE  /\ Len(u.items) \in Nat /\ IsLayout(u, LayoutOf(u), Len(u.items)) /\ SizeOf(u) \in Nat
         /\ \A k \in 0 .. Len(u.items) : LayoutOf(u)[k] \in Nat /\ LayoutOf(u)[k] <= SizeOf(u)
<1> DEFINE f == LayoutOf(u)
           n == Len(u.items)
<1>1. IsLayout(u, f, n)
  BY LayoutExists DEF LayoutOf
<1>2. n \in Nat
  BY Ranges DEF IsUnit
<1> HIDE DEF f, n
<1>3. f \in [0 .. n -> Nat]
  BY <1>1 DEF IsLayout
<1>4. ASSUME NEW k \in 1 .. n PROVE f[k - 1] <= f[k]
  <2>1. Len(ItemBytes(u, f, k)) \in Nat
    <3>1. f[k - 1] \in Nat /\ \A j \in 0 .. k - 1 : f[j] \in Int
      BY <1>2, <1>3
    <3>2. ItemBytes(u, f, k) \in Seq(Int)
      BY <3>1, ItemTyped DEF n
    <3>. QED BY <3>2
  <2>2. f[k] = f[k - 1] + Len(ItemBytes(u, f, k)) /\ f[k - 1] \in Nat
    BY <1>1, <1>2, <1>3 DEF IsLayout
  <2>. QED BY <2>1, <2>2
<1>5. f \in [0 .. n -> Int]
  BY <1>3
<1>6. \A k \in 0 .. n : f[k] <= f[n] /\ f[k] \in Nat
  <2>1. \A k \in 0 .. n : \A j \in 0 .. k : f[j] <= f[k]
    BY <1>2, <1>4, <1>5, Growing
  <2>2. n \in 0 .. n
    BY <1>2
  <2>. QED BY <1>3, <2>1, <2>2
<1>. QED BY <1>1, <1>2, <1>6 DEF f, n, SizeOf

\* A sequence of units.
AreUnits(us) == Len(us) \in Nat /\ \A k \in 1 .. Len(us) : IsUnit(us[k])

\* The sizes of units added up.
IsSum(us, g) ==
  /\ g \in [0 .. Len(us) -> Nat] /\ g[0] = 0
  /\ \A k \in 1 .. Len(us) : g[k] = g[k - 1] + SizeOf(us[k])

\* Where each unit of a list ends.
SumOf(us) == CHOOSE g : IsSum(us, g)

\* There is such a sum, and it grows.
LEMMA SumFacts ==
  ASSUME NEW us, AreUnits(us)
  PROVE  /\ IsSum(us, SumOf(us))
         /\ \A k \in 0 .. Len(us) : SumOf(us)[k] <= SumOf(us)[Len(us)] /\ SumOf(us)[k] \in Nat
<1> DEFINE n == Len(us)
           step == [k \in 1 .. n |-> [x \in Nat |-> x + SizeOf(us[k])]]
<1>1. n \in Nat /\ \A k \in 1 .. n : SizeOf(us[k]) \in Nat
  BY LayoutFacts DEF AreUnits
<1>2. step \in [1 .. n -> [Nat -> Nat]]
  BY <1>1
<1>3. PICK g \in [0 .. n -> Nat] : Base!IsBuilt(g, n, 0, step)
  <2> HIDE DEF step, n
  <2>. QED BY <1>1, <1>2, Base!BuiltExists
<1>4. g[0] = 0 /\ \A k \in 1 .. n : g[k] = step[k][g[k - 1]]
  <2>1. g = [k \in 0 .. n |-> IF k = 0 THEN 0 ELSE step[k][g[k - 1]]]
    BY <1>3 DEF Base!IsBuilt
  <2> HIDE DEF step, n
  <2>2. \A k \in 0 .. n : g[k] = IF k = 0 THEN 0 ELSE step[k][g[k - 1]]
    BY <2>1
  <2>. QED BY <1>1, <2>2
<1>5. \A k \in 1 .. n : g[k] = g[k - 1] + SizeOf(us[k])
  <2>1. \A k \in 1 .. n : g[k - 1] \in Nat
    BY <1>1
  <2>. QED BY <1>4, <2>1
<1>6. IsSum(us, g)
  BY <1>4, <1>5 DEF IsSum
<1>7. IsSum(us, SumOf(us))
  BY <1>6 DEF SumOf
<1> DEFINE h == SumOf(us)
<1> HIDE DEF h, n
<1>8. h \in [0 .. n -> Nat] /\ h \in [0 .. n -> Int]
  BY <1>7 DEF IsSum, h, n
<1>9. ASSUME NEW k \in 1 .. n PROVE h[k - 1] <= h[k]
  <2>1. h[k] = h[k - 1] + SizeOf(us[k]) /\ SizeOf(us[k]) \in Nat /\ h[k - 1] \in Nat
    <3>1. h[k] = h[k - 1] + SizeOf(us[k])
      BY <1>7 DEF IsSum, h, n
    <3>2. k - 1 \in 0 .. n
      BY <1>1
    <3>. QED BY <1>1, <1>8, <3>1, <3>2
  <2>. QED BY <2>1
<1>10. \A k \in 0 .. n : h[k] <= h[n] /\ h[k] \in Nat
  <2>1. \A k \in 0 .. n : \A j \in 0 .. k : h[j] <= h[k]
    BY <1>1, <1>8, <1>9, Growing
  <2>2. n \in 0 .. n
    BY <1>1
  <2>. QED BY <1>8, <2>1, <2>2
<1>. QED BY <1>7, <1>10 DEF h, n

\* Where the units of one list and then of another end.
Laid(first, second, n) ==
  IF n <= Len(first) THEN SumOf(first)[n]
  ELSE SumOf(first)[Len(first)] + SumOf(second)[n - Len(first)]

\* Two lists of units, one after the other.
LEMMA LaidFacts ==
  ASSUME NEW first, NEW second, AreUnits(first), AreUnits(second),
         first \in Seq(Range(first)), second \in Seq(Range(second))
  PROVE  LET us == first \o second
             n  == Len(first) + Len(second)
             total == SumOf(first)[Len(first)] + SumOf(second)[Len(second)]
         IN  /\ AreUnits(us) /\ Len(us) = n /\ Laid(first, second, 0) = 0 /\ Laid(first, second, n) = total
             /\ \A k \in 0 .. n : Laid(first, second, k) \in Nat /\ Laid(first, second, k) <= total
             /\ \A k \in 1 .. n : Laid(first, second, k) = Laid(first, second, k - 1) + SizeOf(us[k])
<1> DEFINE a == Len(first)
           b == Len(second)
           us == first \o second
           g == SumOf(first)
           h == SumOf(second)
           L(k) == Laid(first, second, k)
<1>1. a \in Nat /\ b \in Nat
  BY DEF AreUnits
<1>2. /\ Len(us) = a + b
      /\ \A k \in 1 .. a : us[k] = first[k]
      /\ \A k \in 1 .. b : us[a + k] = second[k]
  BY BytesJoined DEF IsSequence, AreUnits
<1>3. /\ IsSum(first, g) /\ \A k \in 0 .. a : g[k] <= g[a] /\ g[k] \in Nat
      /\ IsSum(second, h) /\ \A k \in 0 .. b : h[k] <= h[b] /\ h[k] \in Nat
  BY SumFacts
<1>4. /\ g[0] = 0 /\ \A k \in 1 .. a : g[k] = g[k - 1] + SizeOf(first[k])
      /\ h[0] = 0 /\ \A k \in 1 .. b : h[k] = h[k - 1] + SizeOf(second[k])
  BY <1>3 DEF IsSum
<1>5. \A k : L(k) = IF k <= a THEN g[k] ELSE g[a] + h[k - a]
  BY DEF Laid
<1>6. g[a] \in Nat /\ h[b] \in Nat
  BY <1>1, <1>3
<1>7. AreUnits(us)
  <2>1. ASSUME NEW k \in 1 .. a + b PROVE IsUnit(us[k])
    <3>1. CASE k <= a
      BY <1>1, <1>2, <3>1 DEF AreUnits
    <3>2. CASE k > a
      <4>1. k - a \in 1 .. b /\ a + (k - a) = k
        BY <1>1, <3>2
      <4>2. us[k] = second[k - a]
        BY <1>2, <4>1
      <4>. QED BY <4>1, <4>2 DEF AreUnits
    <3>. QED BY <1>1, <3>1, <3>2
  <2>. QED BY <1>1, <1>2, <2>1 DEF AreUnits
<1> HIDE DEF us, g, h, L, a, b
<1>8. L(0) = 0 /\ L(a + b) = g[a] + h[b]
  <2>1. L(0) = 0
    BY <1>1, <1>4, <1>5
  <2>2. CASE b = 0
    <3>1. L(a + b) = g[a]
      BY <1>1, <1>5, <2>2
    <3>. QED BY <1>4, <1>6, <2>1, <2>2, <3>1
  <2>3. CASE b # 0
    <3>1. ~(a + b <= a) /\ (a + b) - a = b
      BY <1>1, <2>3
    <3>. QED BY <1>5, <2>1, <3>1
  <2>. QED BY <2>2, <2>3
<1>9. ASSUME NEW k \in 0 .. a + b PROVE L(k) \in Nat /\ L(k) <= g[a] + h[b]
  <2>1. CASE k <= a
    <3>1. k \in 0 .. a /\ L(k) = g[k]
      BY <1>1, <1>5, <2>1
    <3>2. g[k] \in Nat /\ g[k] <= g[a]
      BY <1>3, <3>1
    <3>. QED BY <1>6, <3>1, <3>2
  <2>2. CASE k > a
    <3>1. k - a \in 0 .. b /\ L(k) = g[a] + h[k - a]
      BY <1>1, <1>5, <2>2
    <3>2. h[k - a] \in Nat /\ h[k - a] <= h[b]
      BY <1>3, <3>1
    <3>. QED BY <1>6, <3>1, <3>2
  <2>. QED BY <1>1, <2>1, <2>2
<1>10. ASSUME NEW k \in 1 .. a + b PROVE L(k) = L(k - 1) + SizeOf(us[k])
  <2>1. CASE k <= a
    <3>1. k \in 1 .. a /\ L(k) = g[k] /\ L(k - 1) = g[k - 1]
      BY <1>1, <1>5, <2>1
    <3>. QED BY <1>2, <1>4, <3>1
  <2>2. CASE k = a + 1
    <3>1. L(k) = g[a] + h[1] /\ L(k - 1) = g[a]
      BY <1>1, <1>5, <2>2
    <3>2. 1 \in 1 .. b /\ us[k] = second[1] /\ 0 \in 0 .. b
      BY <1>1, <1>2, <2>2
    <3>3. h[1] = h[1 - 1] + SizeOf(second[1])
      BY <1>4, <3>2
    <3>4. h[1] = SizeOf(second[1])
      <4>1. h[1] \in Nat /\ h[1] = h[0] + SizeOf(second[1])
        BY <1>3, <3>2, <3>3
      <4>2. SizeOf(second[1]) \in Nat
        BY <3>2, LayoutFacts DEF AreUnits, b
      <4>. QED BY <1>4, <4>1, <4>2
    <3>. QED BY <1>6, <3>1, <3>2, <3>4
  <2>3. CASE k > a + 1
    <3>1. /\ k - a \in 1 .. b /\ a + (k - a) = k /\ (k - 1) - a = (k - a) - 1 /\ ~(k <= a) /\ ~(k - 1 <= a)
          /\ (k - a) - 1 \in 0 .. b
      BY <1>1, <2>3
    <3>2. L(k) = g[a] + h[k - a] /\ L(k - 1) = g[a] + h[(k - a) - 1]
      BY <1>5, <3>1
    <3>3. us[k] = second[k - a] /\ h[k - a] = h[(k - a) - 1] + SizeOf(second[k - a])
      BY <1>2, <1>4, <3>1
    <3>4. SizeOf(second[k - a]) \in Nat /\ h[(k - a) - 1] \in Nat
      BY <1>3, <3>1, LayoutFacts DEF AreUnits, b
    <3>. QED BY <1>6, <3>2, <3>3, <3>4
  <2>. QED BY <1>1, <2>1, <2>2, <2>3
<1>. QED BY <1>2, <1>7, <1>8, <1>9, <1>10 DEF us, g, h, L, a, b

\* How many bytes a relocation patches.
WidthOf(r) == IF r.type = "GLOB_DAT" THEN 8 ELSE 4

\* A relocation as Relocation.h has it.
IsReloc(r) ==
  /\ DOMAIN r = {"type", "offset", "disp", "sym"}
  /\ r.type \in {"PC32", "PLT32", "GLOB_DAT"} /\ r.offset \in Nat /\ r.disp \in Int

(* The states of the assembler: the units finished are units of the      *)
(* module, offsets are those of the open unit, and every relocation has  *)
(* a position.                                                           *)
TypeInv ==
  /\ module \in Modules
  /\ phase \in {"size", "emit", "relocate", "done"}
  /\ unit \in 0 .. Len(Units)
  /\ phase \in {"relocate", "done"} => unit = Len(Units)
  /\ IsSequence(buffer)
  /\ measured \in Nat
  /\ offsets \in Seq(Nat)
  /\ IF UnitOpen THEN At <= Len(Unit.items) ELSE offsets = <<>>
  /\ IsFiniteSet(gaps)
  /\ IsSequence(relocs) /\ \A n \in 1 .. Len(relocs) : IsReloc(relocs[n])

\* The units in the order of either phase.
LEMMA UnitsFacts ==
  ASSUME module \in Modules
  PROVE  /\ AreUnits(Units) /\ Len(Units) = Len(module.slots) + Len(module.functions)
         /\ Len(module.slots) \in Nat /\ Len(module.functions) \in Nat
         /\ AreUnits(module.slots) /\ AreUnits(module.functions)
         /\ module.slots \in Seq(Range(module.slots))
         /\ module.functions \in Seq(Range(module.functions))
<1> DEFINE s == module.slots
           f == module.functions
<1>1. s \in Seq(Range(s)) /\ f \in Seq(Range(f))
  BY UnitFacts
<1>2. Len(s) \in Nat /\ Len(f) \in Nat
  BY <1>1, Ranges
<1>3. AreUnits(s) /\ AreUnits(f)
  <2>1. \A u \in Range(s) : IsUnit(u)
    BY UnitFacts
  <2>2. \A u \in Range(f) : IsUnit(u)
    BY UnitFacts
  <2> HIDE DEF s, f
  <2>3. \A n \in 1 .. Len(s) : s[n] \in Range(s)
    BY <1>1, Ranges
  <2>4. \A n \in 1 .. Len(f) : f[n] \in Range(f)
    BY <1>1, Ranges
  <2>. QED BY <1>2, <2>1, <2>2, <2>3, <2>4 DEF AreUnits
<1>4. Units = f \o s \/ Units = s \o f
  BY DEF Units
<1> HIDE DEF s, f
<1>5. AreUnits(f \o s) /\ AreUnits(s \o f) /\ Len(f \o s) = Len(f) + Len(s) /\ Len(s \o f) = Len(s) + Len(f)
  BY <1>1, <1>3, LaidFacts
<1>6. AreUnits(Units)
  <2>1. CASE Units = f \o s
    BY <1>5, <2>1
  <2>2. CASE Units = s \o f
    BY <1>5, <2>2
  <2>. QED BY <1>4, <2>1, <2>2
<1>7. Len(Units) = Len(s) + Len(f)
  <2>1. CASE Units = f \o s
    <3>1. Len(Units) = Len(f) + Len(s)
      BY <1>5, <2>1
    <3>. QED BY <1>2, <3>1
  <2>2. CASE Units = s \o f
    BY <1>5, <2>2
  <2>. QED BY <1>4, <2>1, <2>2
<1>. QED BY <1>1, <1>2, <1>3, <1>6, <1>7 DEF s, f

\* What the next item becomes.
EmittedNow ==
  IF IsJump(Item)
  THEN Plain(JumpBytes(Item, Behind(Item.dst.label),
                       Append(offsets, Len(buffer))[LabelIndex(Item.dst.label) + 1] - Len(buffer)))
  ELSE IF IsLeaf(Item) THEN LeafBytes(Item, Len(buffer)) ELSE Encode(Item)

\* The three actions that emit an item, as one.
Emitting ==
  /\ UnitOpen /\ At < Len(Unit.items)
  /\ Put(EmittedNow)
  /\ gaps' = IF IsJump(Item) /\ ~Behind(Item.dst.label)
             THEN gaps \cup {<<Item.dst.label, Len(buffer) + Len(EmittedNow.bytes)>>} ELSE gaps

\* The item that is next.
LEMMA Kinds ==
  ASSUME TypeInv, UnitOpen
  PROVE  /\ IsUnit(Unit) /\ Len(Unit.items) \in Nat /\ unit + 1 \in 1 .. Len(Units) /\ At \in Nat
         /\ At < Len(Unit.items) =>
              /\ At + 1 \in 1 .. Len(Unit.items)
              /\ IF IsJump(Item)
                 THEN /\ ~IsLeaf(Item) /\ LabelIndex(Item.dst.label) \in 0 .. Len(Unit.items) - 1
                      /\ Item.arg \in 0 .. 15 /\ Item.op \in {"jmp", "jcc"} /\ Item.dst.k = "label"
                 ELSE IF IsLeaf(Item) THEN IsLeafOfSlot(Item) ELSE IsInstruction(Item)
<1>1. unit \in Nat /\ Len(Units) \in Nat /\ unit < Len(Units) /\ AreUnits(Units)
  BY UnitsFacts DEF TypeInv, UnitOpen
<1>2. unit + 1 \in 1 .. Len(Units)
  BY <1>1
<1>3. IsUnit(Unit)
  BY <1>1, <1>2 DEF Unit, AreUnits
<1>4. At \in Nat
  BY DEF TypeInv, At
<1>5. Len(Unit.items) \in Nat
  BY <1>3, LayoutFacts
<1>6. At < Len(Unit.items) => At + 1 \in 1 .. Len(Unit.items)
  BY <1>4, <1>5
<1>. QED BY <1>2, <1>3, <1>4, <1>5, <1>6 DEF IsUnit, Item, LabelIndex

\* It becomes bytes, with a relocation inside of them at most.
LEMMA EmittedTyped ==
  ASSUME TypeInv, UnitOpen, At < Len(Unit.items)
  PROVE  /\ EmittedNow.bytes \in Seq(Int)
         /\ IsJump(Item) => EmittedNow.relocs = <<>> /\ Len(EmittedNow.bytes) > 0
         /\ \/ EmittedNow.relocs = <<>>
            \/ \E r : /\ EmittedNow.relocs = <<r>> /\ IsReloc(r)
                      /\ r.offset + WidthOf(r) <= Len(EmittedNow.bytes)
<1>1. Len(buffer) \in Nat /\ At \in Nat /\ At = Len(offsets) /\ offsets \in Seq(Nat)
  BY DEF TypeInv, At, IsSequence
<1>2. CASE IsJump(Item)
  <2> DEFINE l == LabelIndex(Item.dst.label)
             behind == Behind(Item.dst.label)
             d == Append(offsets, Len(buffer))[l + 1] - Len(buffer)
  <2>1. l \in Nat /\ Item.arg \in 0 .. 15 /\ Item.op \in {"jmp", "jcc"}
    BY <1>2, Kinds
  <2>2. behind \in BOOLEAN /\ (behind <=> l <= At)
    BY DEF Behind
  <2>3. behind => d \in Int
    <3>1. Append(offsets, Len(buffer)) \in Seq(Nat) /\ Len(Append(offsets, Len(buffer))) = At + 1
      BY <1>1
    <3>2. behind => l + 1 \in 1 .. At + 1
      BY <1>1, <2>1, <2>2
    <3> DEFINE s == Append(offsets, Len(buffer))
    <3> HIDE DEF s, l, behind
    <3>3. s \in Seq(Nat) /\ Len(s) = At + 1
      BY <3>1 DEF s
    <3>4. behind => s[l + 1] \in Nat
      BY <3>2, <3>3, ElementOfSeq
    <3>5. d = s[l + 1] - Len(buffer)
      BY DEF s
    <3> HIDE DEF d
    <3>. QED BY <1>1, <3>4, <3>5
  <2>4. EmittedNow = Plain(JumpBytes(Item, behind, d))
    BY <1>2 DEF EmittedNow
  <2> HIDE DEF behind, d
  <2>5. JumpBytes(Item, behind, d) \in Seq(Int) /\ Len(JumpBytes(Item, behind, d)) > 0
    BY <2>1, <2>2, <2>3, JumpBytesTyped
  <2>. QED BY <2>4, <2>5 DEF Plain
<1>3. CASE ~IsJump(Item) /\ IsLeaf(Item)
  <2>1. IsLeafOfSlot(Item)
    BY <1>3, Kinds
  <2>2. EmittedNow = LeafBytes(Item, Len(buffer))
    BY <1>3 DEF EmittedNow
  <2>3. LeafBytes(Item, Len(buffer)).bytes \in Seq(Int)
    BY <1>1, <2>1, LeafTyped
  <2>4. CASE Item.leaf = "pointer"
    <3> DEFINE b == [k \in 1..8 |-> \hFF]
               r == [type |-> "GLOB_DAT", offset |-> 0, disp |-> 8, sym |-> Item.sym]
    <3>1. EmittedNow = [bytes |-> b, relocs |-> <<r>>]
      BY <2>2, <2>4 DEF LeafBytes
    <3>2. b \in Seq(Int) /\ Len(b) = 8
      OBVIOUS
    <3>3. IsReloc(r) /\ r.offset + WidthOf(r) <= 8
      BY DEF IsReloc, WidthOf
    <3> HIDE DEF b, r
    <3>4. EmittedNow.bytes = b /\ EmittedNow.relocs = <<r>>
      BY <3>1
    <3>. QED BY <1>3, <3>2, <3>3, <3>4
  <2>5. CASE Item.leaf # "pointer"
    <3>1. LeafBytes(Item, Len(buffer)).relocs = <<>>
      BY <2>1, <2>5 DEF LeafBytes, IsLeafOfSlot, Plain
    <3>. QED BY <1>3, <2>2, <2>3, <3>1
  <2>. QED BY <2>4, <2>5
<1>4. CASE ~IsJump(Item) /\ ~IsLeaf(Item)
  <2>1. IsEmitted(Encode(Item))
    BY <1>4, Kinds, EncodeTyped
  <2>2. EmittedNow = Encode(Item)
    BY <1>4 DEF EmittedNow
  <2>3. ASSUME NEW r, r \in [type: {"PC32", "PLT32"}, offset: Nat, disp: Int, sym: {r.sym}]
        PROVE  IsReloc(r) /\ WidthOf(r) = 4
    BY <2>3 DEF IsReloc, WidthOf
  <2>. QED BY <1>4, <2>1, <2>2, <2>3 DEF IsEmitted
<1>. QED BY <1>2, <1>3, <1>4

\* The steps of the specification, with those that emit taken as one.
LEMMA Steps ==
  ASSUME TypeInv, Next
  PROVE  Emitting \/ FinishUnit \/ StartEmission \/ StartRelocation \/ Relocate \/ Finish
<1>1. CASE EmitInstruction
  BY <1>1 DEF EmitInstruction, Emitting, EmittedNow
<1>2. CASE EmitLeaf
  <2>1. UnitOpen /\ At < Len(Unit.items) /\ IsLeaf(Item)
    BY <1>2 DEF EmitLeaf
  <2>2. ~IsJump(Item)
    BY <2>1, Kinds
  <2>. QED BY <1>2, <2>2 DEF EmitLeaf, Emitting, EmittedNow
<1>3. CASE EmitJump
  BY <1>3 DEF EmitJump, Emitting, EmittedNow, GapAt, Plain
<1>. QED BY <1>1, <1>2, <1>3 DEF Next

\* Patching gaps changes no length.
LEMMA PatchesKeep ==
  ASSUME IsFiniteSet(gaps), IsSequence(buffer)
  PROVE  IsSequence(ResolveAndPatch) /\ Len(ResolveAndPatch) = Len(buffer)
<1>1. PICK f : IsFold(f, SUBSET gaps) /\ ResolveAndPatch = f[gaps]
  BY FoldUnfolds
<1> DEFINE n == Cardinality(gaps)
           Good(s) == IsSequence(f[s]) /\ Len(f[s]) = Len(buffer)
           T == {k \in 0 .. n : \A s \in SUBSET gaps : Cardinality(s) = k => Good(s)}
           ch(s) == CHOOSE x \in s : TRUE
<1>2. n \in Nat
  BY FS_CardinalityType
<1>3. ASSUME NEW s \in SUBSET gaps
      PROVE  IsFiniteSet(s) /\ Cardinality(s) \in Nat /\ (Cardinality(s) = 0 <=> s = {})
  BY FS_Subset, FS_CardinalityType, FS_EmptySet
<1>4. \A s \in SUBSET gaps : f[s] = IF s = {} THEN buffer ELSE PatchGap(ch(s), f[s \ {ch(s)}])
  BY <1>1 DEF IsFold
<1>5. Good({})
  <2>1. f[{}] = buffer
    BY <1>4
  <2>. QED BY <2>1
<1>6. ASSUME NEW s \in SUBSET gaps, s # {}, Good(s \ {ch(s)})
      PROVE  Good(s)
  <2> DEFINE b == f[s \ {ch(s)}]
  <2>1. f[s] = PatchGap(ch(s), b)
    BY <1>4, <1>6
  <2> HIDE DEF b
  <2>2. IsSequence(b) /\ Len(b) = Len(buffer)
    BY <1>6 DEF b
  <2>3. IsSequence(PatchGap(ch(s), b)) /\ Len(PatchGap(ch(s), b)) = Len(b)
    BY <2>2, BytesPatched DEF PatchGap
  <2>. QED BY <2>1, <2>2, <2>3
<1>7. 0 \in T
  <2>1. ASSUME NEW s \in SUBSET gaps, Cardinality(s) = 0 PROVE Good(s)
    <3>1. s = {}
      BY <1>3, <2>1
    <3> HIDE DEF Good
    <3>. QED BY <1>5, <3>1
  <2> HIDE DEF n, Good
  <2>2. 0 \in 0 .. n
    BY <1>2
  <2>. QED BY <2>1, <2>2
<1>8. ASSUME NEW k \in 1 .. n, k - 1 \in T PROVE k \in T
  <2>1. ASSUME NEW s \in SUBSET gaps, Cardinality(s) = k PROVE Good(s)
    <3>1. s # {} /\ ch(s) \in s
      BY <1>2, <1>3, <2>1
    <3>2. Cardinality(s \ {ch(s)}) = k - 1 /\ s \ {ch(s)} \in SUBSET gaps
      BY <1>3, <2>1, <3>1, FS_RemoveElement
    <3>3. Good(s \ {ch(s)})
      <4> HIDE DEF Good, ch
      <4>. QED BY <1>8, <3>2
    <3>. QED BY <1>6, <3>1, <3>3
  <2> HIDE DEF n, Good
  <2>. QED BY <1>2, <2>1
<1> HIDE DEF T, Good
<1>9. n \in T
  <2>1. \A k \in 1 .. n : k - 1 \in T => k \in T
    BY <1>8
  <2> HIDE DEF n
  <2>2. n \in Nat
    BY <1>2
  <2>3. \A k \in 0 .. n : k \in T
    BY <1>7, <2>1, <2>2, Base!UpTo
  <2>. QED BY <2>2, <2>3
<1>10. Good(gaps)
  BY <1>9 DEF T
<1>. QED BY <1>1, <1>10 DEF Good

\* The relocations all are rs and then e, moved.
Follows(all, rs, e, by) ==
  /\ IsSequence(all) /\ \A n \in 1 .. Len(all) : IsReloc(all[n])
  /\ \A n \in 1 .. Len(rs) : all[n] = rs[n]
  /\ e = <<>> => all = rs
  /\ \A r : e = <<r>> =>
       /\ Len(all) = Len(rs) + 1
       /\ all[Len(rs) + 1] = [r EXCEPT !.offset = @ + by, !.disp = @ + by]

\* Relocations of an item are appended, moved to where the item is.
LEMMA RelocsMoved ==
  ASSUME NEW rs, IsSequence(rs), \A n \in 1 .. Len(rs) : IsReloc(rs[n]),
         NEW e, e = <<>> \/ \E r : e = <<r>> /\ IsReloc(r), NEW by \in Nat,
         NEW all, all = rs \o Moved(e, by)
  PROVE  Follows(all, rs, e, by)
<1>1. Len(rs) \in Nat /\ rs \in Seq(Range(rs))
  BY DEF IsSequence
<1>2. CASE e = <<>>
  <2>1. Moved(e, by) = <<>>
    BY <1>2 DEF Moved
  <2>2. all = rs
    BY <1>1, <2>1
  <2>3. \A r : e # <<r>>
    BY <1>2
  <2>. QED BY <1>1, <1>2, <2>2, <2>3 DEF Follows
<1>3. CASE e # <<>>
  <2>1. PICK r : e = <<r>> /\ IsReloc(r)
    BY <1>3
  <2> DEFINE m == [r EXCEPT !.offset = @ + by, !.disp = @ + by]
             moved == Moved(e, by)
  <2>2. IsReloc(m)
    <3>1. r.offset \in Nat /\ r.disp \in Int /\ r.type \in {"PC32", "PLT32", "GLOB_DAT"}
      BY <2>1 DEF IsReloc
    <3>2. DOMAIN r = {"type", "offset", "disp", "sym"}
      BY <2>1 DEF IsReloc
    <3>3. DOMAIN m = DOMAIN r /\ m.type = r.type /\ m.offset = r.offset + by /\ m.disp = r.disp + by
      BY <3>2
    <3> HIDE DEF m
    <3>. QED BY <3>1, <3>2, <3>3 DEF IsReloc
  <2>3. Moved(e, by) = <<m>>
    <3>1. Len(e) = 1 /\ e[1] = r
      BY <2>1
    <3>2. moved = [k \in 1 .. 1 |-> [e[k] EXCEPT !.offset = @ + by, !.disp = @ + by]]
      BY <3>1 DEF Moved
    <3>3. moved = [k \in 1 .. 1 |-> m]
      <4>1. \A k \in 1 .. 1 : e[k] = r
        BY <3>1
      <4>. QED BY <3>2, <4>1
    <3> HIDE DEF m, moved
    <3>. QED BY <3>3 DEF moved
  <2> HIDE DEF m
  <2>4. IsSequence(<<m>>) /\ Len(<<m>>) = 1 /\ <<m>>[1] = m
    BY DEF IsSequence, Range
  <2> DEFINE one == <<m>>
  <2>5. all = rs \o one
    BY <2>3
  <2> HIDE DEF one
  <2>6. IsSequence(one) /\ Len(one) = 1 /\ one[1] = m
    BY <2>4 DEF one
  <2>7. /\ IsSequence(rs \o one) /\ Len(rs \o one) = Len(rs) + Len(one)
        /\ \A j \in 1 .. Len(rs) : (rs \o one)[j] = rs[j]
        /\ \A j \in 1 .. Len(one) : (rs \o one)[Len(rs) + j] = one[j]
    <3>1. IsSequence(rs) /\ IsSequence(one)
      BY <2>6
    <3>. QED BY <3>1, BytesJoined
  <2>8. /\ IsSequence(all) /\ Len(all) = Len(rs) + 1
        /\ \A j \in 1 .. Len(rs) : all[j] = rs[j]
        /\ all[Len(rs) + 1] = m
    BY <2>5, <2>6, <2>7
  <2>9. \A n \in 1 .. Len(all) : IsReloc(all[n])
    <3>1. \A n \in 1 .. Len(rs) + 1 : n \in 1 .. Len(rs) \/ n = Len(rs) + 1
      BY <1>1
    <3>. QED BY <2>2, <2>8, <3>1
  <2>10. \A x : e = <<x>> => x = r
    BY <2>1
  <2>. QED BY <1>3, <2>8, <2>9, <2>10 DEF m, Follows
<1>. QED BY <1>2, <1>3

\* The invariant holds at first.
LEMMA TypeInit == Init => TypeInv
<1> SUFFICES ASSUME Init PROVE TypeInv
  OBVIOUS
<1>1. module \in Modules /\ phase = "size" /\ unit = 0
  BY DEF Init
<1>2. AreUnits(Units) /\ Len(Units) \in Nat
  BY <1>1, UnitsFacts DEF AreUnits
<1>3. IF UnitOpen THEN At <= Len(Unit.items) ELSE offsets = <<>>
  <2>1. CASE UnitOpen
    <3>1. 0 < Len(Units)
      BY <1>1, <2>1 DEF UnitOpen
    <3>2. 1 \in 1 .. Len(Units) /\ Unit = Units[1]
      BY <1>1, <1>2, <3>1 DEF Unit
    <3>3. Len(Unit.items) \in Nat
      BY <1>2, <3>2, LayoutFacts DEF AreUnits
    <3>4. At = 0
      BY DEF Init, At
    <3>. QED BY <2>1, <3>3, <3>4
  <2>2. CASE ~UnitOpen
    BY <2>2 DEF Init
  <2>. QED BY <2>1, <2>2
<1>4. IsSequence(<<>>) /\ Len(<<>>) = 0 /\ <<>> \in Seq(Nat)
  BY DEF IsSequence
<1>5. gaps = {} /\ IsFiniteSet(gaps)
  BY FS_EmptySet DEF Init
<1>6. relocs = <<>> /\ buffer = <<>> /\ measured = 0 /\ offsets = <<>>
  BY DEF Init
<1>7. \A n \in 1 .. Len(relocs) : IsReloc(relocs[n])
  BY <1>4, <1>6
<1>8. unit \in 0 .. Len(Units)
  BY <1>1, <1>2
<1>. QED BY <1>1, <1>3, <1>4, <1>5, <1>6, <1>7, <1>8 DEF TypeInv

\* What emitting an item does.
LEMMA EmittingFacts ==
  ASSUME TypeInv, Emitting
  PROVE  /\ UnitOpen /\ UnitOpen' /\ Units' = Units /\ Unit' = Unit /\ At' = At + 1
         /\ IsSequence(buffer') /\ Len(buffer') = Len(buffer) + Len(EmittedNow.bytes)
         /\ \A j \in 1 .. Len(buffer) : buffer'[j] = buffer[j]
         /\ \A j \in 1 .. Len(EmittedNow.bytes) : buffer'[Len(buffer) + j] = EmittedNow.bytes[j]
         /\ offsets' \in Seq(Nat) /\ offsets'[At + 1] = Len(buffer)
         /\ \A j \in 1 .. At : offsets'[j] = offsets[j]
         /\ IsSequence(EmittedNow.bytes) /\ EmittedNow.bytes \in Seq(Int)
<1>1. UnitOpen /\ At < Len(Unit.items)
  BY DEF Emitting
<1>2. EmittedNow.bytes \in Seq(Int)
  BY <1>1, EmittedTyped
<1>3. IsSequence(EmittedNow.bytes)
  BY <1>2, BytesAre
<1> DEFINE e == EmittedNow
<1>4. buffer' = buffer \o e.bytes /\ offsets' = Append(offsets, Len(buffer))
      /\ UNCHANGED <<module, phase, unit, chunks, measured>>
  BY DEF Emitting, Put
<1>5. Units' = Units
  BY <1>4 DEF Units
<1>6. Unit' = Unit /\ UnitOpen'
  BY <1>1, <1>4, <1>5 DEF Unit, UnitOpen
<1> HIDE DEF e
<1>7. IsSequence(buffer) /\ Len(buffer) \in Nat /\ offsets \in Seq(Nat)
  BY DEF TypeInv, IsSequence
<1>8. /\ IsSequence(buffer') /\ Len(buffer') = Len(buffer) + Len(e.bytes)
      /\ \A j \in 1 .. Len(buffer) : buffer'[j] = buffer[j]
      /\ \A j \in 1 .. Len(e.bytes) : buffer'[Len(buffer) + j] = e.bytes[j]
  <2>1. IsSequence(e.bytes)
    BY <1>3 DEF e
  <2>. QED BY <1>4, <1>7, <2>1, BytesJoined
<1>9. /\ offsets' \in Seq(Nat) /\ Len(offsets') = Len(offsets) + 1 /\ offsets'[Len(offsets) + 1] = Len(buffer)
      /\ \A j \in 1 .. Len(offsets) : offsets'[j] = offsets[j]
  BY <1>4, <1>7
<1>10. At' = At + 1 /\ At = Len(offsets)
  BY <1>9 DEF At
<1>. QED BY <1>1, <1>2, <1>3, <1>5, <1>6, <1>8, <1>9, <1>10 DEF e

\* The relocations after an item has been emitted.
LEMMA RelocsEmitted ==
  ASSUME TypeInv, Emitting
  PROVE  /\ IsSequence(relocs') /\ \A n \in 1 .. Len(relocs') : IsReloc(relocs'[n])
         /\ \A n \in 1 .. Len(relocs) : relocs'[n] = relocs[n]
         /\ \A n \in 1 .. Len(relocs') :
              n \in 1 .. Len(relocs) \/
              \E r : /\ EmittedNow.relocs = <<r>> /\ IsReloc(r) /\ r.offset + WidthOf(r) <= Len(EmittedNow.bytes)
                     /\ relocs'[n] = [r EXCEPT !.offset = @ + Len(buffer), !.disp = @ + Len(buffer)]
<1> DEFINE e == EmittedNow.relocs
           l == Len(EmittedNow.bytes)
           by == Len(buffer)
           all == relocs \o Moved(e, by)
<1>1. e = <<>> \/ \E r : e = <<r>> /\ IsReloc(r) /\ r.offset + WidthOf(r) <= l
  BY EmittedTyped DEF Emitting
<1>2. IsSequence(relocs) /\ Len(relocs) \in Nat /\ (\A n \in 1 .. Len(relocs) : IsReloc(relocs[n])) /\ by \in Nat
  BY DEF TypeInv, IsSequence
<1>3. relocs' = IF phase = "size" THEN relocs ELSE all
  BY DEF Emitting, Put
<1>4. CASE phase = "size"
  BY <1>2, <1>3, <1>4
<1>5. CASE phase # "size"
  <2>1. relocs' = all
    BY <1>3, <1>5
  <2> HIDE DEF e, by, l
  <2>2. /\ IsSequence(all)
        /\ \A n \in 1 .. Len(relocs) : all[n] = relocs[n]
        /\ \A n \in 1 .. Len(all) : IsReloc(all[n])
        /\ e = <<>> => all = relocs
        /\ \A r : e = <<r>> =>
              /\ Len(all) = Len(relocs) + 1
              /\ all[Len(relocs) + 1] = [r EXCEPT !.offset = @ + by, !.disp = @ + by]
    <3>1. e = <<>> \/ \E r : e = <<r>> /\ IsReloc(r)
      BY <1>1
    <3>2. IsSequence(relocs) /\ (\A n \in 1 .. Len(relocs) : IsReloc(relocs[n])) /\ by \in Nat
      BY <1>2
    <3> HIDE DEF all
    <3>3. all = relocs \o Moved(e, by)
      BY DEF all
    <3>4. Follows(all, relocs, e, by)
      BY <3>1, <3>2, <3>3, RelocsMoved
    <3>. QED BY <3>4 DEF Follows
  <2> HIDE DEF all
  <2>3. ASSUME NEW n \in 1 .. Len(all), n \notin 1 .. Len(relocs)
        PROVE  \E r : /\ e = <<r>> /\ IsReloc(r) /\ r.offset + WidthOf(r) <= l
                      /\ all[n] = [r EXCEPT !.offset = @ + by, !.disp = @ + by]
    <3>1. e # <<>>
      BY <2>2, <2>3
    <3>2. PICK r : e = <<r>> /\ IsReloc(r) /\ r.offset + WidthOf(r) <= l
      BY <1>1, <3>1
    <3>3. Len(all) = Len(relocs) + 1 /\ all[Len(relocs) + 1] = [r EXCEPT !.offset = @ + by, !.disp = @ + by]
      BY <2>2, <3>2
    <3>4. n = Len(relocs) + 1
      BY <1>2, <2>3, <3>3
    <3>. QED BY <3>2, <3>3, <3>4
  <2>. QED BY <2>1, <2>2, <2>3 DEF e, by, l
<1>. QED BY <1>4, <1>5

\* Emitting an item keeps the invariant.
LEMMA TypeEmitting ==
  ASSUME TypeInv, Emitting
  PROVE  TypeInv'
<1>1. /\ UnitOpen /\ UnitOpen' /\ Units' = Units /\ Unit' = Unit /\ At' = At + 1
      /\ IsSequence(buffer') /\ offsets' \in Seq(Nat)
  BY EmittingFacts
<1>2. UNCHANGED <<module, phase, unit, measured>> /\ At < Len(Unit.items)
  BY DEF Emitting, Put
<1>3. IsSequence(relocs') /\ \A n \in 1 .. Len(relocs') : IsReloc(relocs'[n])
  BY RelocsEmitted
<1>4. IsFiniteSet(gaps')
  <2>1. gaps' = gaps \/ \E g : gaps' = gaps \cup {g}
    BY DEF Emitting
  <2>2. IsFiniteSet(gaps)
    BY DEF TypeInv
  <2>. QED BY <2>1, <2>2, FS_AddElement
<1>5. At' <= Len(Unit'.items)
  <2>1. At \in Nat /\ Len(Unit.items) \in Nat
    BY <1>1, Kinds
  <2>. QED BY <1>1, <1>2, <2>1
<1>. QED BY <1>1, <1>2, <1>3, <1>4, <1>5 DEF TypeInv

\* What closing a unit does.
LEMMA FinishUnitFacts ==
  ASSUME TypeInv, FinishUnit
  PROVE  /\ UnitOpen /\ Units' = Units /\ unit + 1 \in 1 .. Len(Units) /\ unit' = unit + 1
         /\ At = Len(Unit.items) /\ offsets' = <<>> /\ gaps' = {} /\ At' = 0
         /\ IsSequence(buffer')
         /\ IF phase = "size" THEN buffer' = <<>> ELSE buffer' = ResolveAndPatch /\ Len(buffer') = Len(buffer)
<1>1. /\ UnitOpen /\ At = Len(Unit.items) /\ unit' = unit + 1 /\ offsets' = <<>> /\ gaps' = {}
      /\ UNCHANGED <<module, phase>>
      /\ buffer' = IF phase = "size" THEN <<>> ELSE ResolveAndPatch
  BY DEF FinishUnit
<1>2. Units' = Units
  BY <1>1 DEF Units
<1>3. unit + 1 \in 1 .. Len(Units)
  BY <1>1, Kinds
<1>4. IsSequence(<<>>)
  BY DEF IsSequence
<1>5. IsSequence(ResolveAndPatch) /\ Len(ResolveAndPatch) = Len(buffer)
  BY PatchesKeep DEF TypeInv
<1>6. At' = 0
  BY <1>1 DEF At
<1>. QED BY <1>1, <1>2, <1>3, <1>4, <1>5, <1>6

\* A unit that has just been opened, if there is one, holds no item yet.
LEMMA Opens ==
  module' \in Modules /\ unit' \in Nat /\ At' = 0 /\ offsets' = <<>> =>
    IF UnitOpen' THEN At' <= Len(Unit'.items) ELSE offsets' = <<>>
<1> SUFFICES ASSUME module' \in Modules, unit' \in Nat, At' = 0, offsets' = <<>>
             PROVE  IF UnitOpen' THEN At' <= Len(Unit'.items) ELSE offsets' = <<>>
  OBVIOUS
<1>1. CASE UnitOpen'
  <2>1. AreUnits(Units') /\ Len(Units') \in Nat
    <3>1. (module \in Modules => AreUnits(Units))'
      BY UnitsFacts, PTL
    <3>. QED BY <3>1 DEF AreUnits
  <2>2. unit' + 1 \in 1 .. Len(Units')
    <3>1. unit' < Len(Units')
      BY <1>1 DEF UnitOpen
    <3>2. \A k, n \in Nat : k < n => k + 1 \in 1 .. n
      OBVIOUS
    <3>. QED BY <2>1, <3>1, <3>2, Zenon
  <2>3. IsUnit(Unit')
    BY <2>1, <2>2 DEF AreUnits, Unit
  <2>4. Len(Unit'.items) \in Nat
    BY <2>3, LayoutFacts
  <2>. QED BY <1>1, <2>4
<1>2. CASE ~UnitOpen'
  BY <1>2
<1>. QED BY <1>1, <1>2

\* Closing a unit keeps the invariant.
LEMMA TypeFinishUnit ==
  ASSUME TypeInv, FinishUnit
  PROVE  TypeInv'
<1>1. /\ UnitOpen /\ Units' = Units /\ unit + 1 \in 1 .. Len(Units) /\ unit' = unit + 1
      /\ offsets' = <<>> /\ gaps' = {} /\ At' = 0 /\ IsSequence(buffer')
  BY FinishUnitFacts
<1>2. UNCHANGED <<module, phase, relocs>> /\ measured' \in {measured, measured + Len(buffer)}
  BY DEF FinishUnit
<1>3. module' \in Modules /\ unit' \in Nat /\ phase' \in {"size", "emit"} /\ IsFiniteSet(gaps') /\ <<>> \in Seq(Nat)
  BY <1>1, <1>2, FS_EmptySet DEF TypeInv, UnitOpen
<1>4. IF UnitOpen' THEN At' <= Len(Unit'.items) ELSE offsets' = <<>>
  BY <1>1, <1>3, Opens
<1>5. measured' \in Nat
  <2>1. measured \in Nat /\ Len(buffer) \in Nat
    BY DEF TypeInv, IsSequence
  <2>. QED BY <1>2, <2>1
<1>6. unit' \in 0 .. Len(Units')
  BY <1>1
<1>7. IsSequence(relocs') /\ \A n \in 1 .. Len(relocs') : IsReloc(relocs'[n])
  BY <1>2 DEF TypeInv
<1>. QED BY <1>1, <1>3, <1>4, <1>5, <1>6, <1>7 DEF TypeInv

\* A relocation replaces the bytes of its field.
LEMMA RelocateFacts ==
  ASSUME TypeInv, Relocate
  PROVE  /\ IsReloc(relocs[1]) /\ relocs' = Tail(relocs) /\ IsSequence(relocs') /\ Len(relocs') = Len(relocs) - 1
         /\ \A n \in 1 .. Len(relocs') : relocs'[n] = relocs[n + 1]
         /\ IsSequence(buffer') /\ Len(buffer') = Len(buffer)
         /\ \E field : /\ Len(field) = WidthOf(relocs[1])
                       /\ buffer' = Patch(buffer, relocs[1].offset, field)
<1> DEFINE r == relocs[1]
<1>1. Len(relocs) \in Nat /\ relocs \in Seq(Range(relocs)) /\ relocs # <<>>
  BY DEF TypeInv, IsSequence, Relocate
<1>2. Len(relocs) > 0
  BY <1>1
<1>3. IsReloc(r) /\ Head(relocs) = r
  <2>1. 1 \in 1 .. Len(relocs)
    BY <1>1, <1>2
  <2>. QED BY <1>1, <1>2, <2>1 DEF TypeInv
<1>4. relocs' = Tail(relocs) /\ buffer' = Patched(r)
  BY <1>3 DEF Relocate
<1>5. /\ relocs' \in Seq(Range(relocs)) /\ Len(relocs') = Len(relocs) - 1
      /\ \A n \in 1 .. Len(relocs') : relocs'[n] = relocs[n + 1]
  BY <1>1, <1>2, <1>4
<1>6. IsSequence(relocs')
  BY <1>5, BytesAre
<1> HIDE DEF r
<1>7. \E field : Len(field) = WidthOf(r) /\ buffer' = Patch(buffer, r.offset, field)
  <2>1. \A v, w : w \in {4, 8} => Len(LittleEndian(v, w)) = w
    BY DEF LittleEndian
  <2>2. CASE r.type = "PC32"
    <3> DEFINE f == LittleEndian(chunks[r.sym].start - r.disp, 4)
    <3>1. buffer' = Patch(buffer, r.offset, f)
      BY <1>4, <2>2 DEF Patched
    <3>2. Len(f) = WidthOf(r)
      BY <2>1, <2>2 DEF WidthOf
    <3>. QED BY <3>1, <3>2
  <2>3. CASE r.type = "PLT32"
    <3> DEFINE f == LittleEndian(PltEntry(r.sym) - PltSize - r.disp, 4)
    <3>1. buffer' = Patch(buffer, r.offset, f)
      BY <1>4, <2>3 DEF Patched
    <3>2. Len(f) = WidthOf(r)
      BY <2>1, <2>3 DEF WidthOf
    <3>. QED BY <3>1, <3>2
  <2>4. CASE r.type = "GLOB_DAT"
    <3> DEFINE f == LittleEndian(CodeAddress + r.disp, 8)
    <3>1. buffer' = Patch(buffer, r.offset, f)
      BY <1>4, <2>4 DEF Patched
    <3>2. Len(f) = WidthOf(r)
      BY <2>1, <2>4 DEF WidthOf
    <3>. QED BY <3>1, <3>2
  <2>. QED BY <1>3, <2>2, <2>3, <2>4 DEF IsReloc
<1>8. IsSequence(buffer') /\ Len(buffer') = Len(buffer)
  BY <1>7, BytesPatched DEF TypeInv
<1>. QED BY <1>3, <1>4, <1>5, <1>6, <1>7, <1>8 DEF r

\* Every step keeps the invariant.
LEMMA TypeStep == TypeInv /\ [Next]_vars => TypeInv'
<1> SUFFICES ASSUME TypeInv, [Next]_vars PROVE TypeInv'
  OBVIOUS
<1>1. CASE Emitting
  BY <1>1, TypeEmitting
<1>2. CASE FinishUnit
  BY <1>2, TypeFinishUnit
<1>3. CASE StartEmission
  <2>1. /\ phase' = "emit" /\ unit' = 0 /\ phase = "size"
        /\ UNCHANGED <<module, buffer, offsets, gaps, relocs, chunks, measured>>
    BY <1>3 DEF StartEmission
  <2>2. ~UnitOpen /\ offsets = <<>>
    <3>1. unit = Len(Units) /\ Len(Units) \in Nat
      BY <1>3, UnitsFacts DEF StartEmission, TypeInv, AreUnits
    <3>2. ~UnitOpen
      BY <3>1 DEF UnitOpen
    <3>. QED BY <3>2 DEF TypeInv
  <2>3. offsets' = <<>> /\ At' = 0 /\ module' \in Modules /\ unit' \in Nat
    BY <2>1, <2>2 DEF At, TypeInv
  <2>4. IF UnitOpen' THEN At' <= Len(Unit'.items) ELSE offsets' = <<>>
    BY <2>3, Opens
  <2>5. unit' \in 0 .. Len(Units')
    <3>1. (module \in Modules => AreUnits(Units))'
      BY UnitsFacts, PTL
    <3>. QED BY <2>1, <2>3, <3>1 DEF AreUnits
  <2>. QED BY <2>1, <2>4, <2>5 DEF TypeInv
<1>4. CASE StartRelocation \/ Finish
  <2>1. /\ phase' \in {"relocate", "done"} /\ phase \in {"emit", "relocate"} /\ unit = Len(Units)
        /\ UNCHANGED <<module, unit, buffer, offsets, gaps, relocs, chunks, measured>>
    BY <1>4 DEF StartRelocation, Finish, TypeInv
  <2>2. Units' = Units
    BY <2>1 DEF Units
  <2>3. Len(Units) \in Nat
    BY UnitsFacts DEF TypeInv, AreUnits
  <2>4. ~UnitOpen /\ ~UnitOpen'
    BY <2>1, <2>2, <2>3 DEF UnitOpen
  <2>. QED BY <2>1, <2>2, <2>4 DEF TypeInv
<1>5. CASE Relocate
  <2>1. UNCHANGED <<module, phase, unit, offsets, gaps, chunks, measured>> /\ phase = "relocate"
    BY <1>5 DEF Relocate
  <2>2. Units' = Units /\ ~UnitOpen /\ ~UnitOpen'
    BY <2>1 DEF Units, UnitOpen
  <2>3. /\ IsSequence(relocs') /\ IsSequence(buffer') /\ Len(relocs') = Len(relocs) - 1
        /\ \A n \in 1 .. Len(relocs') : relocs'[n] = relocs[n + 1]
    BY <1>5, RelocateFacts
  <2>4. \A n \in 1 .. Len(relocs') : IsReloc(relocs'[n])
    <3>1. Len(relocs) \in Nat /\ \A n \in 1 .. Len(relocs) : IsReloc(relocs[n])
      BY DEF TypeInv, IsSequence
    <3>2. \A n \in 1 .. Len(relocs') : n + 1 \in 1 .. Len(relocs)
      BY <2>3, <3>1
    <3>. QED BY <2>3, <3>1, <3>2
  <2>. QED BY <2>1, <2>2, <2>3, <2>4 DEF TypeInv
<1>6. CASE UNCHANGED vars
  <2>1. /\ UNCHANGED <<module, phase, unit, buffer, offsets, gaps, relocs, chunks, measured>>
    BY <1>6 DEF vars
  <2>2. Units' = Units
    BY <2>1 DEF Units
  <2>3. Unit' = Unit /\ At' = At /\ (UnitOpen' <=> UnitOpen)
    BY <2>1, <2>2 DEF Unit, At, UnitOpen
  <2>. QED BY <2>1, <2>2, <2>3 DEF TypeInv
<1>. QED BY <1>1, <1>2, <1>3, <1>4, <1>5, <1>6, Steps

(* In every module, at every step: the buffer is bytes, whatever is      *)
(* encoded and patched, and offsets, gaps and relocations are those of   *)
(* what has been emitted.                                                *)
THEOREM TypeCorrect == Spec => []TypeInv
  BY TypeInit, TypeStep, PTL DEF Spec

\* A unit with a string in it.
HoldsString(u) == \E k \in 1 .. Len(u.items) : IsLeaf(u.items[k]) /\ u.items[k].leaf = "string"

\* In the layout the dry run measures, slots and then functions, no string is off eight bytes for its slot's sake.
StringsAligned ==
  \A n \in 1 .. Len(module.slots) :
    HoldsString(module.slots[n]) => Laid(module.slots, module.functions, n - 1) % 8 = 0

\* Where the layout has the open unit start.
From  == IF phase = "size" THEN 0 ELSE Laid(module.slots, module.functions, unit)
\* How far into the unit the layout has the next item.
Into  == IF UnitOpen THEN LayoutOf(Unit)[At] ELSE 0
\* The size of all units.
Total == SumOf(module.slots)[Len(module.slots)] + SumOf(module.functions)[Len(module.functions)]

\* The dry run adds up the sizes of the units; and what is emitted is where the layout has it.
LayoutInv ==
  /\ measured = IF phase = "size" THEN Laid(module.functions, module.slots, unit) ELSE Total
  /\ phase = "size" \/ StringsAligned =>
       /\ Len(buffer) = From + Into
       /\ UnitOpen => \A j \in 1 .. At : offsets[j] = From + LayoutOf(Unit)[j - 1]

\* What the sums of sizes are, in the order of either phase.
LEMMA TotalFacts ==
  ASSUME TypeInv
  PROVE  /\ Total \in Nat /\ From \in Nat
         /\ Laid(module.functions, module.slots, 0) = 0 /\ Laid(module.slots, module.functions, 0) = 0
         /\ Laid(module.functions, module.slots, Len(Units)) = Total
         /\ Laid(module.slots, module.functions, Len(Units)) = Total
         /\ \A n \in 0 .. Len(Units) :
              /\ Laid(module.functions, module.slots, n) \in Nat
              /\ Laid(module.slots, module.functions, n) \in Nat /\ Laid(module.slots, module.functions, n) <= Total
         /\ \A n \in 1 .. Len(Units) :
              /\ phase = "size" => Laid(module.functions, module.slots, n)
                                     = Laid(module.functions, module.slots, n - 1) + SizeOf(Units[n])
              /\ phase # "size" => Laid(module.slots, module.functions, n)
                                     = Laid(module.slots, module.functions, n - 1) + SizeOf(Units[n])
<1> DEFINE s == module.slots
           f == module.functions
           a == SumOf(s)[Len(s)]
           b == SumOf(f)[Len(f)]
           n == Len(Units)
<1>1. /\ AreUnits(s) /\ AreUnits(f) /\ s \in Seq(Range(s)) /\ f \in Seq(Range(f))
      /\ n = Len(s) + Len(f) /\ Len(s) \in Nat /\ Len(f) \in Nat
  BY UnitsFacts DEF TypeInv
<1>2. unit \in 0 .. n
  BY DEF TypeInv
<1>3. Units = IF phase = "size" THEN f \o s ELSE s \o f
  BY DEF Units
<1>4. From = IF phase = "size" THEN 0 ELSE Laid(s, f, unit)
  BY DEF From
<1>5. Total = a + b
  BY DEF Total
<1> HIDE DEF s, f, n
<1>6. a \in Nat /\ b \in Nat
  <2>1. Len(s) \in 0 .. Len(s) /\ Len(f) \in 0 .. Len(f)
    BY <1>1
  <2>. QED BY <1>1, <2>1, SumFacts
<1> HIDE DEF a, b
<1>7. /\ Laid(s, f, 0) = 0 /\ Laid(s, f, n) = a + b
      /\ \A k \in 0 .. n : Laid(s, f, k) \in Nat /\ Laid(s, f, k) <= a + b
      /\ \A k \in 1 .. n : Laid(s, f, k) = Laid(s, f, k - 1) + SizeOf((s \o f)[k])
  BY <1>1, LaidFacts DEF a, b
<1>8. Len(f) + Len(s) = n
  BY <1>1
<1>9. /\ Laid(f, s, 0) = 0 /\ Laid(f, s, n) = b + a
      /\ \A k \in 0 .. n : Laid(f, s, k) \in Nat
      /\ \A k \in 1 .. n : Laid(f, s, k) = Laid(f, s, k - 1) + SizeOf((f \o s)[k])
  BY <1>1, <1>8, LaidFacts DEF a, b
<1>10. Total \in Nat /\ b + a = Total
  BY <1>5, <1>6
<1>11. From \in Nat
  BY <1>2, <1>4, <1>7
<1>. QED BY <1>3, <1>5, <1>7, <1>9, <1>10, <1>11 DEF s, f, n

\* The start of the open unit.
LEMMA FromFacts ==
  ASSUME TypeInv, UnitOpen, At < Len(Unit.items), IsLeaf(Item), Item.leaf = "string",
         phase = "size" \/ StringsAligned
  PROVE  From % 8 = 0
<1>1. CASE phase = "size"
  BY <1>1 DEF From
<1>2. CASE phase # "size"
  <2> DEFINE s == module.slots
             f == module.functions
  <2>1. /\ AreUnits(s) /\ AreUnits(f) /\ s \in Seq(Range(s)) /\ f \in Seq(Range(f))
        /\ Len(s) \in Nat /\ Len(f) \in Nat /\ Len(Units) = Len(s) + Len(f) /\ module \in Modules
    BY UnitsFacts DEF TypeInv
  <2>2. unit + 1 \in 1 .. Len(Units) /\ At + 1 \in 1 .. Len(Unit.items) /\ unit \in Nat
    BY Kinds DEF TypeInv
  <2>3. Units = s \o f
    BY <1>2 DEF Units
  <2> HIDE DEF s, f
  <2>4. /\ \A j \in 1 .. Len(s) : (s \o f)[j] = s[j]
        /\ \A j \in 1 .. Len(f) : (s \o f)[Len(s) + j] = f[j]
    BY <2>1, BytesJoined DEF IsSequence
  <2>5. CASE unit + 1 <= Len(s)
    <3>1. unit + 1 \in 1 .. Len(s)
      BY <2>1, <2>2, <2>5
    <3>2. Unit = s[unit + 1]
      BY <2>3, <2>4, <3>1 DEF Unit
    <3>3. HoldsString(s[unit + 1])
      BY <2>2, <3>2 DEF HoldsString, Item
    <3>4. Laid(module.slots, module.functions, (unit + 1) - 1) % 8 = 0
      BY <1>2, <3>1, <3>3 DEF StringsAligned, s
    <3>5. (unit + 1) - 1 = unit
      BY <2>2
    <3>. QED BY <1>2, <3>4, <3>5 DEF From
  <2>6. CASE unit + 1 > Len(s)
    <3>1. PICK j \in 1 .. Len(f) : unit + 1 = Len(s) + j
      <4>1. unit + 1 - Len(s) \in 1 .. Len(f) /\ unit + 1 = Len(s) + (unit + 1 - Len(s))
        BY <2>1, <2>2, <2>6
      <4>. QED BY <4>1
    <3>2. Unit = f[j]
      BY <2>3, <2>4, <3>1 DEF Unit
    <3>3. f[j] \in Range(f)
      BY <2>1, Ranges
    <3>4. \A u \in Range(f) : \A k \in 1 .. Len(u.items) : ~IsLeaf(u.items[k])
      BY <2>1, UnitFacts DEF f
    <3>5. ~IsLeaf(Unit.items[At + 1])
      BY <2>2, <3>2, <3>3, <3>4
    <3>. QED BY <3>5 DEF Item
  <2>. QED BY <2>1, <2>2, <2>5, <2>6
<1>. QED BY <1>1, <1>2

\* An item takes as many bytes as in the layout.
LEMMA EmittedSize ==
  ASSUME TypeInv, LayoutInv, UnitOpen, At < Len(Unit.items), phase = "size" \/ StringsAligned
  PROVE  Len(EmittedNow.bytes) = Len(ItemBytes(Unit, LayoutOf(Unit), At + 1))
<1> DEFINE L == LayoutOf(Unit)
           n == Len(Unit.items)
<1>1. /\ IsUnit(Unit) /\ n \in Nat /\ At \in Nat /\ At + 1 \in 1 .. n
      /\ From \in Nat /\ Len(buffer) \in Nat /\ At = Len(offsets) /\ offsets \in Seq(Nat)
  BY Kinds, TotalFacts DEF TypeInv, At, IsSequence
<1>2. /\ L \in [0 .. n -> Nat]
      /\ \A k \in 0 .. n : L[k] \in Nat
  BY <1>1, LayoutFacts DEF IsLayout
<1>3. Len(buffer) = From + L[At] /\ \A j \in 1 .. At : offsets[j] = From + L[j - 1]
  BY DEF LayoutInv, Into
<1>4. (At + 1) - 1 = At /\ At \in 0 .. n
  BY <1>1
<1> HIDE DEF L, n
<1>5. ItemBytes(Unit, L, At + 1) =
        IF IsJump(Item)
        THEN JumpBytes(Item, Unit.labels[Item.dst.label] <= At, L[Unit.labels[Item.dst.label]] - L[At])
        ELSE IF IsLeaf(Item) THEN LeafBytes(Item, L[At]).bytes ELSE Encode(Item).bytes
  BY <1>4 DEF ItemBytes, Item
<1>6. CASE IsJump(Item)
  <2> DEFINE l == Unit.labels[Item.dst.label]
             s == Append(offsets, Len(buffer))
  <2>1. l \in 0 .. n - 1
    BY <1>6, Kinds DEF LabelIndex, n
  <2>2. EmittedNow.bytes = JumpBytes(Item, l <= At, s[l + 1] - Len(buffer))
    BY <1>6 DEF EmittedNow, Plain, Behind, LabelIndex
  <2> HIDE DEF l
  <2>3. CASE l <= At
    <3>1. s[l + 1] = From + L[l]
      <4>1. CASE l = At
        <5>1. s[At + 1] = Len(buffer)
          BY <1>1
        <5>. QED BY <1>3, <4>1, <5>1
      <4>2. CASE l # At
        <5>1. l + 1 \in 1 .. At /\ (l + 1) - 1 = l
          BY <1>1, <2>1, <2>3, <4>2
        <5>2. s[l + 1] = offsets[l + 1]
          BY <1>1, <5>1
        <5>. QED BY <1>3, <5>1, <5>2
      <4>. QED BY <4>1, <4>2
    <3>2. L[l] \in Nat /\ L[At] \in Nat
      BY <1>1, <1>2, <1>4, <2>1
    <3>3. s[l + 1] - Len(buffer) = L[l] - L[At]
      <4> HIDE DEF s
      <4>. QED BY <1>1, <1>3, <3>1, <3>2
    <3> HIDE DEF s
    <3>. QED BY <1>5, <1>6, <2>2, <3>3 DEF l, L
  <2>4. CASE ~(l <= At)
    <3> HIDE DEF s
    <3>. QED BY <1>5, <1>6, <2>2, <2>4 DEF JumpBytes, l, L
  <2>. QED BY <2>3, <2>4
<1>7. CASE ~IsJump(Item) /\ IsLeaf(Item)
  <2>1. IsLeafOfSlot(Item)
    BY <1>7, Kinds
  <2>2. EmittedNow = LeafBytes(Item, From + L[At])
    BY <1>3, <1>7 DEF EmittedNow
  <2>3. Item.leaf # "string" \/ From % 8 = 0
    BY <1>7, FromFacts
  <2>4. L[At] \in Nat
    BY <1>2, <1>4
  <2>5. Len(LeafBytes(Item, From + L[At]).bytes) = Len(LeafBytes(Item, L[At]).bytes)
    BY <1>1, <2>1, <2>3, <2>4, LeafTyped
  <2>. QED BY <1>5, <1>7, <2>2, <2>5 DEF L
<1>8. CASE ~IsJump(Item) /\ ~IsLeaf(Item)
  BY <1>5, <1>8 DEF EmittedNow, L
<1>. QED BY <1>6, <1>7, <1>8

\* The invariant holds at first.
LEMMA LayoutInit == Init => LayoutInv
<1> SUFFICES ASSUME Init PROVE LayoutInv
  OBVIOUS
<1>1. phase = "size" /\ unit = 0 /\ buffer = <<>> /\ measured = 0 /\ offsets = <<>>
  BY DEF Init
<1>2. TypeInv
  BY TypeInit
<1>3. measured = Laid(module.functions, module.slots, unit)
  BY <1>1, <1>2, TotalFacts
<1>4. From = 0 /\ Len(buffer) = 0 /\ At = 0
  BY <1>1 DEF From, At
<1>5. Into = 0
  <2>1. CASE UnitOpen
    <3>1. LayoutOf(Unit)[0] = 0
      BY <1>2, <2>1, Kinds, LayoutFacts DEF IsLayout
    <3>. QED BY <1>4, <2>1, <3>1 DEF Into
  <2>2. CASE ~UnitOpen
    BY <2>2 DEF Into
  <2>. QED BY <2>1, <2>2
<1>6. \A j \in 1 .. At : FALSE
  BY <1>4
<1>. QED BY <1>1, <1>3, <1>4, <1>5, <1>6 DEF LayoutInv

\* Emitting an item keeps it.
LEMMA LayoutEmitting ==
  ASSUME TypeInv, LayoutInv, Emitting
  PROVE  LayoutInv'
<1>1. /\ UnitOpen /\ UnitOpen' /\ Units' = Units /\ Unit' = Unit /\ At' = At + 1
      /\ Len(buffer') = Len(buffer) + Len(EmittedNow.bytes)
      /\ offsets'[At + 1] = Len(buffer) /\ \A j \in 1 .. At : offsets'[j] = offsets[j]
  BY EmittingFacts
<1>2. UNCHANGED <<module, phase, unit, measured>> /\ At < Len(Unit.items)
  BY DEF Emitting, Put
<1>3. From' = From /\ Total' = Total /\ (StringsAligned' <=> StringsAligned)
  BY <1>2 DEF From, Total, StringsAligned
<1>4. measured' = IF phase' = "size" THEN Laid(module.functions, module.slots, unit)' ELSE Total'
  BY <1>2, <1>3 DEF LayoutInv
<1>5. ASSUME phase = "size" \/ StringsAligned
      PROVE  /\ Len(buffer') = From' + Into'
             /\ \A j \in 1 .. At' : offsets'[j] = From' + LayoutOf(Unit')[j - 1]
  <2> DEFINE L == LayoutOf(Unit)
             n == Len(Unit.items)
             l == Len(EmittedNow.bytes)
  <2>1. n \in Nat /\ At \in Nat /\ At + 1 \in 1 .. n /\ IsUnit(Unit) /\ From \in Nat
    BY <1>1, <1>2, Kinds, TotalFacts
  <2>2. l = Len(ItemBytes(Unit, L, At + 1))
    BY <1>1, <1>2, <1>5, EmittedSize
  <2>3. L[At + 1] = L[(At + 1) - 1] + Len(ItemBytes(Unit, L, At + 1)) /\ \A k \in 0 .. n : L[k] \in Nat
    BY <2>1, LayoutFacts DEF IsLayout
  <2>4. Len(buffer) = From + L[At] /\ \A j \in 1 .. At : offsets[j] = From + L[j - 1]
    BY <1>1, <1>5 DEF LayoutInv, Into
  <2>5. Into' = L[At + 1]
    BY <1>1 DEF Into
  <2> HIDE DEF L, l, n
  <2>6. L[At] \in Nat /\ l \in Nat /\ L[At + 1] = L[At] + l
    <3>1. (At + 1) - 1 = At /\ At \in 0 .. n
      BY <2>1
    <3>2. l \in Nat
      BY EmittingFacts DEF l, IsSequence
    <3>. QED BY <2>2, <2>3, <3>1, <3>2
  <2>7. Len(buffer') = From + L[At] + l
    BY <1>1, <2>4 DEF l
  <2>8. Len(buffer') = From' + Into'
    BY <1>3, <2>1, <2>5, <2>6, <2>7
  <2>9. ASSUME NEW j \in 1 .. At + 1 PROVE offsets'[j] = From + L[j - 1]
    <3>1. CASE j = At + 1
      <4>1. j - 1 = At
        BY <2>1, <3>1
      <4>. QED BY <1>1, <2>4, <3>1, <4>1
    <3>2. CASE j # At + 1
      <4>1. j \in 1 .. At
        BY <2>1, <3>2
      <4>. QED BY <1>1, <2>4, <4>1
    <3>. QED BY <3>1, <3>2
  <2>. QED BY <1>1, <1>3, <2>8, <2>9 DEF L
<1>6. phase' = "size" \/ StringsAligned' => phase = "size" \/ StringsAligned
  BY <1>2, <1>3
<1>. QED BY <1>4, <1>5, <1>6 DEF LayoutInv

\* Closing a unit keeps it.
LEMMA LayoutFinishUnit ==
  ASSUME TypeInv, LayoutInv, FinishUnit
  PROVE  LayoutInv'
<1>1. /\ UnitOpen /\ Units' = Units /\ unit + 1 \in 1 .. Len(Units) /\ unit' = unit + 1
      /\ At = Len(Unit.items) /\ At' = 0
      /\ IF phase = "size" THEN buffer' = <<>> ELSE buffer' = ResolveAndPatch /\ Len(buffer') = Len(buffer)
  BY FinishUnitFacts
<1>2. /\ UNCHANGED <<module, phase>>
      /\ measured' = IF phase = "size" THEN measured + Len(buffer) ELSE measured
  BY DEF FinishUnit
<1>3. Total' = Total /\ (StringsAligned' <=> StringsAligned)
  BY <1>2 DEF Total, StringsAligned
<1>4. TypeInv'
  BY TypeFinishUnit
<1>5. Into' = 0
  <2>1. CASE UnitOpen'
    <3>1. IsUnit(Unit')
      <4>1. TypeInv' /\ UnitOpen' => IsUnit(Unit')
        <5>1. (TypeInv /\ UnitOpen => IsUnit(Unit))'
          BY Kinds, PTL
        <5>. QED BY <5>1
      <4>. QED BY <1>4, <2>1, <4>1
    <3>2. LayoutOf(Unit')[0] = 0
      BY <3>1, LayoutFacts DEF IsLayout
    <3>. QED BY <1>1, <2>1, <3>2 DEF Into
  <2>2. CASE ~UnitOpen'
    BY <2>2 DEF Into
  <2>. QED BY <2>1, <2>2
<1>6. \A j \in 1 .. At' : FALSE
  BY <1>1
<1>7. Unit = Units[unit + 1] /\ SizeOf(Unit) = LayoutOf(Unit)[At] /\ SizeOf(Unit) \in Nat
  <2>1. IsUnit(Unit)
    BY <1>1, Kinds
  <2>. QED BY <1>1, <2>1, LayoutFacts DEF Unit, SizeOf
<1>8. unit \in Nat /\ (unit + 1) - 1 = unit
  BY DEF TypeInv
<1>9. CASE phase = "size"
  <2>1. Len(buffer) = SizeOf(Unit)
    <3>1. Len(buffer) = From + LayoutOf(Unit)[At] /\ From = 0
      BY <1>1, <1>9 DEF LayoutInv, Into, From
    <3>. QED BY <1>7, <3>1
  <2>2. measured' = Laid(module.functions, module.slots, unit) + SizeOf(Units[unit + 1])
    BY <1>2, <1>7, <1>9, <2>1 DEF LayoutInv
  <2>3. Laid(module.functions, module.slots, unit + 1) = measured'
    <3>1. Laid(module.functions, module.slots, unit + 1)
            = Laid(module.functions, module.slots, (unit + 1) - 1) + SizeOf(Units[unit + 1])
      BY <1>1, <1>9, TotalFacts
    <3>. QED BY <1>8, <2>2, <3>1
  <2>4. measured' = Laid(module.functions, module.slots, unit)'
    BY <1>1, <1>2, <2>3
  <2>5. Len(buffer') = From' + Into'
    <3>1. Len(<<>>) = 0 + 0
      OBVIOUS
    <3>. QED BY <1>1, <1>2, <1>5, <1>9, <3>1 DEF From
  <2>. QED BY <1>2, <1>6, <1>9, <2>4, <2>5 DEF LayoutInv
<1>10. CASE phase # "size"
  <2>1. measured' = Total'
    BY <1>2, <1>3, <1>10 DEF LayoutInv
  <2>2. From' = From + SizeOf(Unit)
    <3>1. Laid(module.slots, module.functions, unit + 1)
            = Laid(module.slots, module.functions, (unit + 1) - 1) + SizeOf(Units[unit + 1])
      BY <1>1, <1>10, TotalFacts
    <3>2. From' = Laid(module.slots, module.functions, unit + 1)
      BY <1>1, <1>2, <1>10 DEF From
    <3>3. From = Laid(module.slots, module.functions, unit)
      BY <1>10 DEF From
    <3>. QED BY <1>7, <1>8, <3>1, <3>2, <3>3
  <2>3. ASSUME StringsAligned PROVE Len(buffer') = From' + Into'
    <3>1. Len(buffer') = From + SizeOf(Unit)
      BY <1>1, <1>7, <1>10, <2>3 DEF LayoutInv, Into
    <3>2. From' \in Nat
      <4>1. (TypeInv => From \in Nat)'
        BY TotalFacts, PTL
      <4>. QED BY <1>4, <4>1
    <3>3. Len(buffer') = From'
      BY <2>2, <3>1
    <3>4. \A x \in Nat : x = x + 0
      OBVIOUS
    <3>. QED BY <1>5, <3>2, <3>3, <3>4, Zenon
  <2>. QED BY <1>2, <1>3, <1>6, <1>10, <2>1, <2>3 DEF LayoutInv
<1>. QED BY <1>9, <1>10

\* Every step keeps it.
LEMMA LayoutStep == TypeInv /\ LayoutInv /\ [Next]_vars => LayoutInv'
<1> SUFFICES ASSUME TypeInv, LayoutInv, [Next]_vars PROVE LayoutInv'
  OBVIOUS
<1>1. CASE Emitting
  BY <1>1, LayoutEmitting
<1>2. CASE FinishUnit
  BY <1>2, LayoutFinishUnit
<1>3. CASE StartEmission
  <2>1. /\ phase' = "emit" /\ unit' = 0 /\ phase = "size" /\ unit = Len(Units)
        /\ UNCHANGED <<module, buffer, offsets, gaps, relocs, chunks, measured>>
    BY <1>3 DEF StartEmission
  <2>2. ~UnitOpen /\ offsets = <<>>
    <3>1. Len(Units) \in Nat
      BY UnitsFacts DEF TypeInv, AreUnits
    <3>2. ~UnitOpen
      BY <2>1, <3>1 DEF UnitOpen
    <3>. QED BY <3>2 DEF TypeInv
  <2>3. measured = Total /\ Len(buffer) = 0
    <3>1. measured = Laid(module.functions, module.slots, Len(Units)) /\ Len(buffer) = From + Into /\ From = 0 /\ Into = 0
      BY <2>1, <2>2 DEF LayoutInv, From, Into
    <3>2. Laid(module.functions, module.slots, Len(Units)) = Total
      BY TotalFacts
    <3>. QED BY <3>1, <3>2
  <2>4. measured' = Total'
    BY <2>1, <2>3 DEF Total
  <2>5. From' = 0
    <3>1. From' = Laid(module.slots, module.functions, 0)
      BY <2>1 DEF From
    <3>. QED BY <3>1, TotalFacts
  <2>6. TypeInv'
    BY TypeStep
  <2>7. At' = 0 /\ \A j \in 1 .. At' : FALSE
    <3>1. At' = 0
      BY <2>1, <2>2 DEF At
    <3>. QED BY <3>1
  <2>8. Into' = 0
    <3>1. CASE UnitOpen'
      <4>1. (TypeInv /\ UnitOpen => IsUnit(Unit))'
        BY Kinds, PTL
      <4>2. LayoutOf(Unit')[0] = 0
        BY <2>6, <3>1, <4>1, LayoutFacts DEF IsLayout
      <4>. QED BY <2>7, <3>1, <4>2 DEF Into
    <3>2. CASE ~UnitOpen'
      BY <3>2 DEF Into
    <3>. QED BY <3>1, <3>2
  <2>9. Len(buffer') = From' + Into'
    BY <2>1, <2>3, <2>5, <2>8
  <2>. QED BY <2>1, <2>4, <2>7, <2>9 DEF LayoutInv
<1>4. CASE StartRelocation \/ Finish
  <2>1. /\ phase' \in {"relocate", "done"} /\ phase \in {"emit", "relocate"} /\ unit = Len(Units)
        /\ UNCHANGED <<module, unit, buffer, offsets, gaps, relocs, chunks, measured>>
    BY <1>4 DEF StartRelocation, Finish, TypeInv
  <2>2. Units' = Units /\ Len(Units) \in Nat
    BY <2>1, UnitsFacts DEF Units, TypeInv, AreUnits
  <2>3. ~UnitOpen /\ ~UnitOpen'
    BY <2>1, <2>2 DEF UnitOpen
  <2>4. From' = From /\ Into' = Into /\ Total' = Total /\ (StringsAligned' <=> StringsAligned)
    BY <2>1, <2>3 DEF From, Into, Total, StringsAligned
  <2>. QED BY <2>1, <2>3, <2>4 DEF LayoutInv
<1>5. CASE Relocate
  <2>1. UNCHANGED <<module, phase, unit, offsets, gaps, chunks, measured>> /\ phase = "relocate"
    BY <1>5 DEF Relocate
  <2>2. ~UnitOpen /\ ~UnitOpen'
    BY <2>1 DEF UnitOpen
  <2>3. From' = From /\ Into' = Into /\ Total' = Total /\ (StringsAligned' <=> StringsAligned)
    BY <2>1, <2>2 DEF From, Into, Total, StringsAligned
  <2>4. Len(buffer') = Len(buffer)
    BY <1>5, RelocateFacts
  <2>. QED BY <2>1, <2>2, <2>3, <2>4 DEF LayoutInv
<1>6. CASE UNCHANGED vars
  <2>1. /\ UNCHANGED <<module, phase, unit, buffer, offsets, gaps, relocs, chunks, measured>>
    BY <1>6 DEF vars
  <2>2. Units' = Units
    BY <2>1 DEF Units
  <2>3. Unit' = Unit /\ At' = At /\ (UnitOpen' <=> UnitOpen)
    BY <2>1, <2>2 DEF Unit, At, UnitOpen
  <2>4. From' = From /\ Into' = Into /\ Total' = Total /\ (StringsAligned' <=> StringsAligned)
    BY <2>1, <2>3 DEF From, Into, Total, StringsAligned
  <2>. QED BY <2>1, <2>3, <2>4 DEF LayoutInv
<1>. QED BY <1>1, <1>2, <1>3, <1>4, <1>5, <1>6, Steps

\* And so the buffer never outgrows what was measured.
LEMMA LayoutFits == TypeInv /\ LayoutInv /\ StringsAligned => FitsMeasured
<1> SUFFICES ASSUME TypeInv, LayoutInv, StringsAligned PROVE FitsMeasured
  OBVIOUS
<1>1. CASE phase = "size"
  BY <1>1 DEF FitsMeasured, Loaded
<1>2. CASE phase # "size"
  <2>1. measured = Total /\ Len(buffer) = From + Into /\ From = Laid(module.slots, module.functions, unit)
    BY <1>2 DEF LayoutInv, From
  <2>2. Total \in Nat /\ From \in Nat /\ From <= Total /\ Len(Units) \in Nat
    BY <2>1, TotalFacts, UnitsFacts DEF TypeInv, AreUnits
  <2>3. CASE UnitOpen
    <3>1. /\ At \in 0 .. Len(Unit.items) /\ LayoutOf(Unit)[At] \in Nat /\ LayoutOf(Unit)[At] <= SizeOf(Unit)
          /\ SizeOf(Unit) \in Nat /\ unit + 1 \in 1 .. Len(Units)
      <4>1. IsUnit(Unit) /\ At \in 0 .. Len(Unit.items) /\ unit + 1 \in 1 .. Len(Units)
        BY <2>3, Kinds DEF TypeInv
      <4>. QED BY <4>1, LayoutFacts
    <3>2. Laid(module.slots, module.functions, unit + 1) = From + SizeOf(Unit)
      <4>1. (unit + 1) - 1 = unit
        BY DEF TypeInv
      <4>2. Laid(module.slots, module.functions, unit + 1)
              = Laid(module.slots, module.functions, (unit + 1) - 1) + SizeOf(Units[unit + 1])
        BY <1>2, <3>1, TotalFacts
      <4>. QED BY <2>1, <4>1, <4>2 DEF Unit
    <3>3. From + SizeOf(Unit) <= Total
      <4>1. unit + 1 \in 0 .. Len(Units)
        BY <3>1
      <4>. QED BY <3>2, <4>1, TotalFacts
    <3>4. Into = LayoutOf(Unit)[At] /\ ~Loaded
      BY <2>3 DEF Into, UnitOpen, Loaded
    <3>5. Len(buffer) <= measured
      BY <2>1, <2>2, <3>1, <3>3, <3>4
    <3>. QED BY <3>4, <3>5 DEF FitsMeasured
  <2>4. CASE ~UnitOpen
    <3>1. unit = Len(Units)
      BY <1>2, <2>2, <2>4 DEF TypeInv, UnitOpen
    <3>2. From = Total /\ Into = 0
      BY <2>1, <2>4, <3>1, TotalFacts DEF Into
    <3>3. Len(buffer) = measured /\ measured \in Nat
      BY <2>1, <2>2, <3>2
    <3>. QED BY <3>3 DEF FitsMeasured
  <2>. QED BY <2>3, <2>4
<1>. QED BY <1>1, <1>2

(* In every module whose strings start at whole words the dry run, which *)
(* measures each unit from position 0 and functions before slots, finds  *)
(* the size of what is emitted, slots first and one after another: no    *)
(* byte is written past the mapping.                                     *)
THEOREM SizesFit == Spec => [](StringsAligned => FitsMeasured)
<1>1. Spec => [](TypeInv /\ LayoutInv)
  BY TypeInit, LayoutInit, TypeStep, LayoutStep, PTL DEF Spec
<1>. QED BY <1>1, LayoutFits, PTL

\* What is read of an opcode whose operand is a distance.
LEMMA DecodeRelative ==
  ASSUME NEW code, NEW p \in Int, NEW d, d.form = "D",
         P!At(code, p) \notin {\h66, \hF2, \hF3}, P!At(code, p) \notin \h40 .. \h4F,
         IF P!At(code, p) = \h0F THEN \A prefix, wide : P!TwoByteForm(P!At(code, p + 1), prefix, wide) = d
         ELSE \A digit, wide : P!OneByteForm(P!At(code, p), digit, wide) = d
  PROVE  P!Decode(code, p).instruction.dst.disp
           = P!SignedField(code, IF P!At(code, p) = \h0F THEN p + 2 ELSE p + 1, d.imm)
<1> DEFINE e == IF P!At(code, p) = \h0F THEN p + 2 ELSE p + 1
<1>1. P!Decode(code, p) = P!Opcode(code, p, 0, 0, p)
  BY DEF P!Decode
<1>2. P!Opcode(code, p, 0, 0, p) = P!Operands(code, p, 0, d, p, e)
  BY DEF P!Opcode
<1> HIDE DEF e
<1>3. P!Operands(code, p, 0, d, p, e).instruction.dst.disp = P!SignedField(code, e, d.imm)
  <2> DEFINE modrm == P!At(code, e)
             reg == P!RegisterOperand(d.reg, ((modrm \div 8) % 8) + 8 * ((0 \div 4) % 2), d.size, 0)
             rm  == IF modrm >= 192
                    THEN P!RegisterOperand(d.rm, (modrm % 8) + 8 * (0 % 2),
                                           IF d.op \in {"movzx", "movsx"} THEN d.arg ELSE d.size, 0)
                    ELSE P!MemoryOperand(code, e, (0 \div 2) % 2, 0 % 2).operand
             imm == [k |-> "imm", v |-> P!SignedField(code, e, d.imm)]
             low == P!RegisterOperand("gp", (P!At(code, p) % 8) + 8 * (0 % 2), d.size, 0)
  <2>1. P!Operands(code, p, 0, d, p, e).instruction.dst = P!Destination(d.form, reg, rm, low, imm)
    BY DEF P!Operands
  <2>2. imm.v = P!SignedField(code, e, d.imm)
    OBVIOUS
  <2> HIDE DEF modrm, reg, rm, imm, low
  <2>3. P!Destination(d.form, reg, rm, low, imm) = P!Rip(imm.v)
    BY DEF P!Destination
  <2>4. P!Rip(imm.v).disp = imm.v
    BY DEF P!Rip
  <2>. QED BY <2>1, <2>2, <2>3, <2>4
<1>4. P!Decode(code, p).instruction.dst.disp = P!SignedField(code, e, d.imm)
  BY <1>1, <1>2, <1>3
<1>. QED BY <1>4 DEF e

\* The same after one byte.
LEMMA DecodeOne ==
  ASSUME NEW code, NEW p \in Int, NEW h \in Nat, P!At(code, p) = h,
         h # \h66, h # \hF2, h # \hF3, h < \h40 \/ h > \h4F, h # \h0F,
         NEW d, d.form = "D", \A digit, wide : P!OneByteForm(h, digit, wide) = d
  PROVE  P!Decode(code, p).instruction.dst.disp = P!SignedField(code, p + 1, d.imm)
<1>1. h \notin {\h66, \hF2, \hF3} /\ h \notin \h40 .. \h4F
  OBVIOUS
<1>. QED BY <1>1, DecodeRelative, Zenon

\* The same after two.
LEMMA DecodeTwo ==
  ASSUME NEW code, NEW p \in Int, NEW h, P!At(code, p) = \h0F, P!At(code, p + 1) = h,
         NEW d, d.form = "D", \A prefix, wide : P!TwoByteForm(h, prefix, wide) = d
  PROVE  P!Decode(code, p).instruction.dst.disp = P!SignedField(code, p + 2, d.imm)
<1>1. P!At(code, p) \notin {\h66, \hF2, \hF3} /\ P!At(code, p) \notin \h40 .. \h4F
  OBVIOUS
<1>2. P!Decode(code, p).instruction.dst.disp
        = P!SignedField(code, IF P!At(code, p) = \h0F THEN p + 2 ELSE p + 1, d.imm)
  BY <1>1, DecodeRelative
<1>. QED BY <1>2

\* The opcodes of conditional jumps.
LEMMA JccForms ==
  ASSUME NEW c \in 0 .. 15
  PROVE  /\ \A digit, wide : P!OneByteForm(\h70 + c, digit, wide) = P!Conditional("jcc", "D", 8, 1, c)
         /\ \A prefix, wide : P!TwoByteForm(\h80 + c, prefix, wide) = P!Conditional("jcc", "D", 8, 4, c)
<1>1. ASSUME NEW digit, NEW wide
      PROVE  P!OneByteForm(\h70 + c, digit, wide) = P!Conditional("jcc", "D", 8, 1, \h70 + c - \h70)
  BY SMTT(60) DEF P!OneByteForm
<1>2. ASSUME NEW prefix, NEW wide
      PROVE  P!TwoByteForm(\h80 + c, prefix, wide) = P!Conditional("jcc", "D", 8, 4, \h80 + c - \h80)
  BY SMTT(60) DEF P!TwoByteForm
<1>3. \h70 + c - \h70 = c /\ \h80 + c - \h80 = c
  OBVIOUS
<1>. QED BY <1>1, <1>2, <1>3

\* A distance of one byte is read back.
LEMMA ReadsShort ==
  ASSUME NEW code, NEW p \in Int, NEW v \in Int, -128 <= v, v <= 127, P!At(code, p) = v % 256
  PROVE  P!SignedField(code, p, 1) = v
<1>1. p + 0 = p
  OBVIOUS
<1>. QED BY <1>1 DEF P!SignedField

\* The greatest number four bytes hold.
Far == 2147483647

\* A distance of four bytes is read back.
LEMMA ReadsLong ==
  ASSUME NEW code, NEW p \in Int, NEW v \in Int, -Far - 1 <= v, v <= Far,
         \A k \in 1 .. 4 : P!At(code, p + k - 1) = LittleEndian(v, 4)[k]
  PROVE  P!SignedField(code, p, 4) = v
<1>1. /\ P!At(code, p + 0) = v % 256 /\ P!At(code, p + 1) = (v \div 256) % 256
      /\ P!At(code, p + 2) = (v \div 65536) % 256 /\ P!At(code, p + 3) = (v \div 16777216) % 256
  <2>1. /\ LittleEndian(v, 4)[1] = v % 256 /\ LittleEndian(v, 4)[2] = (v \div 256) % 256
        /\ LittleEndian(v, 4)[3] = (v \div 65536) % 256 /\ LittleEndian(v, 4)[4] = (v \div 16777216) % 256
    BY SMTT(30) DEF LittleEndian
  <2>2. p + 1 - 1 = p + 0 /\ p + 2 - 1 = p + 1 /\ p + 3 - 1 = p + 2 /\ p + 4 - 1 = p + 3
    OBVIOUS
  <2>. QED BY <2>1, <2>2, SMTT(30)
<1>2. ASSUME NEW b0, NEW b1, NEW b2, NEW b3, b0 = v % 256, b1 = (v \div 256) % 256,
             b2 = (v \div 65536) % 256, b3 = (v \div 16777216) % 256
      PROVE  v = 16777216 * (IF b3 >= 128 THEN b3 - 256 ELSE b3) + 65536 * b2 + 256 * b1 + b0
  BY <1>2, SMTT(30) DEF Far
<1> DEFINE b(k) == P!At(code, p + k)
           top(k) == IF b(k) >= 128 THEN b(k) - 256 ELSE b(k)
<1>3. P!SignedField(code, p, 4) = 16777216 * top(3) + 65536 * b(2) + 256 * b(1) + b(0)
  BY SMTT(30) DEF P!SignedField
<1>. QED BY <1>1, <1>2, <1>3, SMTT(30)

\* A jump, with or without condition.
IsAJump(i) == i.op \in {"jmp", "jcc"} /\ i.arg \in 0 .. 15

\* The bytes after s up to e begin as a jump with a 4-byte field; the field holds v; or they are a short jump.
Opened(b, i, s, e) ==
  IF i.op = "jmp" THEN e = s + 5 /\ b[s + 1] = \hE9
  ELSE e = s + 6 /\ b[s + 1] = \h0F /\ b[s + 2] = \h80 + i.arg

\* The field of a long jump holds v.
LongJump(b, i, s, e, v) == Opened(b, i, s, e) /\ \A k \in 1 .. 4 : b[e - 4 + k] = LittleEndian(v, 4)[k]

\* The bytes are those of a short jump over v bytes.
ShortJump(b, i, s, e, v) ==
  /\ e = s + 2 /\ b[s + 1] = (IF i.op = "jmp" THEN \hEB ELSE \h70 + i.arg)
  /\ b[s + 2] = LittleEndian(v, 1)[1]

\* The bytes from s to e are those of the jump i to t, in either form.
JumpDone(b, i, s, e, t) ==
  \/ InByte(t - s) /\ ShortJump(b, i, s, e, t - s - 2)
  \/ LongJump(b, i, s, e, t - e)

\* A short jump is read back with its distance.
LEMMA ShortJumpReads ==
  ASSUME NEW b, Len(b) \in Nat, NEW i, IsAJump(i), NEW s \in Nat, NEW e \in Nat, e <= Len(b),
         NEW v \in Int, -128 <= v, v <= 127, ShortJump(b, i, s, e, v)
  PROVE  P!Decode(b, s + 1).instruction.dst.disp = v
<1> DEFINE p == s + 1
<1>1. e = s + 2 /\ p \in 1 .. Len(b) /\ p + 1 = s + 2 /\ s + 2 \in 1 .. Len(b)
  BY DEF ShortJump
<1>2. P!At(b, p) = b[s + 1] /\ P!At(b, s + 2) = b[s + 2]
  BY <1>1 DEF P!At
<1> HIDE DEF p
<1>3. b[s + 2] = v % 256
  BY DEF ShortJump, LittleEndian
<1>4. P!SignedField(b, p + 1, 1) = v
  BY <1>1, <1>2, <1>3, ReadsShort
<1>5. CASE i.op = "jmp"
  <2> DEFINE d == P!Form("jmp", "D", 8, 1)
             h == \hEB
  <2>1. \A digit, wide : P!OneByteForm(h, digit, wide) = d
    BY DEF P!OneByteForm
  <2>2. d.form = "D" /\ d.imm = 1
    BY DEF P!Form
  <2>3. P!At(b, p) = h
    BY <1>2, <1>5 DEF ShortJump
  <2>4. h \in Nat /\ h # \h66 /\ h # \hF2 /\ h # \hF3 /\ (h < \h40 \/ h > \h4F) /\ h # \h0F
    OBVIOUS
  <2> HIDE DEF d, h
  <2>5. p \in Int
    BY <1>1
  <2>6. P!Decode(b, p).instruction.dst.disp = P!SignedField(b, p + 1, d.imm)
    BY <2>1, <2>2, <2>3, <2>4, <2>5, DecodeOne
  <2>. QED BY <1>4, <2>2, <2>6 DEF p
<1>6. CASE i.op = "jcc"
  <2> DEFINE d == P!Conditional("jcc", "D", 8, 1, i.arg)
             h == \h70 + i.arg
  <2>1. i.arg \in 0 .. 15
    BY DEF IsAJump
  <2>2. \A digit, wide : P!OneByteForm(h, digit, wide) = d
    BY <2>1, JccForms
  <2>3. d.form = "D" /\ d.imm = 1
    BY DEF P!Conditional, P!Form
  <2>4. P!At(b, p) = h
    BY <1>2, <1>6 DEF ShortJump
  <2>5. h \in Nat /\ h # \h66 /\ h # \hF2 /\ h # \hF3 /\ (h < \h40 \/ h > \h4F) /\ h # \h0F
    <3>1. PICK c \in 0 .. 15 : i.arg = c
      BY <2>1
    <3>2. h = \h70 + c
      BY <3>1
    <3> HIDE DEF h
    <3>. QED BY <3>2
  <2> HIDE DEF d, h
  <2>6. p \in Int
    BY <1>1
  <2>7. P!Decode(b, p).instruction.dst.disp = P!SignedField(b, p + 1, d.imm)
    BY <2>2, <2>3, <2>4, <2>5, <2>6, DecodeOne
  <2>. QED BY <1>4, <2>3, <2>7 DEF p
<1>. QED BY <1>5, <1>6 DEF IsAJump

\* So is a long one.
LEMMA LongJumpReads ==
  ASSUME NEW b, Len(b) \in Nat, NEW i, IsAJump(i), NEW s \in Nat, NEW e \in Nat, e <= Len(b),
         NEW v \in Int, -Far - 1 <= v, v <= Far, LongJump(b, i, s, e, v)
  PROVE  P!Decode(b, s + 1).instruction.dst.disp = v
<1> DEFINE p == s + 1
<1>1. p \in 1 .. Len(b) /\ p + 1 = s + 2 /\ s + 2 \in 1 .. Len(b) /\ (e = s + 5 \/ e = s + 6)
  BY DEF LongJump, Opened
<1>2. P!At(b, p) = b[s + 1] /\ P!At(b, p + 1) = b[s + 2]
  BY <1>1 DEF P!At
<1> HIDE DEF p
<1>3. P!SignedField(b, e - 3, 4) = v
  <2>1. \A k \in 1 .. 4 : P!At(b, (e - 3) + k - 1) = LittleEndian(v, 4)[k]
    <3> SUFFICES ASSUME NEW k \in 1 .. 4 PROVE P!At(b, (e - 3) + k - 1) = LittleEndian(v, 4)[k]
      OBVIOUS
    <3>1. b[e - 4 + k] = LittleEndian(v, 4)[k]
      BY DEF LongJump
    <3>2. e - 4 + k \in 1 .. Len(b) /\ (e - 3) + k - 1 = e - 4 + k
      BY <1>1
    <3>3. P!At(b, e - 4 + k) = b[e - 4 + k]
      BY <3>2 DEF P!At
    <3>. QED BY <3>1, <3>2, <3>3
  <2>2. e - 3 \in Int
    OBVIOUS
  <2>. QED BY <2>1, <2>2, ReadsLong, SMT
<1>4. CASE i.op = "jmp"
  <2> DEFINE d == P!Form("jmp", "D", 8, 4)
             h == \hE9
  <2>1. \A digit, wide : P!OneByteForm(h, digit, wide) = d
    BY DEF P!OneByteForm
  <2>2. d.form = "D" /\ d.imm = 4
    BY DEF P!Form
  <2>3. P!At(b, p) = h
    BY <1>2, <1>4 DEF LongJump, Opened
  <2>4. h \in Nat /\ h # \h66 /\ h # \hF2 /\ h # \hF3 /\ (h < \h40 \/ h > \h4F) /\ h # \h0F
    OBVIOUS
  <2> HIDE DEF d, h
  <2>5. p \in Int /\ p + 1 = e - 3
    BY <1>1, <1>4 DEF LongJump, Opened
  <2>6. P!Decode(b, p).instruction.dst.disp = P!SignedField(b, p + 1, d.imm)
    BY <2>1, <2>2, <2>3, <2>4, <2>5, DecodeOne
  <2>. QED BY <1>3, <2>2, <2>5, <2>6 DEF p
<1>5. CASE i.op = "jcc"
  <2> DEFINE d == P!Conditional("jcc", "D", 8, 4, i.arg)
             h == \h80 + i.arg
  <2>1. i.arg \in 0 .. 15
    BY DEF IsAJump
  <2>2. \A prefix, wide : P!TwoByteForm(h, prefix, wide) = d
    BY <2>1, JccForms
  <2>3. d.form = "D" /\ d.imm = 4
    BY DEF P!Conditional, P!Form
  <2>4. P!At(b, p) = \h0F /\ P!At(b, p + 1) = h
    BY <1>2, <1>5 DEF LongJump, Opened
  <2> HIDE DEF d, h
  <2>5. p \in Int /\ p + 2 = e - 3
    BY <1>1, <1>5 DEF LongJump, Opened
  <2>6. P!Decode(b, p).instruction.dst.disp = P!SignedField(b, p + 2, d.imm)
    BY <2>2, <2>3, <2>4, <2>5, DecodeTwo
  <2>. QED BY <1>3, <2>3, <2>5, <2>6 DEF p
<1>. QED BY <1>4, <1>5 DEF IsAJump

\* A jump to t leads to t: but for the two distances the short form has no room for.
LEMMA JumpReads ==
  ASSUME NEW b, Len(b) \in Nat, Len(b) <= Far, NEW i, IsAJump(i), NEW s \in Nat, NEW e \in Nat, e <= Len(b),
         NEW t \in Nat, t <= Len(b), t - s \notin {-127, -128}, JumpDone(b, i, s, e, t)
  PROVE  e + P!Decode(b, s + 1).instruction.dst.disp = t
<1>1. CASE InByte(t - s) /\ ShortJump(b, i, s, e, t - s - 2)
  <2>1. t - s - 2 \in Int /\ -128 <= t - s - 2 /\ t - s - 2 <= 127 /\ e = s + 2
    BY <1>1 DEF InByte, ShortJump
  <2>2. P!Decode(b, s + 1).instruction.dst.disp = t - s - 2
    BY <1>1, <2>1, ShortJumpReads
  <2>. QED BY <2>1, <2>2
<1>2. CASE LongJump(b, i, s, e, t - e)
  <2>0. Far \in Nat
    BY SMT DEF Far
  <2>1. t - e \in Int /\ -Far - 1 <= t - e /\ t - e <= Far
    BY <2>0
  <2>2. P!Decode(b, s + 1).instruction.dst.disp = t - e
    BY <1>2, <2>1, LongJumpReads, SMT
  <2>. QED BY <2>2
<1>. QED BY <1>1, <1>2 DEF JumpDone

\* A byte, or two, before others.
LEMMA Headed ==
  ASSUME NEW f, IsSequence(f), NEW a, NEW b, NEW x
  PROVE  /\ x = <<a>> \o f => Len(x) = 1 + Len(f) /\ x[1] = a /\ \A k \in 1 .. Len(f) : x[k + 1] = f[k]
         /\ x = <<a, b>> \o f => /\ Len(x) = 2 + Len(f) /\ x[1] = a /\ x[2] = b
                                 /\ \A k \in 1 .. Len(f) : x[k + 2] = f[k]
<1>1. ASSUME NEW h, IsSequence(h), x = h \o f
      PROVE  /\ Len(x) = Len(h) + Len(f) /\ \A k \in 1 .. Len(h) : x[k] = h[k]
             /\ \A k \in 1 .. Len(f) : x[Len(h) + k] = f[k]
  BY <1>1, BytesJoined
<1>2. Len(f) \in Nat
  BY DEF IsSequence
<1>3. ASSUME x = <<a>> \o f
      PROVE  Len(x) = 1 + Len(f) /\ x[1] = a /\ \A k \in 1 .. Len(f) : x[k + 1] = f[k]
  <2> DEFINE h == <<a>>
  <2>1. IsSequence(h) /\ Len(h) = 1 /\ h[1] = a
    BY DEF IsSequence, Range
  <2>2. x = h \o f
    BY <1>3
  <2> HIDE DEF h
  <2>3. Len(x) = Len(h) + Len(f) /\ (\A k \in 1 .. Len(h) : x[k] = h[k]) /\ \A k \in 1 .. Len(f) : x[Len(h) + k] = f[k]
    BY <1>1, <2>1, <2>2
  <2>4. \A k \in 1 .. Len(f) : 1 + k = k + 1
    BY <1>2
  <2>. QED BY <2>1, <2>3, <2>4
<1>4. ASSUME x = <<a, b>> \o f
      PROVE  Len(x) = 2 + Len(f) /\ x[1] = a /\ x[2] = b /\ \A k \in 1 .. Len(f) : x[k + 2] = f[k]
  <2> DEFINE h == <<a, b>>
  <2>1. IsSequence(h) /\ Len(h) = 2 /\ h[1] = a /\ h[2] = b
    <3>1. h \in Seq({a, b})
      OBVIOUS
    <3>2. Len(h) = 2 /\ h[1] = a /\ h[2] = b
      OBVIOUS
    <3>. QED BY <3>1, <3>2, BytesAre
  <2>2. x = h \o f
    BY <1>4
  <2> HIDE DEF h
  <2>3. Len(x) = Len(h) + Len(f) /\ (\A k \in 1 .. Len(h) : x[k] = h[k]) /\ \A k \in 1 .. Len(f) : x[Len(h) + k] = f[k]
    BY <1>1, <2>1, <2>2
  <2>4. \A k \in 1 .. Len(f) : 2 + k = k + 2
    BY <1>2
  <2>. QED BY <2>1, <2>3, <2>4
<1>. QED BY <1>3, <1>4

\* The bytes of a jump that has just been emitted.
LEMMA JumpEmitted ==
  ASSUME NEW b, NEW i, IsAJump(i), NEW s \in Nat, NEW e, NEW behind \in BOOLEAN, NEW t, behind => t \in Int,
         e = s + Len(JumpBytes(i, behind, t - s)),
         \A j \in 1 .. Len(JumpBytes(i, behind, t - s)) : b[s + j] = JumpBytes(i, behind, t - s)[j]
  PROVE  IF behind THEN JumpDone(b, i, s, e, t) ELSE Opened(b, i, s, e)
<1> DEFINE d == t - s
           x == JumpBytes(i, behind, d)
<1>0. e = s + Len(x) /\ \A j \in 1 .. Len(x) : b[s + j] = x[j]
  OBVIOUS
<1> HIDE DEF d, x
<1>1. CASE ~behind
  <2>1. CASE i.op = "jmp"
    <3>1. x = <<\hE9, \hFF, \hFF, \hFF, \h7F>>
      BY <1>1, <2>1 DEF JumpBytes, UnresolvedJmp, x
    <3>2. Len(x) = 5 /\ x[1] = \hE9
      BY <3>1
    <3>3. e = s + 5 /\ b[s + 1] = \hE9
      BY <1>0, <3>2
    <3>. QED BY <1>1, <2>1, <3>3 DEF Opened
  <2>2. CASE i.op = "jcc"
    <3>1. x = <<\h0F, \h80 + i.arg, \hFF, \hFF, \hFF, \h7F>>
      BY <1>1, <2>2 DEF JumpBytes, UnresolvedJcc, x
    <3>2. Len(x) = 6 /\ x[1] = \h0F /\ x[2] = \h80 + i.arg
      BY <3>1
    <3>3. e = s + 6 /\ b[s + 1] = \h0F /\ b[s + 2] = \h80 + i.arg
      BY <1>0, <3>2
    <3>. QED BY <1>1, <2>2, <3>3 DEF Opened
  <2>. QED BY <2>1, <2>2 DEF IsAJump
<1>2. CASE behind
  <2>1. t \in Int /\ d \in Int
    BY <1>2 DEF d
  <2>2. \A v, w : w \in {1, 4} => Len(LittleEndian(v, w)) = w
    BY DEF LittleEndian
  <2>3. \A v \in Int : LittleEndian(v, 1) \in Seq(Int) /\ LittleEndian(v, 4) \in Seq(Int)
    BY LittleEndianTyped
  <2>4. CASE InByte(d)
    <3> DEFINE h == IF i.op = "jmp" THEN \hEB ELSE \h70 + i.arg
               f == LittleEndian(d - 2, 1)
    <3>1. x = <<h>> \o f
      BY <1>2, <2>4 DEF JumpBytes, Jmp, Jcc, IsAJump, x
    <3> HIDE DEF h
    <3>2. f \in Seq(Int) /\ Len(f) = 1
      <4>1. d - 2 \in Int
        BY <2>1
      <4>. QED BY <2>2, <2>3, <4>1
    <3>3. f = LittleEndian(t - s - 2, 1)
      BY DEF d
    <3> HIDE DEF f
    <3>4. Len(x) = 2 /\ x[1] = h /\ x[2] = f[1]
      <4>1. IsSequence(f)
        BY <3>2, BytesAre
      <4>2. Len(x) = 1 + Len(f) /\ x[1] = h /\ \A k \in 1 .. Len(f) : x[k + 1] = f[k]
        BY <3>1, <4>1, Headed
      <4>. QED BY <3>2, <4>2
    <3>5. ShortJump(b, i, s, e, t - s - 2)
      BY <1>0, <3>3, <3>4 DEF ShortJump, h
    <3>. QED BY <1>2, <2>4, <3>5 DEF JumpDone, d
  <2>5. CASE ~InByte(d)
    <3>1. CASE i.op = "jmp"
      <4> DEFINE f == LittleEndian(d - 5, 4)
      <4>1. x = <<\hE9>> \o f
        BY <1>2, <2>5, <3>1 DEF JumpBytes, Jmp, x
      <4>2. f \in Seq(Int) /\ Len(f) = 4
        <5>1. d - 5 \in Int
          BY <2>1
        <5>. QED BY <2>2, <2>3, <5>1
      <4> HIDE DEF f
      <4>3. Len(x) = 5 /\ x[1] = \hE9 /\ \A k \in 1 .. 4 : x[k + 1] = f[k]
        <5>1. IsSequence(f)
          BY <4>2, BytesAre
        <5>2. Len(x) = 1 + Len(f) /\ x[1] = \hE9 /\ \A k \in 1 .. Len(f) : x[k + 1] = f[k]
          BY <4>1, <5>1, Headed
        <5>. QED BY <4>2, <5>2
      <4>4. e = s + 5 /\ b[s + 1] = \hE9
        BY <1>0, <4>3
      <4>5. d - 5 = t - e
        BY <2>1, <4>4 DEF d
      <4>6. \A k \in 1 .. 4 : b[e - 4 + k] = f[k]
        <5>1. \A k \in 1 .. 4 : k + 1 \in 1 .. Len(x) /\ s + (k + 1) = e - 4 + k
          BY <4>3, <4>4
        <5>. QED BY <1>0, <4>3, <5>1
      <4>7. LongJump(b, i, s, e, t - e)
        BY <3>1, <4>4, <4>5, <4>6 DEF LongJump, Opened, f
      <4>. QED BY <1>2, <4>7 DEF JumpDone
    <3>2. CASE i.op = "jcc"
      <4> DEFINE f == LittleEndian(d - 6, 4)
                 c == \h80 + i.arg
      <4>1. x = <<\h0F, c>> \o f
        BY <1>2, <2>5, <3>2 DEF JumpBytes, Jcc, x
      <4>2. f \in Seq(Int) /\ Len(f) = 4
        <5>1. d - 6 \in Int
          BY <2>1
        <5>. QED BY <2>2, <2>3, <5>1
      <4> HIDE DEF f, c
      <4>3. Len(x) = 6 /\ x[1] = \h0F /\ x[2] = c /\ \A k \in 1 .. 4 : x[k + 2] = f[k]
        <5>1. IsSequence(f)
          BY <4>2, BytesAre
        <5>2. Len(x) = 2 + Len(f) /\ x[1] = \h0F /\ x[2] = c /\ \A k \in 1 .. Len(f) : x[k + 2] = f[k]
          BY <4>1, <5>1, Headed
        <5>. QED BY <4>2, <5>2
      <4>4. e = s + 6 /\ b[s + 1] = \h0F /\ b[s + 2] = c
        BY <1>0, <4>3
      <4>5. d - 6 = t - e
        BY <2>1, <4>4 DEF d
      <4>6. \A k \in 1 .. 4 : b[e - 4 + k] = f[k]
        <5>1. \A k \in 1 .. 4 : k + 2 \in 1 .. Len(x) /\ s + (k + 2) = e - 4 + k
          BY <4>3, <4>4
        <5>. QED BY <1>0, <4>3, <5>1
      <4>7. LongJump(b, i, s, e, t - e)
        BY <3>2, <4>4, <4>5, <4>6 DEF LongJump, Opened, f, c
      <4>. QED BY <1>2, <4>7 DEF JumpDone
    <3>. QED BY <3>1, <3>2 DEF IsAJump
  <2>. QED BY <2>4, <2>5
<1>. QED BY <1>1, <1>2

\* The units in the order they are emitted.
AllUnits == UnitsOf(module)

\* Of the units emitted so far, the one that is open included: where items start and end.
Offsets(n) == IF n <= unit THEN chunks[AllUnits[n].sym].offsets ELSE offsets
\* The items of a unit that are emitted.
Placed(n)  == 1 .. Len(Offsets(n))
\* Where the unit ends, so far.
EndOfUnit(n)     == IF n <= unit THEN chunks[AllUnits[n].sym].start + chunks[AllUnits[n].sym].size ELSE Len(buffer)
\* Where an item starts.
StartsAt(n, k)   == Offsets(n)[k]
\* Where it ends.
EndsAt(n, k)   == IF k = Len(Offsets(n)) THEN EndOfUnit(n) ELSE Offsets(n)[k + 1]

\* The item.
ItemAt(n, k)     == AllUnits[n].items[k]
\* The index of the item a jump goes to.
Target(n, k) == AllUnits[n].labels[ItemAt(n, k).dst.label] + 1

\* Each unit that is finished has a chunk with the positions of all of its items.
Chunked == \A n \in 1 .. unit : AllUnits[n].sym \in DOMAIN chunks /\ Len(chunks[AllUnits[n].sym].offsets) = Len(AllUnits[n].items)

\* Items are inside of the buffer.
Spread ==
  \A n \in 1 .. unit + 1 : \A k \in Placed(n) :
    StartsAt(n, k) \in Nat /\ EndsAt(n, k) \in Nat /\ StartsAt(n, k) <= EndsAt(n, k) /\ EndsAt(n, k) <= Len(buffer)

\* No two overlap, of one unit or of two.
Apart ==
  \A n, m \in 1 .. unit + 1 : \A k \in Placed(n) : \A j \in Placed(m) :
    n # m \/ k # j => EndsAt(n, k) <= StartsAt(m, j) \/ EndsAt(m, j) <= StartsAt(n, k)

\* A jump forward in the open unit.
Waits(n, k) == n = unit + 1 /\ Target(n, k) > k

\* A jump that waits has its gap; any other has all its bytes, to where its target starts.
JumpsPlaced ==
  \A n \in 1 .. unit + 1 : \A k \in Placed(n) :
    IsJump(ItemAt(n, k)) =>
      IF Waits(n, k)
      THEN Opened(buffer, ItemAt(n, k), StartsAt(n, k), EndsAt(n, k)) /\ <<ItemAt(n, k).dst.label, EndsAt(n, k)>> \in gaps
      ELSE JumpDone(buffer, ItemAt(n, k), StartsAt(n, k), EndsAt(n, k), StartsAt(n, Target(n, k)))

\* Every gap is of a jump that waits.
GapsPlaced ==
  \A g \in gaps : \E k \in 1 .. Len(offsets) :
    /\ IsJump(ItemAt(unit + 1, k)) /\ Target(unit + 1, k) > k
    /\ g = <<ItemAt(unit + 1, k).dst.label, EndsAt(unit + 1, k)>>

\* Every relocation still to be applied lies inside of an item that is no jump.
RelocsPlaced ==
  \A x \in 1 .. Len(relocs) : \E n \in 1 .. unit + 1 : \E k \in Placed(n) :
    /\ ~IsJump(ItemAt(n, k))
    /\ StartsAt(n, k) <= relocs[x].offset /\ relocs[x].offset + WidthOf(relocs[x]) <= EndsAt(n, k)

\* After the dry run: what is where in the buffer.
SpanInv ==
  /\ offsets = <<>> => gaps = {}
  /\ phase = "size" => relocs = <<>>
  /\ phase # "size" => Chunked /\ Spread /\ Apart /\ JumpsPlaced /\ GapsPlaced /\ RelocsPlaced

\* The units of a module, each with a symbol of its own, and their jumps.
LEMMA UnitsPlaced ==
  ASSUME TypeInv
  PROVE  /\ AreUnits(AllUnits) /\ Len(AllUnits) \in Nat
         /\ \A j, k \in 1 .. Len(AllUnits) : j # k => AllUnits[j].sym # AllUnits[k].sym
         /\ phase # "size" => Units = AllUnits
         /\ \A n \in 1 .. Len(AllUnits) : \A k \in 1 .. Len(AllUnits[n].items) :
              IsJump(ItemAt(n, k)) =>
                /\ IsAJump(ItemAt(n, k)) /\ ItemAt(n, k).dst.k = "label" /\ Target(n, k) \in 1 .. Len(AllUnits[n].items)
<1>1. module \in Modules
  BY DEF TypeInv
<1>2. AreUnits(AllUnits) /\ Len(AllUnits) \in Nat
  <2> DEFINE s == module.slots
             f == module.functions
  <2>1. AreUnits(s) /\ AreUnits(f) /\ s \in Seq(Range(s)) /\ f \in Seq(Range(f))
    BY <1>1, UnitsFacts
  <2>2. AllUnits = s \o f
    BY DEF AllUnits, UnitsOf
  <2> HIDE DEF s, f
  <2>3. AreUnits(s \o f)
    BY <2>1, LaidFacts
  <2>. QED BY <2>2, <2>3 DEF AreUnits
<1>3. \A j, k \in 1 .. Len(AllUnits) : j # k => AllUnits[j].sym # AllUnits[k].sym
  <2>1. \A j, k \in DOMAIN AllUnits : j # k => AllUnits[j].sym # AllUnits[k].sym
    BY <1>1, ModulesAssumption DEF ModulesAssumption, AllUnits
  <2>2. DOMAIN AllUnits = 1 .. Len(AllUnits)
    <3>1. AllUnits = module.slots \o module.functions /\ module.slots \in Seq(Range(module.slots))
          /\ module.functions \in Seq(Range(module.functions))
      BY <1>1, UnitFacts DEF AllUnits, UnitsOf
    <3>2. IsSequence(module.slots) /\ IsSequence(module.functions)
      BY <3>1, BytesAre
    <3>3. IsSequence(AllUnits)
      BY <3>1, <3>2, BytesJoined
    <3>. QED BY <3>3, Ranges DEF IsSequence
  <2>. QED BY <2>1, <2>2
<1>4. phase # "size" => Units = AllUnits
  BY DEF Units, AllUnits, UnitsOf
<1>5. ASSUME NEW n \in 1 .. Len(AllUnits), NEW k \in 1 .. Len(AllUnits[n].items), IsJump(ItemAt(n, k))
      PROVE  IsAJump(ItemAt(n, k)) /\ ItemAt(n, k).dst.k = "label" /\ Target(n, k) \in 1 .. Len(AllUnits[n].items)
  <2>1. IsUnit(AllUnits[n])
    BY <1>2 DEF AreUnits
  <2> DEFINE u == AllUnits[n]
             i == u.items[k]
             l == u.labels[i.dst.label]
  <2>2. l \in 0 .. Len(u.items) - 1 /\ i.arg \in 0 .. 15 /\ i.op \in {"jmp", "jcc"} /\ i.dst.k = "label"
    BY <1>5, <2>1 DEF IsUnit, ItemAt
  <2>3. Len(u.items) \in Nat
    BY <2>1, LayoutFacts
  <2> HIDE DEF l
  <2>4. l + 1 \in 1 .. Len(u.items)
    BY <2>2, <2>3
  <2>. QED BY <2>2, <2>4 DEF IsAJump, ItemAt, Target, l
<1>. QED BY <1>2, <1>3, <1>4, <1>5

\* The item that is emitted is where the bytes emitted are, and every other is where it was.
LEMMA EmittingPlaces ==
  ASSUME TypeInv, Emitting
  PROVE  /\ AllUnits' = AllUnits /\ unit' = unit /\ chunks' = chunks /\ phase' = phase
         /\ \A n \in 1 .. unit + 1 : \A k \in Placed(n) :
              k \in Placed(n)' /\ StartsAt(n, k)' = StartsAt(n, k) /\ EndsAt(n, k)' = EndsAt(n, k)
         /\ \A n \in 1 .. unit + 1 : \A k \in Placed(n)' : k \in Placed(n) \/ (n = unit + 1 /\ k = At + 1)
         /\ \A n, a : n = unit + 1 /\ a = At + 1 =>
              a \in Placed(n)' /\ StartsAt(n, a)' = Len(buffer) /\ EndsAt(n, a)' = Len(buffer')
<1>1. UNCHANGED <<module, unit, chunks, phase>>
  BY DEF Emitting, Put
<1>2. /\ offsets' \in Seq(Nat) /\ offsets'[At + 1] = Len(buffer) /\ \A j \in 1 .. At : offsets'[j] = offsets[j]
      /\ At' = At + 1
  BY EmittingFacts
<1>3. Len(offsets) = At /\ Len(offsets') = At + 1 /\ At \in Nat /\ unit \in Nat
  BY <1>2 DEF At, TypeInv
<1>4. AllUnits' = AllUnits
  BY <1>1 DEF AllUnits
<1>5. \A n \in 1 .. unit + 1 : Offsets(n)' = IF n = unit + 1 THEN offsets' ELSE Offsets(n)
  BY <1>1, <1>3, <1>4 DEF Offsets
<1>6. Offsets(unit + 1) = offsets /\ EndOfUnit(unit + 1) = Len(buffer) /\ EndOfUnit(unit + 1)' = Len(buffer')
  BY <1>1, <1>3 DEF Offsets, EndOfUnit
<1>7. \A n \in 1 .. unit : EndOfUnit(n)' = EndOfUnit(n)
  BY <1>1, <1>3, <1>4 DEF EndOfUnit
<1>8. ASSUME NEW n \in 1 .. unit + 1, NEW k \in Placed(n)
      PROVE  k \in Placed(n)' /\ StartsAt(n, k)' = StartsAt(n, k) /\ EndsAt(n, k)' = EndsAt(n, k)
  <2>1. CASE n = unit + 1
    <3>1. Offsets(n) = offsets /\ Offsets(n)' = offsets' /\ k \in 1 .. At
      BY <1>3, <1>5, <1>6, <2>1 DEF Placed
    <3>2. k \in Placed(n)' /\ StartsAt(n, k)' = StartsAt(n, k)
      BY <1>2, <1>3, <3>1 DEF Placed, StartsAt
    <3>3. CASE k = At
      <4>1. EndsAt(n, k) = Len(buffer) /\ EndsAt(n, k)' = offsets'[At + 1]
        BY <1>3, <1>6, <2>1, <3>1, <3>3 DEF EndsAt
      <4>. QED BY <1>2, <3>2, <4>1
    <3>4. CASE k # At
      <4>1. k + 1 \in 1 .. At
        BY <1>3, <3>1, <3>4
      <4>2. EndsAt(n, k) = offsets[k + 1] /\ EndsAt(n, k)' = offsets'[k + 1]
        BY <1>3, <3>1, <3>4, <4>1 DEF EndsAt
      <4>. QED BY <1>2, <3>2, <4>1, <4>2
    <3>. QED BY <3>3, <3>4
  <2>2. CASE n # unit + 1
    <3>1. n \in 1 .. unit
      BY <1>3, <2>2
    <3>2. Offsets(n)' = Offsets(n) /\ EndOfUnit(n)' = EndOfUnit(n)
      BY <1>5, <1>7, <2>2, <3>1
    <3>. QED BY <3>2 DEF Placed, StartsAt, EndsAt
  <2>. QED BY <2>1, <2>2
<1>9. ASSUME NEW n \in 1 .. unit + 1, NEW k \in Placed(n)'
      PROVE  k \in Placed(n) \/ (n = unit + 1 /\ k = At + 1)
  <2>1. CASE n = unit + 1
    <3>1. k \in 1 .. At + 1 /\ Placed(n) = 1 .. At
      BY <1>3, <1>5, <1>6, <2>1 DEF Placed
    <3>. QED BY <1>3, <2>1, <3>1
  <2>2. CASE n # unit + 1
    <3>1. Offsets(n)' = Offsets(n)
      BY <1>5, <2>2
    <3>. QED BY <3>1 DEF Placed
  <2>. QED BY <2>1, <2>2
<1>10. \A n, a : n = unit + 1 /\ a = At + 1 =>
         a \in Placed(n)' /\ StartsAt(n, a)' = Len(buffer) /\ EndsAt(n, a)' = Len(buffer')
  <2> SUFFICES ASSUME NEW n, NEW a, n = unit + 1, a = At + 1
               PROVE  a \in Placed(n)' /\ StartsAt(n, a)' = Len(buffer) /\ EndsAt(n, a)' = Len(buffer')
    OBVIOUS
  <2>1. ~(n <= unit) /\ a \in 1 .. a
    BY <1>3
  <2>2. Offsets(n)' = offsets' /\ EndOfUnit(n)' = Len(buffer')
    BY <1>1, <2>1 DEF Offsets, EndOfUnit
  <2>3. Len(offsets') = a /\ offsets'[a] = Len(buffer)
    BY <1>2, <1>3
  <2>. QED BY <2>1, <2>2, <2>3 DEF Placed, StartsAt, EndsAt
<1>. QED BY <1>1, <1>4, <1>8, <1>9, <1>10

\* Closing a unit records in its chunk where its items are, and moves nothing.
LEMMA FinishPlaces ==
  ASSUME TypeInv, Chunked, FinishUnit, phase # "size"
  PROVE  /\ AllUnits' = AllUnits /\ unit' = unit + 1 /\ phase' = phase /\ relocs' = relocs /\ gaps' = {} /\ offsets' = <<>>
         /\ Len(offsets) = Len(AllUnits[unit + 1].items) /\ unit + 1 \in 1 .. Len(AllUnits)
         /\ Chunked'
         /\ \A n \in 1 .. unit + 1 :
              Placed(n)' = Placed(n) /\ \A k \in Placed(n) : StartsAt(n, k)' = StartsAt(n, k) /\ EndsAt(n, k)' = EndsAt(n, k)
         /\ \A n : n = unit + 2 => Placed(n)' = {}
<1>1. /\ UnitOpen /\ unit + 1 \in 1 .. Len(Units) /\ unit' = unit + 1 /\ At = Len(Unit.items)
      /\ offsets' = <<>> /\ gaps' = {} /\ Units = AllUnits
  BY FinishUnitFacts, UnitsPlaced
<1>2. /\ UNCHANGED <<module, phase, relocs>>
      /\ chunks' = [s \in DOMAIN chunks \cup {Unit.sym} |->
                      IF s = Unit.sym
                      THEN [start |-> StartOfUnit, size |-> Len(buffer) - StartOfUnit, offsets |-> offsets]
                      ELSE chunks[s]]
  BY DEF FinishUnit
<1>3. AllUnits' = AllUnits /\ Unit = AllUnits[unit + 1]
  BY <1>1, <1>2 DEF AllUnits, Unit
<1>4. unit \in Nat /\ Len(offsets) \in Nat /\ Len(buffer) \in Nat /\ StartOfUnit \in Nat /\ Len(AllUnits) \in Nat
  <2>1. unit \in Nat /\ Len(offsets) \in Nat /\ Len(buffer) \in Nat /\ Len(AllUnits) \in Nat
    BY <1>1, UnitsPlaced DEF TypeInv, IsSequence
  <2>2. CASE offsets = <<>>
    BY <2>1, <2>2 DEF StartOfUnit
  <2>3. CASE offsets # <<>>
    <3>1. 1 \in 1 .. Len(offsets) /\ offsets \in Seq(Nat)
      BY <2>3 DEF TypeInv
    <3>2. offsets[1] \in Nat
      BY <3>1, ElementOfSeq
    <3>3. StartOfUnit = offsets[1]
      BY <2>3 DEF StartOfUnit
    <3>. QED BY <2>1, <3>2, <3>3
  <2>. QED BY <2>1, <2>2, <2>3
<1> DEFINE c == [start |-> StartOfUnit, size |-> Len(buffer) - StartOfUnit, offsets |-> offsets]
<1>5. c.start + c.size = Len(buffer) /\ c.offsets = offsets
  <2>1. c.start = StartOfUnit /\ c.size = Len(buffer) - StartOfUnit /\ c.offsets = offsets
    OBVIOUS
  <2> HIDE DEF c
  <2>. QED BY <1>4, <2>1
<1> HIDE DEF c
<1>6. \A n \in 1 .. unit : /\ AllUnits[n].sym \in DOMAIN chunks /\ AllUnits[n].sym # Unit.sym
                           /\ AllUnits[n].sym \in DOMAIN chunks' /\ chunks'[AllUnits[n].sym] = chunks[AllUnits[n].sym]
  <2> SUFFICES ASSUME NEW n \in 1 .. unit
               PROVE  /\ AllUnits[n].sym \in DOMAIN chunks /\ AllUnits[n].sym # Unit.sym
                      /\ AllUnits[n].sym \in DOMAIN chunks' /\ chunks'[AllUnits[n].sym] = chunks[AllUnits[n].sym]
    OBVIOUS
  <2>1. AllUnits[n].sym \in DOMAIN chunks
    BY DEF Chunked
  <2>2. n \in 1 .. Len(AllUnits) /\ n # unit + 1 /\ unit + 1 \in 1 .. Len(AllUnits)
    BY <1>1, <1>4
  <2>3. AllUnits[n].sym # Unit.sym
    BY <1>3, <2>2, UnitsPlaced
  <2>. QED BY <1>2, <2>1, <2>3
<1>7. Unit.sym \in DOMAIN chunks' /\ chunks'[Unit.sym] = c
  BY <1>2 DEF c
<1>8. Chunked'
  <2> SUFFICES \A n : n \in 1 .. unit + 1 =>
                 AllUnits[n].sym \in DOMAIN chunks' /\ Len(chunks'[AllUnits[n].sym].offsets) = Len(AllUnits[n].items)
    BY <1>1, <1>3 DEF Chunked
  <2> SUFFICES ASSUME NEW n \in 1 .. unit + 1
               PROVE  AllUnits[n].sym \in DOMAIN chunks' /\ Len(chunks'[AllUnits[n].sym].offsets) = Len(AllUnits[n].items)
    OBVIOUS
  <2>1. CASE n = unit + 1
    BY <1>1, <1>3, <1>5, <1>7, <2>1 DEF At
  <2>2. CASE n # unit + 1
    <3>1. n \in 1 .. unit
      BY <1>4, <2>2
    <3>. QED BY <1>6, <3>1 DEF Chunked
  <2>. QED BY <2>1, <2>2
<1>9. ASSUME NEW n \in 1 .. unit + 1
      PROVE  Offsets(n)' = Offsets(n) /\ EndOfUnit(n)' = EndOfUnit(n)
  <2>1. Offsets(n)' = chunks'[AllUnits[n].sym].offsets
        /\ EndOfUnit(n)' = chunks'[AllUnits[n].sym].start + chunks'[AllUnits[n].sym].size
    BY <1>1, <1>3, <1>4 DEF Offsets, EndOfUnit
  <2>2. CASE n = unit + 1
    <3>1. Offsets(n) = offsets /\ EndOfUnit(n) = Len(buffer)
      BY <1>4, <2>2 DEF Offsets, EndOfUnit
    <3>. QED BY <1>3, <1>5, <1>7, <2>1, <2>2, <3>1
  <2>3. CASE n # unit + 1
    <3>1. n \in 1 .. unit
      BY <1>4, <2>3
    <3>2. n <= unit
      BY <3>1
    <3>. QED BY <1>6, <2>1, <3>1, <3>2 DEF Offsets, EndOfUnit
  <2>. QED BY <2>2, <2>3
<1>10. \A n \in 1 .. unit + 1 :
         Placed(n)' = Placed(n) /\ \A k \in Placed(n) : StartsAt(n, k)' = StartsAt(n, k) /\ EndsAt(n, k)' = EndsAt(n, k)
  BY <1>9 DEF Placed, StartsAt, EndsAt
<1>11. \A n : n = unit + 2 => Placed(n)' = {}
  <2> SUFFICES ASSUME NEW n, n = unit + 2 PROVE Placed(n)' = {}
    OBVIOUS
  <2>1. ~(n <= unit')
    BY <1>1, <1>4
  <2>2. Offsets(n)' = <<>>
    BY <1>1, <2>1 DEF Offsets
  <2>. QED BY <2>2 DEF Placed
<1>. QED BY <1>1, <1>2, <1>3, <1>8, <1>10, <1>11 DEF At

\* A jump is made of its own bytes.
LEMMA SameJump ==
  ASSUME NEW b, NEW c, NEW i, NEW s \in Nat, NEW e \in Nat, \A x \in s + 1 .. e : c[x] = b[x]
  PROVE  /\ Opened(b, i, s, e) => Opened(c, i, s, e)
         /\ \A v : LongJump(b, i, s, e, v) => LongJump(c, i, s, e, v)
         /\ \A t : JumpDone(b, i, s, e, t) => JumpDone(c, i, s, e, t)
<1>1. Opened(b, i, s, e) => Opened(c, i, s, e)
  BY DEF Opened
<1>2. ASSUME NEW v, LongJump(b, i, s, e, v)
      PROVE  LongJump(c, i, s, e, v)
  <2>1. Opened(b, i, s, e)
    BY <1>2 DEF LongJump
  <2>2. \A k \in 1 .. 4 : e - 4 + k \in s + 1 .. e
    BY <2>1 DEF Opened
  <2>. QED BY <1>1, <1>2, <2>1, <2>2 DEF LongJump
<1>3. \A v : ShortJump(b, i, s, e, v) => ShortJump(c, i, s, e, v)
  BY DEF ShortJump
<1>. QED BY <1>1, <1>2, <1>3 DEF JumpDone

\* Where an item is placed, there is an item, and a jump that does not wait has its target placed.
LEMMA PlacedFacts ==
  ASSUME TypeInv, phase # "size", Chunked, NEW n \in 1 .. unit + 1, NEW k \in Placed(n)
  PROVE  /\ n \in 1 .. Len(AllUnits) /\ k \in 1 .. Len(AllUnits[n].items) /\ n \in Nat /\ k \in Nat
         /\ IsJump(ItemAt(n, k)) =>
              /\ IsAJump(ItemAt(n, k)) /\ ItemAt(n, k).dst.k = "label" /\ Target(n, k) \in 1 .. Len(AllUnits[n].items)
              /\ Waits(n, k) \/ Target(n, k) \in Placed(n)
<1>1. unit \in Nat /\ Len(AllUnits) \in Nat /\ unit <= Len(AllUnits) /\ Units = AllUnits
  <2>1. Units = AllUnits /\ Len(AllUnits) \in Nat
    BY UnitsPlaced
  <2>2. unit \in 0 .. Len(Units)
    BY DEF TypeInv
  <2>. QED BY <2>1, <2>2
<1>2. n \in 1 .. Len(AllUnits) /\ k \in 1 .. Len(AllUnits[n].items)
      /\ (Waits(n, k) \/ \A t \in 1 .. Len(AllUnits[n].items) : t <= k \/ n # unit + 1 => t \in Placed(n))
  <2>1. CASE n = unit + 1
    <3>1. Offsets(n) = offsets /\ k \in 1 .. Len(offsets) /\ Len(offsets) \in Nat
      BY <1>1, <2>1 DEF Offsets, Placed, TypeInv
    <3>2. UnitOpen
      <4>1. offsets # <<>>
        BY <3>1
      <4>. QED BY <4>1 DEF TypeInv
    <3>3. At <= Len(Unit.items) /\ unit < Len(Units) /\ Unit = AllUnits[n]
      BY <1>1, <2>1, <3>2 DEF TypeInv, UnitOpen, Unit
    <3>4. Len(AllUnits[n].items) \in Nat
      BY <3>2, <3>3, Kinds
    <3>. QED BY <1>1, <2>1, <3>1, <3>3, <3>4 DEF At, Placed
  <2>2. CASE n # unit + 1
    <3>1. n \in 1 .. unit
      BY <1>1, <2>2
    <3>2. n <= unit
      BY <3>1
    <3>3. Placed(n) = 1 .. Len(AllUnits[n].items)
      BY <3>1, <3>2 DEF Placed, Offsets, Chunked
    <3>. QED BY <1>1, <3>1, <3>3
  <2>. QED BY <2>1, <2>2
<1>3. n \in Nat /\ k \in Nat
  BY <1>2
<1>4. ASSUME IsJump(ItemAt(n, k))
      PROVE  /\ IsAJump(ItemAt(n, k)) /\ ItemAt(n, k).dst.k = "label" /\ Target(n, k) \in 1 .. Len(AllUnits[n].items)
             /\ Waits(n, k) \/ Target(n, k) \in Placed(n)
  <2>1. IsAJump(ItemAt(n, k)) /\ ItemAt(n, k).dst.k = "label" /\ Target(n, k) \in 1 .. Len(AllUnits[n].items)
    BY <1>2, <1>4, UnitsPlaced
  <2> DEFINE t == Target(n, k)
  <2>2. t \in 1 .. Len(AllUnits[n].items) /\ (Waits(n, k) <=> n = unit + 1 /\ t > k)
    BY <2>1 DEF Waits
  <2> HIDE DEF t
  <2>3. Waits(n, k) \/ t <= k \/ n # unit + 1
    BY <1>3, <2>2
  <2>4. Waits(n, k) \/ t \in Placed(n)
    BY <1>2, <2>2, <2>3
  <2>. QED BY <2>1, <2>4 DEF t
<1>. QED BY <1>2, <1>3, <1>4

\* The item that is emitted next.
LEMMA NextItem ==
  ASSUME TypeInv, Emitting, phase # "size"
  PROVE  /\ Item = ItemAt(unit + 1, At + 1) /\ unit + 1 \in 1 .. Len(AllUnits) /\ At + 1 \in 1 .. Len(AllUnits[unit + 1].items)
         /\ unit \in Nat /\ At \in Nat /\ Len(offsets) = At
<1>1. UnitOpen /\ At < Len(Unit.items) /\ Units = AllUnits
  BY UnitsPlaced DEF Emitting
<1>2. Unit = AllUnits[unit + 1] /\ unit + 1 \in 1 .. Len(AllUnits) /\ At + 1 \in 1 .. Len(AllUnits[unit + 1].items) /\ At \in Nat
  BY <1>1, Kinds DEF Unit
<1>. QED BY <1>2 DEF Item, ItemAt, TypeInv, At

\* An item that is emitted overlaps none.
LEMMA SpreadEmitting ==
  ASSUME TypeInv, Spread, Apart, Emitting, phase # "size"
  PROVE  Spread' /\ Apart'
<1>1. /\ AllUnits' = AllUnits /\ unit' = unit
      /\ \A n \in 1 .. unit + 1 : \A k \in Placed(n) :
           k \in Placed(n)' /\ StartsAt(n, k)' = StartsAt(n, k) /\ EndsAt(n, k)' = EndsAt(n, k)
      /\ \A n \in 1 .. unit + 1 : \A k \in Placed(n)' : k \in Placed(n) \/ (n = unit + 1 /\ k = At + 1)
      /\ \A n, a : n = unit + 1 /\ a = At + 1 =>
           a \in Placed(n)' /\ StartsAt(n, a)' = Len(buffer) /\ EndsAt(n, a)' = Len(buffer')
  BY EmittingPlaces
<1>2. Len(buffer) \in Nat /\ Len(buffer') \in Nat /\ Len(buffer) <= Len(buffer')
  <2>1. Len(buffer') = Len(buffer) + Len(EmittedNow.bytes) /\ IsSequence(EmittedNow.bytes)
    BY EmittingFacts
  <2>2. Len(buffer) \in Nat /\ Len(EmittedNow.bytes) \in Nat
    BY <2>1 DEF TypeInv, IsSequence
  <2>. QED BY <2>1, <2>2
<1>3. ASSUME NEW n \in 1 .. unit + 1, NEW k \in Placed(n)'
      PROVE  /\ StartsAt(n, k)' \in Nat /\ EndsAt(n, k)' \in Nat /\ StartsAt(n, k)' <= EndsAt(n, k)' /\ EndsAt(n, k)' <= Len(buffer')
             /\ IF k \in Placed(n) /\ ~(n = unit + 1 /\ k = At + 1)
                THEN EndsAt(n, k)' <= Len(buffer) /\ StartsAt(n, k)' = StartsAt(n, k) /\ EndsAt(n, k)' = EndsAt(n, k)
                ELSE n = unit + 1 /\ k = At + 1 /\ StartsAt(n, k)' = Len(buffer)
  <2>1. CASE n = unit + 1 /\ k = At + 1
    BY <1>1, <1>2, <2>1
  <2>2. CASE ~(n = unit + 1 /\ k = At + 1)
    <3>1. k \in Placed(n)
      BY <1>1, <2>2
    <3>2. StartsAt(n, k) \in Nat /\ EndsAt(n, k) \in Nat /\ StartsAt(n, k) <= EndsAt(n, k) /\ EndsAt(n, k) <= Len(buffer)
      BY <3>1 DEF Spread
    <3>3. StartsAt(n, k)' = StartsAt(n, k) /\ EndsAt(n, k)' = EndsAt(n, k)
      BY <1>1, <3>1
    <3>4. \A x, y : x \in Nat /\ x <= y /\ y <= Len(buffer) /\ y \in Nat => y <= Len(buffer')
      BY <1>2
    <3>. QED BY <2>2, <3>1, <3>2, <3>3, <3>4, Zenon
  <2>. QED BY <2>1, <2>2
<1>4. Spread'
  BY <1>1, <1>3 DEF Spread
<1>5. ASSUME NEW n \in 1 .. unit + 1, NEW m \in 1 .. unit + 1, NEW k \in Placed(n)', NEW j \in Placed(m)',
             n # m \/ k # j
      PROVE  EndsAt(n, k)' <= StartsAt(m, j)' \/ EndsAt(m, j)' <= StartsAt(n, k)'
  <2>1. CASE n = unit + 1 /\ k = At + 1
    <3>1. ~(m = unit + 1 /\ j = At + 1)
      BY <1>5, <2>1
    <3>. QED BY <1>3, <2>1, <3>1
  <2>2. CASE m = unit + 1 /\ j = At + 1
    <3>1. ~(n = unit + 1 /\ k = At + 1)
      BY <1>5, <2>2
    <3>. QED BY <1>3, <2>2, <3>1
  <2>3. CASE ~(n = unit + 1 /\ k = At + 1) /\ ~(m = unit + 1 /\ j = At + 1)
    <3>1. k \in Placed(n) /\ j \in Placed(m)
      BY <1>1, <2>3
    <3>2. EndsAt(n, k) <= StartsAt(m, j) \/ EndsAt(m, j) <= StartsAt(n, k)
      BY <1>5, <3>1 DEF Apart
    <3>. QED BY <1>1, <3>1, <3>2
  <2>. QED BY <2>1, <2>2, <2>3
<1>6. Apart'
  BY <1>1, <1>5 DEF Apart
<1>. QED BY <1>4, <1>6

\* A jump that is emitted goes back, or has a gap.
LEMMA JumpsEmitting ==
  ASSUME TypeInv, Chunked, Spread, JumpsPlaced, GapsPlaced, Emitting, phase # "size"
  PROVE  JumpsPlaced' /\ GapsPlaced'
<1>1. /\ AllUnits' = AllUnits /\ unit' = unit
      /\ \A n \in 1 .. unit + 1 : \A k \in Placed(n) :
           k \in Placed(n)' /\ StartsAt(n, k)' = StartsAt(n, k) /\ EndsAt(n, k)' = EndsAt(n, k)
      /\ \A n \in 1 .. unit + 1 : \A k \in Placed(n)' : k \in Placed(n) \/ (n = unit + 1 /\ k = At + 1)
      /\ \A n, a : n = unit + 1 /\ a = At + 1 =>
           a \in Placed(n)' /\ StartsAt(n, a)' = Len(buffer) /\ EndsAt(n, a)' = Len(buffer')
  BY EmittingPlaces
<1>2. /\ Item = ItemAt(unit + 1, At + 1) /\ unit + 1 \in 1 .. Len(AllUnits) /\ At + 1 \in 1 .. Len(AllUnits[unit + 1].items)
      /\ unit \in Nat /\ At \in Nat /\ Len(offsets) = At
  BY NextItem
<1>3. /\ Len(buffer) \in Nat /\ Len(buffer') = Len(buffer) + Len(EmittedNow.bytes)
      /\ \A j \in 1 .. Len(buffer) : buffer'[j] = buffer[j]
      /\ \A j \in 1 .. Len(EmittedNow.bytes) : buffer'[Len(buffer) + j] = EmittedNow.bytes[j]
  BY EmittingFacts DEF TypeInv, IsSequence
<1>4. \A n, k : ItemAt(n, k)' = ItemAt(n, k) /\ Target(n, k)' = Target(n, k) /\ (Waits(n, k)' <=> Waits(n, k))
  BY <1>1 DEF ItemAt, Target, Waits
<1>5. gaps' = IF IsJump(Item) /\ ~Behind(Item.dst.label)
              THEN gaps \cup {<<Item.dst.label, Len(buffer')>>} ELSE gaps
  BY <1>3 DEF Emitting
<1>6. ASSUME IsJump(Item)
      PROVE  /\ IsAJump(Item) /\ LabelIndex(Item.dst.label) \in Nat
             /\ Target(unit + 1, At + 1) = LabelIndex(Item.dst.label) + 1
             /\ Waits(unit + 1, At + 1) <=> ~Behind(Item.dst.label)
  <2>1. UnitOpen /\ Unit = AllUnits[unit + 1]
    BY UnitsPlaced DEF Emitting, Unit
  <2>2. IsAJump(Item) /\ LabelIndex(Item.dst.label) \in Nat
    BY <1>6, <2>1, Kinds DEF Emitting, IsAJump
  <2> DEFINE l == LabelIndex(Item.dst.label)
  <2>3. Target(unit + 1, At + 1) = l + 1
    BY <1>2, <2>1 DEF Target, LabelIndex
  <2>4. Behind(Item.dst.label) <=> l <= At
    BY DEF Behind
  <2> HIDE DEF l
  <2>5. l \in Nat
    BY <2>2 DEF l
  <2>6. Waits(unit + 1, At + 1) <=> l + 1 > At + 1
    BY <2>3 DEF Waits
  <2>. QED BY <1>2, <2>2, <2>3, <2>4, <2>5, <2>6 DEF l
<1>7. ASSUME NEW n \in 1 .. unit + 1, NEW k \in Placed(n), IsJump(ItemAt(n, k))
      PROVE  IF Waits(n, k)
             THEN Opened(buffer', ItemAt(n, k), StartsAt(n, k), EndsAt(n, k)) /\ <<ItemAt(n, k).dst.label, EndsAt(n, k)>> \in gaps'
             ELSE \A j : j = Target(n, k) => JumpDone(buffer', ItemAt(n, k), StartsAt(n, k), EndsAt(n, k), StartsAt(n, j)')
  <2>1. StartsAt(n, k) \in Nat /\ EndsAt(n, k) \in Nat /\ EndsAt(n, k) <= Len(buffer)
    BY DEF Spread
  <2>2. \A x \in StartsAt(n, k) + 1 .. EndsAt(n, k) : x \in 1 .. Len(buffer)
    BY <1>3, <2>1
  <2>3. \A x \in StartsAt(n, k) + 1 .. EndsAt(n, k) : buffer'[x] = buffer[x]
    BY <1>3, <2>2
  <2> DEFINE i == ItemAt(n, k)
             s == StartsAt(n, k)
             e == EndsAt(n, k)
             t == StartsAt(n, Target(n, k))
  <2>4. IF Waits(n, k) THEN Opened(buffer, i, s, e) /\ <<i.dst.label, e>> \in gaps ELSE JumpDone(buffer, i, s, e, t)
    BY <1>7 DEF JumpsPlaced
  <2>5. Waits(n, k) \/ Target(n, k) \in Placed(n)
    BY <1>7, PlacedFacts
  <2>6. gaps \subseteq gaps'
    BY <1>5
  <2>7. Waits(n, k) \/ \A j : j = Target(n, k) => StartsAt(n, j)' = t
    BY <1>1, <2>5
  <2> HIDE DEF i, s, e, t
  <2>8. (Opened(buffer, i, s, e) => Opened(buffer', i, s, e)) /\ (JumpDone(buffer, i, s, e, t) => JumpDone(buffer', i, s, e, t))
    <3>1. s \in Nat /\ e \in Nat /\ \A x \in s + 1 .. e : buffer'[x] = buffer[x]
      BY <2>1, <2>3 DEF s, e
    <3>. QED BY <3>1, SameJump
  <2>9. IF Waits(n, k) THEN Opened(buffer', i, s, e) /\ <<i.dst.label, e>> \in gaps' ELSE JumpDone(buffer', i, s, e, t)
    BY <2>4, <2>6, <2>8
  <2>. QED BY <2>7, <2>9 DEF i, s, e, t
<1>8. ASSUME IsJump(Item), NEW n, NEW a, n = unit + 1, a = At + 1
      PROVE  IF Waits(n, a)
             THEN Opened(buffer', Item, Len(buffer), Len(buffer')) /\ <<Item.dst.label, Len(buffer')>> \in gaps'
             ELSE \A j : j = Target(n, a) => JumpDone(buffer', Item, Len(buffer), Len(buffer'), StartsAt(n, j)')
  <2> DEFINE l == LabelIndex(Item.dst.label)
             t == Append(offsets, Len(buffer))[l + 1]
             s == Len(buffer)
             e == Len(buffer')
             behind == Behind(Item.dst.label)
  <2>1. /\ IsAJump(Item) /\ l \in Nat /\ Target(n, a) = l + 1 /\ (Waits(n, a) <=> ~behind)
        /\ behind \in BOOLEAN /\ (behind => l <= At)
    BY <1>6, <1>8 DEF Behind
  <2>2. Waits(n, a) => <<Item.dst.label, e>> \in gaps'
    BY <1>5, <1>8, <2>1
  <2>3. EmittedNow.bytes = JumpBytes(Item, behind, t - s)
    BY <1>8 DEF EmittedNow, Plain
  <2>4. behind => t \in Nat /\ \A j : j = l + 1 => t = StartsAt(n, j)'
    <3> HIDE DEF l, behind, t, s
    <3>1. Append(offsets, s) \in Seq(Nat) /\ Len(Append(offsets, s)) = At + 1
          /\ \A j \in 1 .. At + 1 : Append(offsets, s)[j] = IF j <= At THEN offsets[j] ELSE s
      BY <1>2, <1>3 DEF TypeInv, s
    <3>2. behind => l + 1 \in 1 .. At + 1
      BY <1>2, <2>1
    <3>3. behind => t \in Nat
      <4> DEFINE q == Append(offsets, s)
      <4> HIDE DEF q
      <4>1. q \in Seq(Nat) /\ Len(q) = At + 1
        BY <3>1 DEF q
      <4>2. behind => q[l + 1] \in Nat
        BY <3>2, <4>1, ElementOfSeq
      <4>. QED BY <4>2 DEF t, q, s
    <3>4. behind => t = IF l + 1 <= At THEN offsets[l + 1] ELSE s
      BY <3>1, <3>2 DEF t, s
    <3>5. CASE l + 1 <= At
      <4>1. Offsets(n) = offsets
        BY <1>2, <1>8 DEF Offsets
      <4>2. behind => l + 1 \in Placed(n) /\ StartsAt(n, l + 1) = offsets[l + 1]
        BY <1>2, <2>1, <3>5, <4>1 DEF Placed, StartsAt
      <4>3. n \in 1 .. unit + 1
        BY <1>2, <1>8
      <4>. QED BY <1>1, <3>3, <3>4, <3>5, <4>2, <4>3
    <3>6. CASE ~(l + 1 <= At)
      <4>1. behind => l + 1 = a
        BY <1>2, <1>8, <2>1, <3>6
      <4>. QED BY <1>1, <1>8, <3>3, <3>4, <3>6, <4>1 DEF s
    <3>. QED BY <3>5, <3>6
  <2> HIDE DEF behind, t, l
  <2>5. e = s + Len(JumpBytes(Item, behind, t - s))
        /\ \A j \in 1 .. Len(JumpBytes(Item, behind, t - s)) : buffer'[s + j] = JumpBytes(Item, behind, t - s)[j]
    BY <1>3, <2>3
  <2>6. s \in Nat /\ (behind => t \in Int)
    BY <1>3, <2>4
  <2> HIDE DEF s, e
  <2>7. IF behind THEN JumpDone(buffer', Item, s, e, t) ELSE Opened(buffer', Item, s, e)
    BY <2>1, <2>5, <2>6, JumpEmitted
  <2>. QED BY <2>1, <2>2, <2>4, <2>7 DEF s, e
<1>9. JumpsPlaced'
  <2> SUFFICES \A n \in 1 .. unit + 1 : \A k \in Placed(n)' :
                 IsJump(ItemAt(n, k)) =>
                   IF Waits(n, k)
                   THEN Opened(buffer', ItemAt(n, k), StartsAt(n, k)', EndsAt(n, k)') /\ <<ItemAt(n, k).dst.label, EndsAt(n, k)'>> \in gaps'
                   ELSE \A j : j = Target(n, k) => JumpDone(buffer', ItemAt(n, k), StartsAt(n, k)', EndsAt(n, k)', StartsAt(n, j)')
    BY <1>1, <1>4 DEF JumpsPlaced
  <2> SUFFICES ASSUME NEW n \in 1 .. unit + 1, NEW k \in Placed(n)', IsJump(ItemAt(n, k))
               PROVE  IF Waits(n, k)
                      THEN Opened(buffer', ItemAt(n, k), StartsAt(n, k)', EndsAt(n, k)') /\ <<ItemAt(n, k).dst.label, EndsAt(n, k)'>> \in gaps'
                      ELSE \A j : j = Target(n, k) => JumpDone(buffer', ItemAt(n, k), StartsAt(n, k)', EndsAt(n, k)', StartsAt(n, j)')
    OBVIOUS
  <2>1. CASE n = unit + 1 /\ k = At + 1
    <3>1. StartsAt(n, k)' = Len(buffer) /\ EndsAt(n, k)' = Len(buffer') /\ ItemAt(n, k) = Item
      BY <1>1, <1>2, <2>1
    <3>. QED BY <1>8, <2>1, <3>1
  <2>2. CASE k \in Placed(n)
    <3>1. StartsAt(n, k)' = StartsAt(n, k) /\ EndsAt(n, k)' = EndsAt(n, k)
      BY <1>1, <2>2
    <3>. QED BY <1>7, <2>2, <3>1
  <2>. QED BY <1>1, <2>1, <2>2
<1>10. GapsPlaced'
  <2> SUFFICES \A g \in gaps' : \A n : n = unit + 1 =>
                 \E k \in 1 .. Len(offsets') :
                   IsJump(ItemAt(n, k)) /\ Target(n, k) > k /\ g = <<ItemAt(n, k).dst.label, EndsAt(n, k)'>>
    BY <1>1, <1>4 DEF GapsPlaced
  <2> SUFFICES ASSUME NEW g \in gaps', NEW n, n = unit + 1
               PROVE  \E k \in 1 .. Len(offsets') :
                        IsJump(ItemAt(n, k)) /\ Target(n, k) > k /\ g = <<ItemAt(n, k).dst.label, EndsAt(n, k)'>>
    OBVIOUS
  <2>1. At + 1 \in 1 .. Len(offsets') /\ \A k \in 1 .. At : k \in 1 .. Len(offsets')
    <3>1. At' = At + 1
      BY EmittingFacts
    <3>. QED BY <1>2, <3>1 DEF At
  <2>2. CASE g \in gaps
    <3>1. PICK k \in 1 .. Len(offsets) : IsJump(ItemAt(n, k)) /\ Target(n, k) > k /\ g = <<ItemAt(n, k).dst.label, EndsAt(n, k)>>
      BY <2>2 DEF GapsPlaced
    <3>2. Offsets(n) = offsets /\ n \in 1 .. unit + 1
      BY <1>2 DEF Offsets
    <3>3. k \in Placed(n)
      BY <3>2 DEF Placed
    <3>4. EndsAt(n, k)' = EndsAt(n, k)
      BY <1>1, <3>2, <3>3
    <3>. QED BY <1>2, <2>1, <3>1, <3>4
  <2>3. CASE g \notin gaps
    <3> DEFINE a == At + 1
    <3>1. IsJump(Item) /\ ~Behind(Item.dst.label) /\ g = <<Item.dst.label, Len(buffer')>>
      BY <1>5, <2>3
    <3>2. Waits(n, a)
      BY <1>6, <3>1
    <3>3. Target(n, a) > a /\ ItemAt(n, a) = Item
      BY <1>2, <3>2 DEF Waits
    <3>4. PICK c : c = a
      OBVIOUS
    <3>5. EndsAt(n, c)' = Len(buffer')
      BY <1>1, <3>4
    <3>. QED BY <2>1, <3>1, <3>3, <3>4, <3>5
  <2>. QED BY <2>2, <2>3
<1>. QED BY <1>9, <1>10

\* The relocation of an item lies inside of it.
LEMMA RelocsEmitting ==
  ASSUME TypeInv, Spread, RelocsPlaced, Emitting, phase # "size"
  PROVE  RelocsPlaced'
<1>1. /\ AllUnits' = AllUnits /\ unit' = unit
      /\ \A n \in 1 .. unit + 1 : \A k \in Placed(n) :
           k \in Placed(n)' /\ StartsAt(n, k)' = StartsAt(n, k) /\ EndsAt(n, k)' = EndsAt(n, k)
      /\ \A n, a : n = unit + 1 /\ a = At + 1 =>
           a \in Placed(n)' /\ StartsAt(n, a)' = Len(buffer) /\ EndsAt(n, a)' = Len(buffer')
  BY EmittingPlaces
<1>2. Item = ItemAt(unit + 1, At + 1) /\ unit \in Nat
  BY NextItem
<1>3. Len(buffer) \in Nat /\ Len(EmittedNow.bytes) \in Nat /\ Len(buffer') = Len(buffer) + Len(EmittedNow.bytes)
  BY EmittingFacts DEF TypeInv, IsSequence
<1>4. \A n, k : ItemAt(n, k)' = ItemAt(n, k)
  BY <1>1 DEF ItemAt
<1> SUFFICES \A x \in 1 .. Len(relocs') : \E n \in 1 .. unit + 1 : \E k \in Placed(n)' :
               /\ ~IsJump(ItemAt(n, k))
               /\ StartsAt(n, k)' <= relocs'[x].offset /\ relocs'[x].offset + WidthOf(relocs'[x]) <= EndsAt(n, k)'
  <2>1. \A r : WidthOf(r)' = WidthOf(r)
    BY DEF WidthOf
  <2>. QED BY <1>1, <1>4, <2>1 DEF RelocsPlaced, WidthOf
<1> SUFFICES ASSUME NEW x \in 1 .. Len(relocs')
             PROVE  \E n \in 1 .. unit + 1 : \E k \in Placed(n)' :
                      /\ ~IsJump(ItemAt(n, k))
                      /\ StartsAt(n, k)' <= relocs'[x].offset /\ relocs'[x].offset + WidthOf(relocs'[x]) <= EndsAt(n, k)'
  OBVIOUS
<1>5. CASE x \in 1 .. Len(relocs)
  <2>1. relocs'[x] = relocs[x]
    BY <1>5, RelocsEmitted
  <2>2. PICK n \in 1 .. unit + 1 : \E k \in Placed(n) :
          /\ ~IsJump(ItemAt(n, k))
          /\ StartsAt(n, k) <= relocs[x].offset /\ relocs[x].offset + WidthOf(relocs[x]) <= EndsAt(n, k)
    BY <1>5 DEF RelocsPlaced
  <2>3. PICK k \in Placed(n) :
          /\ ~IsJump(ItemAt(n, k))
          /\ StartsAt(n, k) <= relocs[x].offset /\ relocs[x].offset + WidthOf(relocs[x]) <= EndsAt(n, k)
    BY <2>2
  <2>4. k \in Placed(n)' /\ StartsAt(n, k)' = StartsAt(n, k) /\ EndsAt(n, k)' = EndsAt(n, k)
    BY <1>1
  <2>. QED BY <2>1, <2>3, <2>4
<1>6. CASE x \notin 1 .. Len(relocs)
  <2>1. PICK r : /\ EmittedNow.relocs = <<r>> /\ IsReloc(r) /\ r.offset + WidthOf(r) <= Len(EmittedNow.bytes)
                 /\ relocs'[x] = [r EXCEPT !.offset = @ + Len(buffer), !.disp = @ + Len(buffer)]
    BY <1>6, RelocsEmitted
  <2>2. ~IsJump(Item)
    <3>1. EmittedNow.relocs # <<>>
      BY <2>1
    <3>. QED BY <3>1, EmittedTyped DEF Emitting
  <2>3. relocs'[x].offset = r.offset + Len(buffer) /\ relocs'[x].type = r.type /\ r.offset \in Nat
    BY <2>1 DEF IsReloc
  <2>4. WidthOf(relocs'[x]) = WidthOf(r) /\ WidthOf(r) \in Nat
    BY <2>3 DEF WidthOf
  <2>5. PICK n, a : n = unit + 1 /\ a = At + 1
    OBVIOUS
  <2>6. n \in 1 .. unit + 1 /\ a \in Placed(n)' /\ StartsAt(n, a)' = Len(buffer) /\ EndsAt(n, a)' = Len(buffer')
    BY <1>1, <1>2, <2>5
  <2>7. Len(buffer) <= relocs'[x].offset /\ relocs'[x].offset + WidthOf(relocs'[x]) <= Len(buffer')
    BY <1>3, <2>1, <2>3, <2>4
  <2>. QED BY <1>2, <2>2, <2>5, <2>6, <2>7
<1>. QED BY <1>5, <1>6

\* Emitting an item keeps the invariant.
LEMMA SpanEmitting ==
  ASSUME TypeInv, SpanInv, Emitting
  PROVE  SpanInv'
<1>1. UNCHANGED <<unit, chunks, phase, module>> /\ AllUnits' = AllUnits
  BY DEF Emitting, Put, AllUnits
<1>2. offsets' # <<>>
  <2>1. At' = At + 1 /\ At \in Nat /\ offsets' \in Seq(Nat)
    BY EmittingFacts DEF TypeInv, At
  <2>. QED BY <2>1 DEF At
<1>3. CASE phase = "size"
  <2>1. relocs' = relocs
    BY <1>3 DEF Emitting, Put
  <2>. QED BY <1>1, <1>2, <1>3, <2>1 DEF SpanInv
<1>4. CASE phase # "size"
  <2>1. Chunked /\ Spread /\ Apart /\ JumpsPlaced /\ GapsPlaced /\ RelocsPlaced
    BY <1>4 DEF SpanInv
  <2>2. Chunked'
    BY <1>1, <2>1 DEF Chunked
  <2>3. Spread' /\ Apart' /\ JumpsPlaced' /\ GapsPlaced' /\ RelocsPlaced'
    BY <1>4, <2>1, SpreadEmitting, JumpsEmitting, RelocsEmitting
  <2>. QED BY <1>1, <1>2, <1>4, <2>2, <2>3 DEF SpanInv
<1>. QED BY <1>3, <1>4

\* A byte of the field before the position of a gap.
InField(g, x) == x \in Int /\ x - (g[2] - 4) \in 1 .. 4
\* What is patched into it.
FieldOf(g)    == LittleEndian(offsets[LabelIndex(g[1]) + 1] - g[2], 4)

\* What is read where a field lies, or where none does.
Filled(b, s) ==
  \A x \in 1 .. Len(buffer) :
    /\ \A g \in s : InField(g, x) => b[x] = FieldOf(g)[x - (g[2] - 4)]
    /\ (\A g \in s : ~InField(g, x)) => b[x] = buffer[x]

\* When no two fields overlap, each holds its distance in the end, in whatever order they are patched.
LEMMA PatchesEach ==
  ASSUME IsFiniteSet(gaps), IsSequence(buffer),
         \A g, h \in gaps : \A x : InField(g, x) /\ InField(h, x) => g = h
  PROVE  Filled(ResolveAndPatch, gaps)
<1>1. PICK f : IsFold(f, SUBSET gaps) /\ ResolveAndPatch = f[gaps]
  BY FoldUnfolds
<1> DEFINE n == Cardinality(gaps)
           Good(s) == Len(f[s]) = Len(buffer) /\ Filled(f[s], s)
           T == {k \in 0 .. n : \A s \in SUBSET gaps : Cardinality(s) = k => Good(s)}
           ch(s) == CHOOSE x \in s : TRUE
<1>2. n \in Nat
  BY FS_CardinalityType
<1>3. ASSUME NEW s \in SUBSET gaps
      PROVE  IsFiniteSet(s) /\ Cardinality(s) \in Nat /\ (Cardinality(s) = 0 <=> s = {})
  BY FS_Subset, FS_CardinalityType, FS_EmptySet
<1>4. \A s \in SUBSET gaps : f[s] = IF s = {} THEN buffer ELSE PatchGap(ch(s), f[s \ {ch(s)}])
  BY <1>1 DEF IsFold
<1>5. Good({})
  <2>1. f[{}] = buffer
    BY <1>4
  <2>. QED BY <2>1 DEF Filled
<1>6. ASSUME NEW s \in SUBSET gaps, s # {}, Good(s \ {ch(s)})
      PROVE  Good(s)
  <2> DEFINE b == f[s \ {ch(s)}]
             c == ch(s)
  <2>1. f[s] = PatchGap(c, b) /\ c \in s
    BY <1>4, <1>6
  <2>2. Len(b) = Len(buffer) /\ Filled(b, s \ {c})
    BY <1>6
  <2>3. Len(buffer) \in Nat
    BY DEF IsSequence
  <2> HIDE DEF b, c
  <2> DEFINE w == FieldOf(c)
             p == PatchGap(c, b)
  <2>4. Len(w) = 4
    BY DEF FieldOf, LittleEndian
  <2>5. p = [k \in 1 .. Len(b) |-> IF k - (c[2] - 4) \in 1 .. Len(w) THEN w[k - (c[2] - 4)] ELSE b[k]]
    BY DEF PatchGap, Patch, FieldOf
  <2> HIDE DEF w, p
  <2>6. Len(p) = Len(buffer)
        /\ \A x \in 1 .. Len(buffer) : p[x] = IF InField(c, x) THEN w[x - (c[2] - 4)] ELSE b[x]
    BY <2>2, <2>3, <2>4, <2>5 DEF InField
  <2>7. Filled(p, s)
    <3> SUFFICES ASSUME NEW x \in 1 .. Len(buffer)
                 PROVE  /\ \A g \in s : InField(g, x) => p[x] = FieldOf(g)[x - (g[2] - 4)]
                        /\ (\A g \in s : ~InField(g, x)) => p[x] = buffer[x]
      BY DEF Filled
    <3>1. CASE InField(c, x)
      <4>1. p[x] = FieldOf(c)[x - (c[2] - 4)]
        BY <2>6, <3>1 DEF w
      <4>2. \A g \in s : InField(g, x) => g = c
        BY <2>1, <3>1
      <4>. QED BY <2>1, <3>1, <4>1, <4>2
    <3>2. CASE ~InField(c, x)
      <4>1. p[x] = b[x]
        BY <2>6, <3>2
      <4>2. \A g \in s : InField(g, x) => g \in s \ {c}
        BY <3>2
      <4>. QED BY <2>2, <4>1, <4>2 DEF Filled
    <3>. QED BY <3>1, <3>2
  <2>. QED BY <2>1, <2>6, <2>7 DEF p
<1>7. 0 \in T
  <2>1. ASSUME NEW s \in SUBSET gaps, Cardinality(s) = 0 PROVE Good(s)
    <3>1. s = {}
      BY <1>3, <2>1
    <3> HIDE DEF Good
    <3>. QED BY <1>5, <3>1
  <2> HIDE DEF n, Good
  <2>2. 0 \in 0 .. n
    BY <1>2
  <2>. QED BY <2>1, <2>2
<1>8. ASSUME NEW k \in 1 .. n, k - 1 \in T PROVE k \in T
  <2>1. ASSUME NEW s \in SUBSET gaps, Cardinality(s) = k PROVE Good(s)
    <3>1. s # {} /\ ch(s) \in s
      BY <1>2, <1>3, <2>1
    <3>2. Cardinality(s \ {ch(s)}) = k - 1 /\ s \ {ch(s)} \in SUBSET gaps
      BY <1>3, <2>1, <3>1, FS_RemoveElement
    <3>3. Good(s \ {ch(s)})
      <4> HIDE DEF Good, ch
      <4>. QED BY <1>8, <3>2
    <3>. QED BY <1>6, <3>1, <3>3
  <2> HIDE DEF n, Good
  <2>. QED BY <1>2, <2>1
<1> HIDE DEF T, Good
<1>9. n \in T
  <2>1. \A k \in 1 .. n : k - 1 \in T => k \in T
    BY <1>8
  <2> HIDE DEF n
  <2>2. n \in Nat
    BY <1>2
  <2>3. \A k \in 0 .. n : k \in T
    BY <1>7, <2>1, <2>2, Base!UpTo
  <2>. QED BY <2>2, <2>3
<1>10. Good(gaps)
  BY <1>9 DEF T
<1>. QED BY <1>1, <1>10 DEF Good

\* Only a jump that waits has a gap, in its last 4 bytes.
LEMMA FieldsApart ==
  ASSUME TypeInv, Chunked, Spread, Apart, JumpsPlaced, GapsPlaced, phase # "size",
         NEW n \in 1 .. unit + 1, NEW k \in Placed(n), NEW x \in StartsAt(n, k) + 1 .. EndsAt(n, k),
         NEW g \in gaps, InField(g, x)
  PROVE  /\ IsJump(ItemAt(n, k)) /\ Waits(n, k) /\ g = <<ItemAt(n, k).dst.label, EndsAt(n, k)>>
         /\ x \in EndsAt(n, k) - 3 .. EndsAt(n, k)
<1>1. unit \in Nat
  BY DEF TypeInv
<1>2. PICK m : m = unit + 1
  OBVIOUS
<1>3. m \in 1 .. unit + 1 /\ Offsets(m) = offsets
  BY <1>1, <1>2 DEF Offsets
<1>4. PICK j \in 1 .. Len(offsets) : /\ IsJump(ItemAt(m, j)) /\ Target(m, j) > j
                                     /\ g = <<ItemAt(m, j).dst.label, EndsAt(m, j)>>
  BY <1>2 DEF GapsPlaced
<1>5. j \in Placed(m) /\ Waits(m, j)
  BY <1>2, <1>3, <1>4 DEF Placed, Waits
<1>6. Opened(buffer, ItemAt(m, j), StartsAt(m, j), EndsAt(m, j))
  BY <1>3, <1>4, <1>5 DEF JumpsPlaced
<1> DEFINE s == StartsAt(m, j)
           e == EndsAt(m, j)
           t == StartsAt(n, k)
           f == EndsAt(n, k)
<1>7. s \in Nat /\ e \in Nat /\ t \in Nat /\ f \in Nat /\ (e = s + 5 \/ e = s + 6)
  BY <1>3, <1>5, <1>6 DEF Spread, Opened
<1>8. x - (e - 4) \in 1 .. 4
  BY <1>4 DEF InField
<1>9. n # m \/ k # j => e <= t \/ f <= s
  BY <1>3, <1>5 DEF Apart
<1>10. x \in t + 1 .. f
  OBVIOUS
<1> HIDE DEF s, e, t, f
<1>11. x \in e - 3 .. e /\ ~(e <= t) /\ ~(f <= s)
  BY <1>7, <1>8, <1>10
<1>12. n = m /\ k = j
  BY <1>9, <1>11
<1>. QED BY <1>4, <1>5, <1>11, <1>12 DEF e

\* No two fields overlap.
LEMMA GapsApart ==
  ASSUME TypeInv, Chunked, Spread, Apart, JumpsPlaced, GapsPlaced, phase # "size"
  PROVE  \A g, h \in gaps : \A x : InField(g, x) /\ InField(h, x) => g = h
<1> SUFFICES ASSUME NEW g \in gaps, NEW h \in gaps, NEW x, InField(g, x), InField(h, x)
             PROVE  g = h
  OBVIOUS
<1>1. unit \in Nat
  BY DEF TypeInv
<1>2. PICK m : m = unit + 1
  OBVIOUS
<1>3. m \in 1 .. unit + 1 /\ Offsets(m) = offsets
  BY <1>1, <1>2 DEF Offsets
<1>4. PICK j \in 1 .. Len(offsets) : /\ IsJump(ItemAt(m, j)) /\ Target(m, j) > j
                                     /\ g = <<ItemAt(m, j).dst.label, EndsAt(m, j)>>
  BY <1>2 DEF GapsPlaced
<1>5. j \in Placed(m) /\ Waits(m, j)
  BY <1>2, <1>3, <1>4 DEF Placed, Waits
<1>6. Opened(buffer, ItemAt(m, j), StartsAt(m, j), EndsAt(m, j))
  BY <1>3, <1>4, <1>5 DEF JumpsPlaced
<1>7. StartsAt(m, j) \in Nat /\ EndsAt(m, j) \in Nat /\ (EndsAt(m, j) = StartsAt(m, j) + 5 \/ EndsAt(m, j) = StartsAt(m, j) + 6)
  BY <1>3, <1>5, <1>6 DEF Spread, Opened
<1>8. x \in Int
  BY <1>4, <1>7 DEF InField
<1>9. x \in StartsAt(m, j) + 1 .. EndsAt(m, j)
  <2>1. x - (EndsAt(m, j) - 4) \in 1 .. 4
    BY <1>4 DEF InField
  <2>. QED BY <1>7, <1>8, <2>1
<1>10. h = <<ItemAt(m, j).dst.label, EndsAt(m, j)>>
  BY <1>3, <1>5, <1>9, FieldsApart
<1>. QED BY <1>4, <1>10

\* The jumps of the unit that is closed are patched, and no others.
LEMMA JumpsPatched ==
  ASSUME TypeInv, Chunked, Spread, Apart, JumpsPlaced, GapsPlaced, FinishUnit, phase # "size",
         NEW n \in 1 .. unit + 1, NEW k \in Placed(n), IsJump(ItemAt(n, k))
  PROVE  JumpDone(buffer', ItemAt(n, k), StartsAt(n, k), EndsAt(n, k), StartsAt(n, Target(n, k)))
<1> DEFINE i == ItemAt(n, k)
           s == StartsAt(n, k)
           e == EndsAt(n, k)
           t == StartsAt(n, Target(n, k))
<1>1. s \in Nat /\ e \in Nat /\ e <= Len(buffer) /\ Len(buffer) \in Nat
  BY DEF Spread, TypeInv, IsSequence
<1>2. buffer' = ResolveAndPatch
  BY FinishUnitFacts
<1>3. Filled(buffer', gaps)
  BY <1>2, PatchesEach, GapsApart DEF TypeInv
<1>4. \A x \in s + 1 .. e : x \in 1 .. Len(buffer)
  BY <1>1
<1>5. CASE ~Waits(n, k)
  <2>1. \A x \in s + 1 .. e : \A g \in gaps : ~InField(g, x)
    BY <1>5, FieldsApart
  <2>2. \A x \in s + 1 .. e : buffer'[x] = buffer[x]
    BY <1>3, <1>4, <2>1 DEF Filled
  <2>3. JumpDone(buffer, i, s, e, t)
    BY <1>5 DEF JumpsPlaced
  <2> HIDE DEF i, s, e, t
  <2>4. JumpDone(buffer', i, s, e, t)
    BY <1>1, <2>2, <2>3, SameJump
  <2>. QED BY <2>4 DEF i, s, e, t
<1>6. CASE Waits(n, k)
  <2> DEFINE g == <<i.dst.label, e>>
  <2>1. Opened(buffer, i, s, e) /\ g \in gaps /\ IsAJump(i)
    BY <1>6, PlacedFacts DEF JumpsPlaced
  <2>2. \A x \in s + 1 .. e - 4 : buffer'[x] = buffer[x]
    <3> SUFFICES ASSUME NEW x \in s + 1 .. e - 4 PROVE buffer'[x] = buffer[x]
      OBVIOUS
    <3>1. x \in s + 1 .. e /\ x \notin e - 3 .. e
      BY <1>1
    <3>2. \A h \in gaps : ~InField(h, x)
      BY <3>1, FieldsApart
    <3>. QED BY <1>3, <1>4, <3>1, <3>2 DEF Filled
  <2>3. FieldOf(g) = LittleEndian(t - e, 4)
    <3>1. n = unit + 1 /\ Unit = AllUnits[unit + 1]
      BY <1>6, UnitsPlaced DEF Waits, Unit
    <3>2. Offsets(n) = offsets
      <4>1. unit \in Nat
        BY DEF TypeInv
      <4>. QED BY <3>1, <4>1 DEF Offsets
    <3>3. LabelIndex(i.dst.label) + 1 = Target(n, k)
      BY <3>1 DEF LabelIndex, Target
    <3>4. t = offsets[LabelIndex(i.dst.label) + 1]
      BY <3>2, <3>3 DEF StartsAt
    <3>. QED BY <3>4 DEF FieldOf
  <2>4. \A c \in 1 .. 4 : buffer'[e - 4 + c] = LittleEndian(t - e, 4)[c]
    <3> SUFFICES ASSUME NEW c \in 1 .. 4 PROVE buffer'[e - 4 + c] = LittleEndian(t - e, 4)[c]
      OBVIOUS
    <3>1. e >= s + 5
      BY <1>1, <2>1 DEF Opened
    <3>2. PICK h \in gaps : h = g /\ h[2] = e
      BY <2>1
    <3>3. FieldOf(h) = LittleEndian(t - e, 4)
      BY <2>3, <3>2
    <3> HIDE DEF e, s, i, t, g
    <3> DEFINE x == e - 4 + c
    <3>4. x \in 1 .. Len(buffer) /\ x \in Int /\ x - (e - 4) = c
      BY <1>1, <3>1
    <3> HIDE DEF x
    <3>5. InField(h, x)
      BY <3>2, <3>4 DEF InField
    <3>6. buffer'[x] = FieldOf(h)[x - (h[2] - 4)]
      BY <1>3, <3>4, <3>5 DEF Filled
    <3>7. buffer'[x] = FieldOf(h)[c]
      BY <3>2, <3>4, <3>6
    <3>. QED BY <3>3, <3>7 DEF x
  <2>5. Opened(buffer', i, s, e)
    <3> HIDE DEF s, e, i, t, g
    <3>1. i.op \in {"jmp", "jcc"}
      BY <2>1 DEF IsAJump
    <3>2. CASE i.op = "jmp"
      <4>1. e = s + 5 /\ buffer[s + 1] = \hE9
        BY <2>1, <3>2 DEF Opened
      <4>2. s + 1 \in s + 1 .. e - 4
        BY <1>1, <4>1
      <4>. QED BY <2>2, <3>2, <4>1, <4>2 DEF Opened
    <3>3. CASE i.op = "jcc"
      <4>1. e = s + 6 /\ buffer[s + 1] = \h0F /\ buffer[s + 2] = \h80 + i.arg
        BY <2>1, <3>3 DEF Opened
      <4>2. s + 1 \in s + 1 .. e - 4 /\ s + 2 \in s + 1 .. e - 4
        BY <1>1, <4>1
      <4>. QED BY <2>2, <3>3, <4>1, <4>2 DEF Opened
    <3>. QED BY <3>1, <3>2, <3>3
  <2>. QED BY <2>4, <2>5 DEF JumpDone, LongJump
<1>. QED BY <1>5, <1>6

\* Closing a unit keeps the invariant.
LEMMA SpanFinishUnit ==
  ASSUME TypeInv, SpanInv, FinishUnit
  PROVE  SpanInv'
<1>1. CASE phase = "size"
  <2>1. offsets' = <<>> /\ gaps' = {} /\ phase' = phase /\ relocs' = relocs
    BY DEF FinishUnit
  <2>. QED BY <1>1, <2>1 DEF SpanInv
<1>2. CASE phase # "size"
  <2>1. Chunked /\ Spread /\ Apart /\ JumpsPlaced /\ GapsPlaced /\ RelocsPlaced
    BY <1>2 DEF SpanInv
  <2>2. /\ AllUnits' = AllUnits /\ unit' = unit + 1 /\ phase' = phase /\ relocs' = relocs /\ gaps' = {} /\ offsets' = <<>>
        /\ Chunked' /\ unit \in Nat
        /\ \A n \in 1 .. unit + 1 :
             Placed(n)' = Placed(n) /\ \A k \in Placed(n) : StartsAt(n, k)' = StartsAt(n, k) /\ EndsAt(n, k)' = EndsAt(n, k)
        /\ \A n : n = unit + 2 => Placed(n)' = {}
    BY <1>2, <2>1, FinishPlaces DEF TypeInv
  <2>3. Len(buffer') = Len(buffer)
    BY <1>2, FinishUnitFacts
  <2>4. \A n \in 1 .. unit' + 1 : \A k \in Placed(n)' :
          /\ n \in 1 .. unit + 1 /\ k \in Placed(n) /\ StartsAt(n, k)' = StartsAt(n, k) /\ EndsAt(n, k)' = EndsAt(n, k)
    <3> SUFFICES ASSUME NEW n \in 1 .. unit + 2, NEW k \in Placed(n)'
                 PROVE  /\ n \in 1 .. unit + 1 /\ k \in Placed(n) /\ StartsAt(n, k)' = StartsAt(n, k) /\ EndsAt(n, k)' = EndsAt(n, k)
      BY <2>2
    <3>1. n # unit + 2
      BY <2>2
    <3>2. n \in 1 .. unit + 1
      BY <2>2, <3>1
    <3>. QED BY <2>2, <3>2
  <2>5. \A n, k : ItemAt(n, k)' = ItemAt(n, k) /\ Target(n, k)' = Target(n, k)
    BY <2>2 DEF ItemAt, Target
  <2>6. Spread'
    BY <2>1, <2>3, <2>4 DEF Spread
  <2>7. Apart'
    BY <2>1, <2>4 DEF Apart
  <2>8. JumpsPlaced'
    <3> SUFFICES \A n \in 1 .. unit' + 1 : \A k \in Placed(n)' :
                   IsJump(ItemAt(n, k)) =>
                     /\ ~(Waits(n, k)')
                     /\ \A j : j = Target(n, k) => JumpDone(buffer', ItemAt(n, k), StartsAt(n, k)', EndsAt(n, k)', StartsAt(n, j)')
      BY <2>5 DEF JumpsPlaced
    <3> SUFFICES ASSUME NEW n \in 1 .. unit' + 1, NEW k \in Placed(n)', IsJump(ItemAt(n, k)), NEW j, j = Target(n, k)
                 PROVE  ~(Waits(n, k)') /\ JumpDone(buffer', ItemAt(n, k), StartsAt(n, k)', EndsAt(n, k)', StartsAt(n, j)')
      OBVIOUS
    <3>1. n \in 1 .. unit + 1 /\ k \in Placed(n) /\ StartsAt(n, k)' = StartsAt(n, k) /\ EndsAt(n, k)' = EndsAt(n, k)
      BY <2>4
    <3>2. ~(Waits(n, k)')
      <4>1. n # unit' + 1
        BY <2>2, <3>1
      <4>. QED BY <4>1 DEF Waits
    <3>3. JumpDone(buffer', ItemAt(n, k), StartsAt(n, k), EndsAt(n, k), StartsAt(n, j))
      BY <1>2, <2>1, <3>1, JumpsPatched
    <3>4. j \in Placed(n)
      <4>1. Target(n, k) \in 1 .. Len(AllUnits[n].items) /\ (Waits(n, k) \/ Target(n, k) \in Placed(n))
        BY <1>2, <2>1, <3>1, PlacedFacts
      <4>2. CASE Waits(n, k)
        <5>1. n = unit + 1 /\ Len(offsets) = Len(AllUnits[n].items)
          BY <1>2, <2>1, <4>2, FinishPlaces DEF Waits
        <5>2. Placed(n) = 1 .. Len(AllUnits[n].items)
          BY <2>2, <5>1 DEF Placed, Offsets
        <5>. QED BY <4>1, <5>2
      <4>. QED BY <4>1, <4>2
    <3>. QED BY <2>2, <3>1, <3>2, <3>3, <3>4
  <2>9. GapsPlaced'
    BY <2>2 DEF GapsPlaced
  <2>10. RelocsPlaced'
    <3> SUFFICES \A x \in 1 .. Len(relocs) : \E n \in 1 .. unit' + 1 : \E k \in Placed(n)' :
                   /\ ~IsJump(ItemAt(n, k))
                   /\ StartsAt(n, k)' <= relocs[x].offset /\ relocs[x].offset + WidthOf(relocs[x]) <= EndsAt(n, k)'
      BY <2>2, <2>5 DEF RelocsPlaced, WidthOf
    <3> SUFFICES ASSUME NEW x \in 1 .. Len(relocs)
                 PROVE  \E n \in 1 .. unit' + 1 : \E k \in Placed(n)' :
                          /\ ~IsJump(ItemAt(n, k))
                          /\ StartsAt(n, k)' <= relocs[x].offset /\ relocs[x].offset + WidthOf(relocs[x]) <= EndsAt(n, k)'
      OBVIOUS
    <3>1. PICK n \in 1 .. unit + 1 : \E k \in Placed(n) :
            /\ ~IsJump(ItemAt(n, k))
            /\ StartsAt(n, k) <= relocs[x].offset /\ relocs[x].offset + WidthOf(relocs[x]) <= EndsAt(n, k)
      BY <2>1 DEF RelocsPlaced
    <3>2. PICK k \in Placed(n) :
            /\ ~IsJump(ItemAt(n, k))
            /\ StartsAt(n, k) <= relocs[x].offset /\ relocs[x].offset + WidthOf(relocs[x]) <= EndsAt(n, k)
      BY <3>1
    <3>3. n \in 1 .. unit' + 1 /\ k \in Placed(n)' /\ StartsAt(n, k)' = StartsAt(n, k) /\ EndsAt(n, k)' = EndsAt(n, k)
      BY <2>2
    <3>. QED BY <3>2, <3>3
  <2>. QED BY <1>2, <2>2, <2>6, <2>7, <2>8, <2>9, <2>10 DEF SpanInv
<1>. QED BY <1>1, <1>2

\* The invariant holds at first.
LEMMA SpanInit == Init => SpanInv
  BY DEF Init, SpanInv

\* It holds when emission starts.
LEMMA SpanStartEmission ==
  ASSUME TypeInv, SpanInv, StartEmission
  PROVE  SpanInv'
<1>1. phase' = "emit" /\ unit' = 0 /\ phase = "size" /\ UNCHANGED <<module, buffer, offsets, gaps, relocs, chunks>>
  BY DEF StartEmission
<1>2. offsets = <<>>
  <2>1. unit = Len(Units) /\ Len(Units) \in Nat
    BY UnitsFacts DEF StartEmission, TypeInv, AreUnits
  <2>2. ~UnitOpen
    BY <2>1 DEF UnitOpen
  <2>. QED BY <2>2 DEF TypeInv
<1>3. gaps' = {} /\ relocs' = <<>> /\ offsets' = <<>>
  BY <1>1, <1>2 DEF SpanInv
<1>4. \A n \in 1 .. unit' + 1 : Placed(n)' = {}
  <2> SUFFICES ASSUME NEW n \in 1 .. unit' + 1 PROVE Placed(n)' = {}
    OBVIOUS
  <2>1. ~(n <= unit')
    BY <1>1
  <2>2. Offsets(n)' = <<>>
    BY <1>3, <2>1 DEF Offsets
  <2>. QED BY <2>2 DEF Placed
<1>5. Chunked'
  BY <1>1 DEF Chunked
<1>6. Spread' /\ Apart' /\ JumpsPlaced'
  BY <1>4 DEF Spread, Apart, JumpsPlaced
<1>7. GapsPlaced' /\ RelocsPlaced'
  BY <1>3 DEF GapsPlaced, RelocsPlaced
<1>. QED BY <1>1, <1>3, <1>5, <1>6, <1>7 DEF SpanInv

\* Nothing moves, and no byte of a jump changes.
LEMMA SpanRests ==
  ASSUME TypeInv, SpanInv, phase # "size", phase' # "size",
         UNCHANGED <<module, unit, offsets, gaps, chunks>>, Len(buffer') = Len(buffer),
         \A n \in 1 .. unit + 1 : \A k \in Placed(n) :
           IsJump(ItemAt(n, k)) => \A x \in StartsAt(n, k) + 1 .. EndsAt(n, k) : buffer'[x] = buffer[x],
         \A y \in 1 .. Len(relocs') : \E x \in 1 .. Len(relocs) : relocs'[y] = relocs[x]
  PROVE  SpanInv'
<1>1. Chunked /\ Spread /\ Apart /\ JumpsPlaced /\ GapsPlaced /\ RelocsPlaced /\ (offsets = <<>> => gaps = {})
  BY DEF SpanInv
<1>2. AllUnits' = AllUnits /\ unit' = unit
  BY DEF AllUnits
<1>3. \A n : Offsets(n)' = Offsets(n) /\ EndOfUnit(n)' = EndOfUnit(n)
  BY <1>2 DEF Offsets, EndOfUnit
<1>4. \A n, k : /\ Placed(n)' = Placed(n) /\ StartsAt(n, k)' = StartsAt(n, k) /\ EndsAt(n, k)' = EndsAt(n, k)
                /\ ItemAt(n, k)' = ItemAt(n, k) /\ Target(n, k)' = Target(n, k) /\ (Waits(n, k)' <=> Waits(n, k))
  BY <1>2, <1>3 DEF Placed, StartsAt, EndsAt, ItemAt, Target, Waits
<1>5. Chunked'
  BY <1>1, <1>2 DEF Chunked
<1>6. Spread' /\ Apart'
  BY <1>1, <1>2, <1>4 DEF Spread, Apart
<1>7. JumpsPlaced'
  <2> SUFFICES ASSUME NEW n \in 1 .. unit + 1, NEW k \in Placed(n), IsJump(ItemAt(n, k))
               PROVE  IF Waits(n, k)
                      THEN Opened(buffer', ItemAt(n, k), StartsAt(n, k), EndsAt(n, k)) /\ <<ItemAt(n, k).dst.label, EndsAt(n, k)>> \in gaps
                      ELSE JumpDone(buffer', ItemAt(n, k), StartsAt(n, k), EndsAt(n, k), StartsAt(n, Target(n, k)))
    BY <1>2, <1>4 DEF JumpsPlaced
  <2> DEFINE i == ItemAt(n, k)
             s == StartsAt(n, k)
             e == EndsAt(n, k)
             t == StartsAt(n, Target(n, k))
  <2>1. s \in Nat /\ e \in Nat /\ \A x \in s + 1 .. e : buffer'[x] = buffer[x]
    BY <1>1 DEF Spread
  <2>2. IF Waits(n, k) THEN Opened(buffer, i, s, e) /\ <<i.dst.label, e>> \in gaps ELSE JumpDone(buffer, i, s, e, t)
    BY <1>1 DEF JumpsPlaced
  <2> HIDE DEF i, s, e, t
  <2>3. (Opened(buffer, i, s, e) => Opened(buffer', i, s, e)) /\ (JumpDone(buffer, i, s, e, t) => JumpDone(buffer', i, s, e, t))
    BY <2>1, SameJump
  <2>4. IF Waits(n, k) THEN Opened(buffer', i, s, e) /\ <<i.dst.label, e>> \in gaps ELSE JumpDone(buffer', i, s, e, t)
    BY <2>2, <2>3
  <2>. QED BY <2>4 DEF i, s, e, t
<1>8. GapsPlaced'
  <2> SUFFICES \A g \in gaps : \A n : n = unit + 1 => \E k \in 1 .. Len(offsets) :
                 IsJump(ItemAt(n, k)) /\ Target(n, k) > k /\ g = <<ItemAt(n, k).dst.label, EndsAt(n, k)>>
    BY <1>2, <1>4 DEF GapsPlaced
  <2>. QED BY <1>1 DEF GapsPlaced
<1>9. RelocsPlaced'
  <2> SUFFICES \A y \in 1 .. Len(relocs') : \E n \in 1 .. unit + 1 : \E k \in Placed(n) :
                 /\ ~IsJump(ItemAt(n, k))
                 /\ StartsAt(n, k) <= relocs'[y].offset /\ relocs'[y].offset + WidthOf(relocs'[y]) <= EndsAt(n, k)
    BY <1>2, <1>4 DEF RelocsPlaced, WidthOf
  <2>. QED BY <1>1 DEF RelocsPlaced
<1>. QED BY <1>1, <1>5, <1>6, <1>7, <1>8, <1>9 DEF SpanInv

\* A relocation changes no jump.
LEMMA SpanRelocate ==
  ASSUME TypeInv, SpanInv, Relocate
  PROVE  SpanInv'
<1>1. /\ relocs[1].offset \in Nat /\ Len(relocs') = Len(relocs) - 1 /\ Len(relocs) \in Nat /\ Len(relocs') \in Nat
      /\ \A n \in 1 .. Len(relocs') : relocs'[n] = relocs[n + 1]
      /\ Len(buffer') = Len(buffer) /\ IsSequence(buffer) /\ Len(buffer) \in Nat
  BY RelocateFacts DEF IsReloc, TypeInv, IsSequence
<1>2. PICK field : Len(field) = WidthOf(relocs[1]) /\ buffer' = Patch(buffer, relocs[1].offset, field)
  BY RelocateFacts
<1>3. phase = "relocate" /\ phase' = phase /\ UNCHANGED <<module, unit, offsets, gaps, chunks>>
  BY DEF Relocate
<1>4. Spread /\ Apart /\ RelocsPlaced
  BY <1>3 DEF SpanInv
<1> DEFINE o == relocs[1].offset
           w == WidthOf(relocs[1])
<1>5. PICK m \in 1 .. unit + 1 : \E j \in Placed(m) : ~IsJump(ItemAt(m, j)) /\ StartsAt(m, j) <= o /\ o + w <= EndsAt(m, j)
  <2>1. 1 \in 1 .. Len(relocs)
    BY <1>1
  <2>. QED BY <1>4, <2>1 DEF RelocsPlaced
<1>6. PICK j \in Placed(m) : ~IsJump(ItemAt(m, j)) /\ StartsAt(m, j) <= o /\ o + w <= EndsAt(m, j)
  BY <1>5
<1>7. w \in {4, 8}
  BY DEF WidthOf
<1> HIDE DEF w, o
<1>8. ASSUME NEW n \in 1 .. unit + 1, NEW k \in Placed(n), IsJump(ItemAt(n, k)), NEW x \in StartsAt(n, k) + 1 .. EndsAt(n, k)
      PROVE  buffer'[x] = buffer[x]
  <2> DEFINE s == StartsAt(n, k)
             e == EndsAt(n, k)
             t == StartsAt(m, j)
             f == EndsAt(m, j)
  <2>1. s \in Nat /\ e \in Nat /\ e <= Len(buffer) /\ t \in Nat /\ f \in Nat /\ t <= o /\ o + w <= f
    BY <1>4, <1>6 DEF Spread
  <2>2. e <= t \/ f <= s
    <3>1. n # m \/ k # j
      BY <1>6, <1>8
    <3>. QED BY <1>4, <3>1 DEF Apart
  <2>3. x \in s + 1 .. e /\ o \in Nat
    BY <1>1, <1>8 DEF o
  <2> HIDE DEF s, e, t, f
  <2>4. x \in 1 .. Len(buffer) /\ ~(x - o \in 1 .. w)
    BY <1>1, <1>7, <2>1, <2>2, <2>3
  <2>5. ~(x - relocs[1].offset \in 1 .. Len(field))
    BY <1>2, <2>4 DEF o, w
  <2>. QED BY <1>1, <1>2, <2>4, <2>5, BytesPatched
<1>9. \A y \in 1 .. Len(relocs') : \E x \in 1 .. Len(relocs) : relocs'[y] = relocs[x]
  <2>1. \A y \in 1 .. Len(relocs') : y + 1 \in 1 .. Len(relocs)
    BY <1>1
  <2>. QED BY <1>1, <2>1
<1>. QED BY <1>1, <1>3, <1>8, <1>9, SpanRests

\* Every step keeps the invariant.
LEMMA SpanStep == TypeInv /\ SpanInv /\ [Next]_vars => SpanInv'
<1> SUFFICES ASSUME TypeInv, SpanInv, [Next]_vars PROVE SpanInv'
  OBVIOUS
<1>1. CASE Emitting
  BY <1>1, SpanEmitting
<1>2. CASE FinishUnit
  BY <1>2, SpanFinishUnit
<1>3. CASE StartEmission
  BY <1>3, SpanStartEmission
<1>4. CASE Relocate
  BY <1>4, SpanRelocate
<1>5. CASE StartRelocation \/ Finish
  <2>1. /\ phase # "size" /\ phase' # "size"
        /\ UNCHANGED <<module, unit, buffer, offsets, gaps, relocs, chunks>>
    BY <1>5 DEF StartRelocation, Finish
  <2>. QED BY <2>1, SpanRests
<1>6. CASE UNCHANGED vars
  <2>1. UNCHANGED <<module, unit, buffer, offsets, gaps, relocs, chunks, phase>>
    BY <1>6 DEF vars
  <2>2. CASE phase = "size"
    BY <2>1, <2>2 DEF SpanInv
  <2>3. CASE phase # "size"
    BY <2>1, <2>3, SpanRests
  <2>. QED BY <2>2, <2>3
<1>. QED BY <1>1, <1>2, <1>3, <1>4, <1>5, <1>6, Steps

(* In every module, at every step of emission and relocation: items      *)
(* never overlap, no relocation touches a jump, every gap belongs to one *)
(* jump that goes forward, and every other jump holds the distance to    *)
(* where its target starts.                                              *)
THEOREM SpansHold == Spec => []SpanInv
<1>1. TypeInv /\ SpanInv /\ [Next]_vars => (TypeInv /\ SpanInv)'
  BY TypeStep, SpanStep
<1>. QED BY <1>1, TypeInit, SpanInit, PTL DEF Spec

(* No jump goes back over 127 or 128 bytes: it takes the short form,     *)
(* whose distance counts from the end of the jump and is -129 or -130.   *)
NoneWraps ==
  \A f \in Functions : \A k \in 1 .. Len(f.items) :
    f.items[k].dst.k = "label" =>
      StartOf(f, f.labels[f.items[k].dst.label] + 1) - StartOf(f, k) \notin {-127, -128}

\* An operand that is a label is that of a jump.
LEMMA OnlyJumpsHaveLabels ==
  ASSUME NEW u, IsUnit(u), NEW k \in 1 .. Len(u.items), ~IsLeaf(u.items[k]), u.items[k].dst.k = "label"
  PROVE  IsJump(u.items[k])
<1> SUFFICES ASSUME ~IsJump(u.items[k]) PROVE FALSE
  OBVIOUS
<1> DEFINE i == u.items[k]
<1>1. IsInstruction(i) /\ i.dst.k = "label"
  BY DEF IsUnit
<1> HIDE DEF i
<1>2. PICK kind, size : IsOperand(kind, i.dst, size)
  BY <1>1 DEF IsInstruction
<1>3. i.dst \in GPRegs \/ i.dst \in XmmRegs \/ i.dst.k \in {"base", "index", "literal", "imm", "symbol"} \/ i.dst = rcx \/ i.dst = None
  BY <1>2 DEF IsOperand, IsAddress
<1>4. i.dst.k # "label"
  <2>1. i.dst \in GPRegs \cup XmmRegs => i.dst.k \in {"gp", "xmm"}
    BY RegisterTyped
  <2>2. rcx.k = "gp" /\ None.k = "none"
    BY DEF rcx, None, Gp
  <2>. QED BY <1>3, <2>1, <2>2
<1>. QED BY <1>1, <1>4

\* Every function is among the units.
LEMMA FunctionUnits ==
  ASSUME module \in Modules, NEW f \in Functions
  PROVE  (\E n \in 1 .. Len(AllUnits) : AllUnits[n] = f) /\ IsUnit(f) /\ \A k \in 1 .. Len(f.items) : ~IsLeaf(f.items[k])
<1> DEFINE a == module.slots
           b == module.functions
<1>1. a \in Seq(Range(a)) /\ b \in Seq(Range(b))
  BY UnitFacts
<1>2. PICK m \in 1 .. Len(b) : f = b[m]
  BY DEF Functions
<1>3. \A u \in Range(b) : IsUnit(u) /\ \A k \in 1 .. Len(u.items) : ~IsLeaf(u.items[k])
  BY UnitFacts
<1>4. AllUnits = a \o b
  BY DEF AllUnits, UnitsOf
<1> HIDE DEF a, b
<1>5. f \in Range(b)
  BY <1>1, <1>2, Ranges
<1>6. IsSequence(a) /\ IsSequence(b)
  BY <1>1, BytesAre
<1>7. Len(AllUnits) = Len(a) + Len(b) /\ AllUnits[Len(a) + m] = b[m]
  BY <1>4, <1>6, BytesJoined
<1>8. Len(a) + m \in 1 .. Len(AllUnits)
  <2>1. Len(a) \in Nat /\ Len(b) \in Nat
    BY <1>6 DEF IsSequence
  <2>. QED BY <1>7, <2>1
<1>. QED BY <1>2, <1>3, <1>5, <1>7, <1>8

\* Once loaded, jumps are read back with the distance to their target.
LEMMA SpansLand == TypeInv /\ SpanInv => (NoneWraps /\ Len(buffer) <= Far => JumpsLand)
<1> SUFFICES ASSUME TypeInv, SpanInv, NoneWraps, Len(buffer) <= Far, Loaded,
                    NEW f \in Functions, NEW k \in 1 .. Len(f.items), f.items[k].dst.k = "label"
             PROVE  EndOf(f, k) + ReadBack(f, k).dst.disp = StartOf(f, f.labels[f.items[k].dst.label] + 1)
  BY DEF JumpsLand
<1>1. phase # "size" /\ Chunked /\ Spread /\ JumpsPlaced
  BY DEF Loaded, SpanInv
<1>2. PICK n \in 1 .. Len(AllUnits) : AllUnits[n] = f
  BY FunctionUnits DEF TypeInv
<1>3. unit = Len(AllUnits) /\ unit \in Nat /\ Len(buffer) \in Nat
  <2>1. unit = Len(Units) /\ Units = AllUnits /\ Len(AllUnits) \in Nat
    BY <1>1, UnitsPlaced DEF TypeInv, Loaded
  <2>. QED BY <2>1 DEF TypeInv, IsSequence
<1>4. n \in 1 .. unit /\ n \in 1 .. unit + 1 /\ n <= unit /\ n # unit + 1
  BY <1>3
<1>5. Offsets(n) = chunks[f.sym].offsets /\ EndOfUnit(n) = chunks[f.sym].start + chunks[f.sym].size
      /\ Len(Offsets(n)) = Len(f.items) /\ k \in Placed(n)
  BY <1>1, <1>2, <1>4 DEF Offsets, EndOfUnit, Chunked, Placed
<1>6. ItemAt(n, k) = f.items[k] /\ IsJump(f.items[k])
  <2>1. IsUnit(f) /\ ~IsLeaf(f.items[k])
    BY FunctionUnits DEF TypeInv
  <2>. QED BY <1>2, <2>1, OnlyJumpsHaveLabels DEF ItemAt
<1>7. IsAJump(ItemAt(n, k)) /\ Target(n, k) \in Placed(n) /\ ~Waits(n, k)
  <2>1. ~Waits(n, k)
    BY <1>4 DEF Waits
  <2>. QED BY <1>1, <1>4, <1>5, <1>6, <2>1, PlacedFacts
<1>8. Target(n, k) = f.labels[f.items[k].dst.label] + 1
  BY <1>2, <1>6 DEF Target
<1>9. /\ StartOf(f, k) = StartsAt(n, k) /\ EndOf(f, k) = EndsAt(n, k)
      /\ StartOf(f, f.labels[f.items[k].dst.label] + 1) = StartsAt(n, Target(n, k))
  BY <1>5, <1>8 DEF StartOf, EndOf, StartsAt, EndsAt
<1> DEFINE i == ItemAt(n, k)
           s == StartsAt(n, k)
           e == EndsAt(n, k)
           t == StartsAt(n, Target(n, k))
<1>10. JumpDone(buffer, i, s, e, t)
  BY <1>1, <1>4, <1>5, <1>6, <1>7 DEF JumpsPlaced
<1>11. s \in Nat /\ e \in Nat /\ e <= Len(buffer) /\ t \in Nat /\ t <= Len(buffer)
  <2>1. s \in Nat /\ e \in Nat /\ e <= Len(buffer)
    BY <1>1, <1>4, <1>5 DEF Spread
  <2> DEFINE r == EndsAt(n, Target(n, k))
  <2>2. t \in Nat /\ r \in Nat /\ t <= r /\ r <= Len(buffer)
    BY <1>1, <1>4, <1>7 DEF Spread
  <2> HIDE DEF s, e, t, r
  <2>. QED BY <1>3, <2>1, <2>2
<1>12. t - s \notin {-127, -128}
  BY <1>9 DEF NoneWraps
<1>13. ReadBack(f, k) = P!Decode(buffer, s + 1).instruction
  BY <1>9 DEF ReadBack
<1>14. IsAJump(i)
  BY <1>7
<1> HIDE DEF i, s, e, t
<1>15. e + P!Decode(buffer, s + 1).instruction.dst.disp = t
  BY <1>3, <1>10, <1>11, <1>12, <1>14, JumpReads
<1>. QED BY <1>9, <1>13, <1>15 DEF s, e, t

(* In every module, whatever its size up to what a distance of four      *)
(* bytes reaches: every jump, short or long, forward or back,            *)
(* conditional or not, leads a processor to the instruction its label    *)
(* was set before, after layout, patches and relocation.                 *)
THEOREM JumpsLandWhereMeant == Spec => [](NoneWraps /\ Len(buffer) <= Far => JumpsLand)
  BY TypeCorrect, SpansHold, SpansLand, PTL

-------------------------------------------------------------------------------
(* How the processor begins to read an instruction, and its operand.       *)

\* The opcode of a byte, or of two, takes its operands in a form whatever stands before it.
TakesOne(h, m, form) == \A wide : P!OneByteForm(h, m, wide).form = form
TakesTwo(h, form)    == \A prefix, wide : P!TwoByteForm(h, prefix, wide).form = form

\* The bytes of an opcode that takes its operands from ModR/M, in a form.
IsOpcode(x, m, form) ==
  \/ \E h \in 0 .. 255 : /\ x = <<h>> /\ h \notin {\h0F, \h66, \hF2, \hF3} /\ h \notin \h40 .. \h4F
                         /\ TakesOne(h, m, form)
  \/ \E h \in 0 .. 255 : x = <<\h0F, h>> /\ TakesTwo(h, form)

\* What may stand before it: a prefix or none, REX or not.
IsPrefix(x) == x \in {<<>>, <<\h66>>, <<\hF2>>, <<\hF3>>}
IsRex(x)    == x = <<>> \/ \E c \in \h40 .. \h4F : x = <<c>>

\* At p an instruction begins whose opcode is at o and whose ModR/M, of a symbol and the digit or register m, is at r.
Begins(code, p, o, r, m, form) ==
  /\ p \in Nat /\ o \in Nat /\ r \in Nat /\ m \in 0 .. 7 /\ form \in {"RM", "MR", "M", "MI"}
  /\ \/ o = p /\ P!At(code, p) \notin {\h66, \hF2, \hF3} /\ P!At(code, p) \notin \h40 .. \h4F
     \/ o = p + 1 /\ P!At(code, p) \in {\h66, \hF2, \hF3} /\ P!At(code, o) \notin \h40 .. \h4F
     \/ o = p + 1 /\ P!At(code, p) \in \h40 .. \h4F
     \/ o = p + 2 /\ P!At(code, p) \in {\h66, \hF2, \hF3} /\ P!At(code, p + 1) \in \h40 .. \h4F
  /\ \/ r = o + 1 /\ P!At(code, o) # \h0F /\ TakesOne(P!At(code, o), m, form)
     \/ r = o + 2 /\ P!At(code, o) = \h0F /\ TakesTwo(P!At(code, o + 1), form)
  /\ P!At(code, r) = 8 * m + 5

\* A memory operand without base is a distance of four bytes.
LEMMA MemoryRead ==
  ASSUME NEW code, NEW r \in Nat, NEW m \in 0 .. 7, P!At(code, r) = 8 * m + 5, NEW x, NEW b \in 0 .. 1
  PROVE  P!MemoryOperand(code, r, x, b).operand = P!Rip(P!SignedField(code, r + 1, 4))
<1> DEFINE a == P!At(code, r)
<1>1. a \div 64 = 0 /\ a % 8 = 5 /\ (5 + 8 * b) % 8 = 5
  OBVIOUS
<1>. QED BY <1>1 DEF P!MemoryOperand

\* The operand of ModR/M is read as the distance.
LEMMA OperandRead ==
  ASSUME NEW code, NEW p, NEW rex \in 0 .. 255, NEW f, NEW o, NEW r \in Nat, NEW m \in 0 .. 7,
         P!At(code, r) = 8 * m + 5, f.form \in {"RM", "MR", "M", "MI"}
  PROVE  /\ f.form = "RM" => P!Operands(code, p, rex, f, o, r).instruction.src = P!Rip(P!SignedField(code, r + 1, 4))
         /\ f.form # "RM" => P!Operands(code, p, rex, f, o, r).instruction.dst = P!Rip(P!SignedField(code, r + 1, 4))
<1> DEFINE rexB   == rex % 2
           rexX   == (rex \div 2) % 2
           rexR   == (rex \div 4) % 2
           modrm  == P!At(code, r)
           digit  == (modrm \div 8) % 8
           hasRm  == f.form \in {"MR", "RM", "M", "MI", "MC"}
           narrow == IF f.op \in {"movzx", "movsx"} THEN f.arg ELSE f.size
           reg    == P!RegisterOperand(f.reg, digit + 8 * rexR, f.size, rex)
           memory == P!MemoryOperand(code, r, rexX, rexB)
           rm     == IF modrm >= 192 THEN P!RegisterOperand(f.rm, (modrm % 8) + 8 * rexB, narrow, rex)
                     ELSE memory.operand
           after  == CASE ~hasRm -> r [] hasRm /\ modrm >= 192 -> r + 1 [] OTHER -> r + memory.len
           imm    == [k |-> "imm", v |-> P!SignedField(code, after, f.imm)]
           low    == P!RegisterOperand("gp", (P!At(code, o) % 8) + 8 * rexB, f.size, rex)
           i      == P!Operands(code, p, rex, f, o, r).instruction
<1>1. i.src = P!Source(f.form, reg, rm, imm) /\ i.dst = P!Destination(f.form, reg, rm, low, imm)
  BY DEF P!Operands
<1>2. rexB \in 0 .. 1
  OBVIOUS
<1>3. memory.operand = P!Rip(P!SignedField(code, r + 1, 4))
  <2> HIDE DEF rexX, rexB
  <2>. QED BY <1>2, MemoryRead
<1>4. ~(modrm >= 192)
  OBVIOUS
<1>5. rm = P!Rip(P!SignedField(code, r + 1, 4))
  BY <1>3, <1>4
<1> HIDE DEF reg, rm, imm, low, i
<1>. QED BY <1>1, <1>5 DEF P!Source, P!Destination, i

\* What is read at p of the operand that has no base.
LEMMA DecodeLiteral ==
  ASSUME NEW code, NEW p, NEW o, NEW r, NEW m, NEW form, Begins(code, p, o, r, m, form)
  PROVE  /\ form = "RM" => P!Decode(code, p).instruction.src.disp = P!SignedField(code, r + 1, 4)
         /\ form # "RM" => P!Decode(code, p).instruction.dst.disp = P!SignedField(code, r + 1, 4)
<1> DEFINE prefix == IF P!At(code, p) \in {\h66, \hF2, \hF3} THEN P!At(code, p) ELSE 0
           q      == IF prefix = 0 THEN p ELSE p + 1
           rex    == IF P!At(code, q) \in \h40..\h4F THEN P!At(code, q) ELSE 0
           wide   == IF rex >= \h48 THEN 8 ELSE IF prefix = \h66 THEN 2 ELSE 4
           digit  == (P!At(code, o + 1) \div 8) % 8
           one    == P!OneByteForm(P!At(code, o), digit, wide)
           two    == P!TwoByteForm(P!At(code, o + 1), prefix, wide)
<1>1. p \in Nat /\ o \in Nat /\ r \in Nat /\ m \in 0 .. 7 /\ form \in {"RM", "MR", "M", "MI"} /\ P!At(code, r) = 8 * m + 5
  BY DEF Begins
<1>2. (IF rex = 0 THEN q ELSE q + 1) = o /\ rex \in 0 .. 255
  <2>1. CASE o = p /\ P!At(code, p) \notin {\h66, \hF2, \hF3} /\ P!At(code, p) \notin \h40 .. \h4F
    BY <2>1
  <2>2. CASE o = p + 1 /\ P!At(code, p) \in {\h66, \hF2, \hF3} /\ P!At(code, o) \notin \h40 .. \h4F
    BY <2>2
  <2>3. CASE o = p + 1 /\ P!At(code, p) \in \h40 .. \h4F
    <3>1. prefix = 0 /\ q = p
      BY <2>3
    <3>2. rex = P!At(code, p) /\ rex # 0 /\ rex \in 0 .. 255
      BY <2>3, <3>1
    <3>. QED BY <2>3, <3>1, <3>2
  <2>4. CASE o = p + 2 /\ P!At(code, p) \in {\h66, \hF2, \hF3} /\ P!At(code, p + 1) \in \h40 .. \h4F
    <3>1. q = p + 1
      BY <2>4
    <3>2. rex = P!At(code, p + 1) /\ rex # 0 /\ rex \in 0 .. 255
      BY <2>4, <3>1
    <3>. QED BY <1>1, <2>4, <3>1, <3>2
  <2>. QED BY <2>1, <2>2, <2>3, <2>4 DEF Begins
<1>3. P!Decode(code, p) = P!Opcode(code, p, prefix, rex, o)
  <2>1. P!Decode(code, p) = P!Opcode(code, p, prefix, rex, IF rex = 0 THEN q ELSE q + 1)
    BY DEF P!Decode
  <2> HIDE DEF rex, q, prefix
  <2>. QED BY <1>2, <2>1
<1>4. P!Opcode(code, p, prefix, rex, o)
        = IF P!At(code, o) = \h0F THEN P!Operands(code, p, rex, two, o, o + 2) ELSE P!Operands(code, p, rex, one, o, o + 1)
  <2> HIDE DEF rex, prefix
  <2>. QED BY DEF P!Opcode
<1> HIDE DEF rex, prefix, q, wide
<1>5. CASE r = o + 1 /\ P!At(code, o) # \h0F /\ TakesOne(P!At(code, o), m, form)
  <2>1. digit = m
    <3>1. P!At(code, o + 1) = 8 * m + 5
      BY <1>1, <1>5
    <3>. QED BY <1>1, <3>1
  <2>2. one.form = form
    BY <1>5, <2>1 DEF TakesOne
  <2>3. P!Decode(code, p) = P!Operands(code, p, rex, one, o, r)
    BY <1>3, <1>4, <1>5
  <2> HIDE DEF one, digit
  <2> DEFINE read == P!SignedField(code, r + 1, 4)
  <2>4. one.form \in {"RM", "MR", "M", "MI"} /\ rex \in 0 .. 255
    BY <1>1, <1>2, <2>2
  <2>5. /\ one.form = "RM" => P!Operands(code, p, rex, one, o, r).instruction.src = P!Rip(read)
        /\ one.form # "RM" => P!Operands(code, p, rex, one, o, r).instruction.dst = P!Rip(read)
    BY <1>1, <2>4, OperandRead
  <2>6. P!Rip(read).disp = read
    BY DEF P!Rip
  <2> HIDE DEF read
  <2>. QED BY <2>2, <2>3, <2>5, <2>6 DEF read
<1>6. CASE r = o + 2 /\ P!At(code, o) = \h0F /\ TakesTwo(P!At(code, o + 1), form)
  <2>2. two.form = form
    BY <1>6 DEF TakesTwo
  <2>3. P!Decode(code, p) = P!Operands(code, p, rex, two, o, r)
    BY <1>3, <1>4, <1>6
  <2> HIDE DEF two, digit
  <2> DEFINE read == P!SignedField(code, r + 1, 4)
  <2>4. two.form \in {"RM", "MR", "M", "MI"} /\ rex \in 0 .. 255
    BY <1>1, <1>2, <2>2
  <2>5. /\ two.form = "RM" => P!Operands(code, p, rex, two, o, r).instruction.src = P!Rip(read)
        /\ two.form # "RM" => P!Operands(code, p, rex, two, o, r).instruction.dst = P!Rip(read)
    BY <1>1, <2>4, OperandRead
  <2>6. P!Rip(read).disp = read
    BY DEF P!Rip
  <2> HIDE DEF read
  <2>. QED BY <2>2, <2>3, <2>5, <2>6 DEF read
<1>. QED BY <1>5, <1>6 DEF Begins

-------------------------------------------------------------------------------
(* The opcodes of the forms the encoder uses.                              *)

\* The opcodes of one byte, and of two after the first, by the form they take their operands in.
MRCodes  == {\h01, \h00, \h09, \h08, \h20, \h21, \h29, \h28, \h31, \h30, \h39, \h38, \h85, \h84, \h89, \h88}
RMCodes  == {\h03, \h02, \h0B, \h0A, \h22, \h23, \h2B, \h2A, \h33, \h32, \h3B, \h3A, \h8B, \h8A, \h8D, \h63}
MICodes  == {\h81, \h80, \hC7, \hC6, \hC1, \hC0}
RM2Codes == (\h40 .. \h4F) \cup {\hB6, \hB7, \hBE, \hBF, \h10, \h2A, \h2C, \h2E, \h2F, \h57, \h58, \h5E}

\* How opcodes of one byte take their operands.
LEMMA OneByteForms ==
  ASSUME NEW h, NEW m
  PROVE  /\ h \in MRCodes => TakesOne(h, m, "MR")
         /\ h \in RMCodes => TakesOne(h, m, "RM")
         /\ h \in MICodes => TakesOne(h, m, "MI")
         /\ h \in {\hFF, \h8F} \/ (h \in {\hF7, \hF6} /\ m \in 2 .. 7) => TakesOne(h, m, "M")
<1>0. SUFFICES ASSUME NEW wide
               PROVE  /\ h \in MRCodes => P!OneByteForm(h, m, wide).form = "MR"
                      /\ h \in RMCodes => P!OneByteForm(h, m, wide).form = "RM"
                      /\ h \in MICodes => P!OneByteForm(h, m, wide).form = "MI"
                      /\ h \in {\hFF, \h8F} \/ (h \in {\hF7, \hF6} /\ m \in 2 .. 7) =>
                           P!OneByteForm(h, m, wide).form = "M"
  BY DEF TakesOne
<1>1. ASSUME h \in {\h01, \h00, \h09, \h08, \h20, \h21, \h29, \h28, \h31, \h30, \h39, \h38}
      PROVE  P!OneByteForm(h, m, wide).form = "MR"
  <2>1. h < 64 /\ h % 8 < 2
    BY <1>1
  <2>2. h \in 0 .. 63
    BY <1>1
  <2>3. P!OneByteForm(h, m, wide) = P!Form(P!Alu[h \div 8 + 1], "MR", IF h % 2 = 0 THEN 1 ELSE wide, 0)
    BY <2>1, <2>2, SMTT(60) DEF P!OneByteForm
  <2>. QED BY <2>3 DEF P!Form
<1>2. ASSUME h \in {\h03, \h02, \h0B, \h0A, \h22, \h23, \h2B, \h2A, \h33, \h32, \h3B, \h3A}
      PROVE  P!OneByteForm(h, m, wide).form = "RM"
  <2>1. h < 64 /\ h % 8 \in {2, 3}
    BY <1>2
  <2>2. h \in 0 .. 63
    BY <1>2
  <2>3. P!OneByteForm(h, m, wide) = P!Form(P!Alu[h \div 8 + 1], "RM", IF h % 2 = 0 THEN 1 ELSE wide, 0)
    BY <2>1, <2>2, SMTT(60) DEF P!OneByteForm
  <2>. QED BY <2>3 DEF P!Form
<1>3. ASSUME h \in {\h85, \h84, \h89, \h88} PROVE  P!OneByteForm(h, m, wide).form = "MR"
  BY <1>3, SMTT(60) DEF P!OneByteForm, P!Form
<1>4. ASSUME h \in {\h8B, \h8A, \h8D, \h63} PROVE P!OneByteForm(h, m, wide).form = "RM"
  BY <1>4, SMTT(60) DEF P!OneByteForm, P!Form, P!Extension
<1>5. ASSUME h \in {\h81, \h80, \hC7, \hC6, \hC1, \hC0} PROVE P!OneByteForm(h, m, wide).form = "MI"
  BY <1>5, SMTT(60) DEF P!OneByteForm, P!Form
<1>6. ASSUME h \in {\hFF, \h8F} \/ (h \in {\hF7, \hF6} /\ m \in 2 .. 7)
      PROVE  P!OneByteForm(h, m, wide).form = "M"
  BY <1>6, SMTT(60) DEF P!OneByteForm, P!Form
<1>. QED BY <1>1, <1>2, <1>3, <1>4, <1>5, <1>6 DEF MRCodes, RMCodes, MICodes

\* How those of two bytes do.
LEMMA TwoByteForms ==
  ASSUME NEW h
  PROVE  /\ h \in RM2Codes => TakesTwo(h, "RM")
         /\ h = \h11 => TakesTwo(h, "MR")
<1>0. SUFFICES ASSUME NEW prefix, NEW wide
               PROVE  /\ h \in RM2Codes => P!TwoByteForm(h, prefix, wide).form = "RM"
                      /\ h = \h11 => P!TwoByteForm(h, prefix, wide).form = "MR"
  BY DEF TakesTwo
<1>1. ASSUME h \in \h40 .. \h4F PROVE P!TwoByteForm(h, prefix, wide).form = "RM"
  BY <1>1, SMTT(60) DEF P!TwoByteForm, P!Form, P!Conditional
<1>2. ASSUME h \in {\hB6, \hB7, \hBE, \hBF} PROVE P!TwoByteForm(h, prefix, wide).form = "RM"
  BY <1>2, SMTT(60) DEF P!TwoByteForm, P!Form, P!Extension
<1>3. ASSUME h \in {\h10, \h2E, \h2F, \h57, \h58, \h5E} PROVE P!TwoByteForm(h, prefix, wide).form = "RM"
  BY <1>3, SMTT(60) DEF P!TwoByteForm, P!Scalar, P!Form
<1>4. ASSUME h \in {\h2A, \h2C} PROVE P!TwoByteForm(h, prefix, wide).form = "RM"
  BY <1>4, SMTT(60) DEF P!TwoByteForm, P!Scalar, P!Form
<1>5. ASSUME h \in {\h11} PROVE P!TwoByteForm(h, prefix, wide).form = "MR"
  BY <1>5, SMTT(60) DEF P!TwoByteForm, P!Scalar, P!Form
<1>6. h = \h11 => h \in {\h11}
  OBVIOUS
<1>. QED BY <1>1, <1>2, <1>3, <1>4, <1>5, <1>6 DEF RM2Codes

-------------------------------------------------------------------------------
(* An instruction whose operand names a symbol: what the relocation makes  *)
(* the processor read.                                                     *)

\* What stands before ModR/M: prefix, REX and opcode.
IsHead(front, m, form) ==
  \E pre, rex, op : IsPrefix(pre) /\ IsRex(rex) /\ IsOpcode(op, m, form) /\ front = pre \o rex \o op

\* The four bytes after a position hold a value.
Holds(b, at, v) == \A j \in 1 .. 4 : b[at + j] = LittleEndian(v, 4)[j]

\* The bytes after s are those emitted, but for the field of the relocation.
Kept(b, e, s) ==
  \A x \in 1 .. Len(e.bytes) : (e.relocs = <<>> \/ x - e.relocs[1].offset \notin 1 .. 4) => b[s + x] = e.bytes[x]

\* What is emitted refers to d bytes after a symbol: its relocation makes the processor read how far that is.
Leads(e, sym, d, side) ==
  \E r : /\ e.relocs = <<r>>
         /\ r.sym = sym /\ r.type = (IF sym.bind = "external" THEN "PLT32" ELSE "PC32")
         /\ r.offset \in Nat /\ r.offset + 4 <= Len(e.bytes) /\ r.disp = Len(e.bytes) - d
         /\ \A b, s, v :
              (/\ Len(b) \in Nat /\ s \in Nat /\ s + Len(e.bytes) <= Len(b)
               /\ v \in Int /\ -Far - 1 <= v /\ v <= Far /\ Kept(b, e, s) /\ Holds(b, s + r.offset, v))
              => /\ side = "src" => P!Decode(b, s + 1).instruction.src.disp = v
                 /\ side = "dst" => P!Decode(b, s + 1).instruction.dst.disp = v

\* A head of a bytes of prefix, b of REX and c of opcode.
HeadOf(front, m, form, a, b, c) ==
  /\ Len(front) = a + b + c
  /\ a = 1 => front[1] \in {\h66, \hF2, \hF3}
  /\ b = 1 => front[a + 1] \in \h40 .. \h4F
  /\ front[a + b + 1] \notin {\h66, \hF2, \hF3} /\ front[a + b + 1] \notin \h40 .. \h4F
  /\ c = 1 => /\ front[a + b + 1] # \h0F
              /\ TakesOne(front[a + b + 1], m, form)
  /\ c = 2 => /\ front[a + b + 1] = \h0F
              /\ TakesTwo(front[a + b + 2], form)

\* Two sequences put together, byte by byte.
LEMMA JoinedBytes ==
  ASSUME NEW a \in Seq(Int), NEW b \in Seq(Int), NEW c, c = a \o b
  PROVE  /\ c \in Seq(Int) /\ Len(c) = Len(a) + Len(b) /\ Len(a) \in Nat /\ Len(b) \in Nat
         /\ \A x \in 1 .. Len(a) : c[x] = a[x]
         /\ \A x \in 1 .. Len(b) : c[Len(a) + x] = b[x]
  OBVIOUS

\* The bytes of a head, one by one.
LEMMA HeadBytes ==
  ASSUME NEW front, NEW m, NEW form, IsHead(front, m, form)
  PROVE  /\ front \in Seq(Int) /\ Len(front) > 0
         /\ \E a \in 0 .. 1, b \in 0 .. 1, c \in 1 .. 2 : HeadOf(front, m, form, a, b, c)
<1>1. PICK pre, rex, op : IsPrefix(pre) /\ IsRex(rex) /\ IsOpcode(op, m, form) /\ front = pre \o rex \o op
  BY DEF IsHead
<1>2. pre \in Seq(Int) /\ Len(pre) \in 0 .. 1 /\ (Len(pre) = 1 => pre[1] \in {\h66, \hF2, \hF3})
  <2>1. ASSUME NEW h \in {\h66, \hF2, \hF3}, pre = <<h>> PROVE pre \in Seq(Int) /\ Len(pre) = 1 /\ pre[1] = h
    BY <2>1
  <2>2. CASE pre = <<>>
    BY <2>2
  <2>3. pre = <<>> \/ \E h \in {\h66, \hF2, \hF3} : pre = <<h>>
    BY <1>1 DEF IsPrefix
  <2>. QED BY <2>1, <2>2, <2>3
<1>3. rex \in Seq(Int) /\ Len(rex) \in 0 .. 1 /\ (Len(rex) = 1 => rex[1] \in \h40 .. \h4F)
  <2>1. CASE rex = <<>>
    BY <2>1
  <2>2. ASSUME NEW c \in \h40 .. \h4F, rex = <<c>>
        PROVE  rex \in Seq(Int) /\ Len(rex) = 1 /\ rex[1] = c
    BY <2>2
  <2>. QED BY <1>1, <2>1, <2>2 DEF IsRex
<1>4. /\ op \in Seq(Int) /\ Len(op) \in 1 .. 2
      /\ op[1] \notin {\h66, \hF2, \hF3} /\ op[1] \notin \h40 .. \h4F
      /\ Len(op) = 1 => op[1] # \h0F /\ TakesOne(op[1], m, form)
      /\ Len(op) = 2 => op[1] = \h0F /\ TakesTwo(op[2], form)
  <2>1. ASSUME NEW h \in 0 .. 255, op = <<h>>
        PROVE  op \in Seq(Int) /\ Len(op) = 1 /\ op[1] = h
    BY <2>1
  <2>2. ASSUME NEW h \in 0 .. 255, op = <<\h0F, h>>
        PROVE  op \in Seq(Int) /\ Len(op) = 2 /\ op[1] = \h0F /\ op[2] = h
    BY <2>2
  <2>3. CASE \E h \in 0 .. 255 : /\ op = <<h>> /\ h \notin {\h0F, \h66, \hF2, \hF3} /\ h \notin \h40 .. \h4F
                               /\ TakesOne(h, m, form)
    BY <2>1, <2>3
  <2>4. CASE \E h \in 0 .. 255 : op = <<\h0F, h>> /\ TakesTwo(h, form)
    BY <2>2, <2>4
  <2>. QED BY <1>1, <2>3, <2>4 DEF IsOpcode
<1> DEFINE a == Len(pre)
           b == Len(rex)
           c == Len(op)
<1>5. /\ front \in Seq(Int) /\ Len(front) = a + b + c
      /\ a = 1 => front[1] = pre[1]
      /\ b = 1 => front[a + 1] = rex[1]
      /\ front[a + b + 1] = op[1]
      /\ c = 2 => front[a + b + 2] = op[2]
  <2> DEFINE two == pre \o rex
  <2>1. two \in Seq(Int) /\ Len(two) = a + b /\ (a = 1 => two[1] = pre[1]) /\ (b = 1 => two[a + 1] = rex[1])
    BY <1>2, <1>3, JoinedBytes
  <2>2. front = two \o op
    BY <1>1
  <2> HIDE DEF two
  <2>3. /\ front \in Seq(Int) /\ Len(front) = Len(two) + Len(op)
        /\ \A x \in 1 .. Len(two) : front[x] = two[x]
        /\ \A x \in 1 .. Len(op) : front[Len(two) + x] = op[x]
    <3>1. two \in Seq(Int) /\ op \in Seq(Int)
      BY <2>1, <1>4
    <3>. QED BY <3>1, <2>2, JoinedBytes
  <2>4. a \in 0 .. 1 /\ b \in 0 .. 1 /\ c \in 1 .. 2
    BY <1>2, <1>3, <1>4
  <2>5. c = Len(op)
    OBVIOUS
  <2> HIDE DEF a, b, c
  <2>. QED BY <2>1, <2>3, <2>4, <2>5
<1> HIDE DEF a, b, c
<1>6. a \in 0 .. 1 /\ b \in 0 .. 1 /\ c \in 1 .. 2
  BY <1>2, <1>3, <1>4 DEF a, b, c
<1>7. Len(front) > 0
  BY <1>5, <1>6
<1>8. HeadOf(front, m, form, a, b, c)
  BY <1>2, <1>3, <1>4, <1>5 DEF a, b, c, HeadOf
<1>. QED BY <1>5, <1>6, <1>7, <1>8

\* Where a head is read, an instruction begins.
LEMMA HeadBegins ==
  ASSUME NEW front, NEW m \in 0 .. 7, NEW form \in {"RM", "MR", "M", "MI"}, IsHead(front, m, form),
         NEW code, NEW s \in Nat, \A x \in 1 .. Len(front) : P!At(code, s + x) = front[x],
         P!At(code, s + Len(front) + 1) = 8 * m + 5
  PROVE  \E o : Begins(code, s + 1, o, s + Len(front) + 1, m, form)
<1>1. front \in Seq(Int) /\ Len(front) > 0
  BY HeadBytes
<1>2. PICK a \in 0 .. 1, b \in 0 .. 1, c \in 1 .. 2 : HeadOf(front, m, form, a, b, c)
  BY HeadBytes
<1> DEFINE p == s + 1
           o == s + a + b + 1
           r == s + Len(front) + 1
<1>3. p \in Nat /\ o \in Nat /\ r \in Nat /\ o = p + a + b /\ r = o + c
  BY <1>1, <1>2 DEF HeadOf
<1>4. /\ P!At(code, o) = front[a + b + 1]
      /\ c = 2 => P!At(code, o + 1) = front[a + b + 2]
      /\ a = 1 => P!At(code, p) = front[1]
      /\ b = 1 => P!At(code, p + a) = front[a + 1]
  <2>1. ASSUME NEW x \in 1 .. (a + b + c) PROVE P!At(code, s + x) = front[x]
    BY <1>2 DEF HeadOf
  <2>2. P!At(code, s + (a + b + 1)) = front[a + b + 1] /\ s + (a + b + 1) = o
    BY <2>1
  <2>3. c = 2 => P!At(code, s + (a + b + 2)) = front[a + b + 2] /\ s + (a + b + 2) = o + 1
    BY <2>1
  <2>4. a = 1 => P!At(code, s + 1) = front[1]
    BY <2>1
  <2>5. b = 1 => P!At(code, s + (a + 1)) = front[a + 1] /\ s + (a + 1) = p + a
    BY <2>1
  <2>. QED BY <2>2, <2>3, <2>4, <2>5
<1>5. P!At(code, r) = 8 * m + 5
  OBVIOUS
<1> HIDE DEF p, o, r
<1>6. \/ o = p /\ P!At(code, p) \notin {\h66, \hF2, \hF3} /\ P!At(code, p) \notin \h40 .. \h4F
      \/ o = p + 1 /\ P!At(code, p) \in {\h66, \hF2, \hF3} /\ P!At(code, o) \notin \h40 .. \h4F
      \/ o = p + 1 /\ P!At(code, p) \in \h40 .. \h4F
      \/ o = p + 2 /\ P!At(code, p) \in {\h66, \hF2, \hF3} /\ P!At(code, p + 1) \in \h40 .. \h4F
  <2>1. CASE a = 0 /\ b = 0
    <3>1. o = p
      BY <1>3, <2>1
    <3>. QED BY <1>2, <1>4, <2>1, <3>1 DEF HeadOf
  <2>2. CASE a = 1 /\ b = 0
    <3>1. o = p + 1
      BY <1>3, <2>2
    <3>. QED BY <1>2, <1>4, <2>2, <3>1 DEF HeadOf
  <2>3. CASE a = 0 /\ b = 1
    <3>1. o = p + 1 /\ p + a = p
      BY <1>3, <2>3
    <3>. QED BY <1>2, <1>4, <2>3, <3>1 DEF HeadOf
  <2>4. CASE a = 1 /\ b = 1
    <3>1. o = p + 2 /\ p + a = p + 1
      BY <1>3, <2>4
    <3>. QED BY <1>2, <1>4, <2>4, <3>1 DEF HeadOf
  <2>. QED BY <2>1, <2>2, <2>3, <2>4
<1>7. \/ r = o + 1 /\ P!At(code, o) # \h0F /\ TakesOne(P!At(code, o), m, form)
      \/ r = o + 2 /\ P!At(code, o) = \h0F /\ TakesTwo(P!At(code, o + 1), form)
  <2>1. CASE c = 1
    BY <1>2, <1>3, <1>4, <2>1 DEF HeadOf
  <2>2. CASE c = 2
    BY <1>2, <1>3, <1>4, <2>2 DEF HeadOf
  <2>. QED BY <2>1, <2>2
<1>8. Begins(code, p, o, r, m, form)
  BY <1>3, <1>5, <1>6, <1>7 DEF Begins
<1>. QED BY <1>8 DEF p, r

\* The scheme with ModR/M, for a symbol: the distance of the relocation is that to the end of the instruction.
LEMMA EmitLeads ==
  ASSUME NEW front, NEW m \in 0 .. 7, NEW form \in {"RM", "MR", "M", "MI"}, IsHead(front, m, form),
         NEW o, o.k = "literal", o.disp \in Int, o.sym.bind \in {"external", "internal"}, NEW imm \in Seq(Int)
  PROVE  Leads(Emit(front, m, o, Len(imm), imm), o.sym, o.disp, IF form = "RM" THEN "src" ELSE "dst")
<1> DEFINE operand == EmitOperands(m, o)
           bytes == front \o operand \o imm
           end == Len(front) + Len(operand)
           r == LiteralRelocation(o, end, Len(imm))
           e == Emit(front, m, o, Len(imm), imm)
           n == Len(front)
<1>1. operand = <<8 * m + 5>> \o Unpatched
  BY DEF EmitOperands, EncodeLiteral, IsRegister
<1>2. operand \in Seq(Int) /\ Len(operand) = 5 /\ operand[1] = 8 * m + 5
  BY <1>1 DEF Unpatched
<1>3. e = [bytes |-> bytes, relocs |-> <<r>>]
  BY DEF Emit
<1> HIDE DEF operand, e
<1>4. front \in Seq(Int) /\ n > 0 /\ n \in Nat
  BY HeadBytes
<1>5. /\ Len(bytes) = n + 5 + Len(imm) /\ Len(imm) \in Nat
      /\ \A x \in 1 .. n : bytes[x] = front[x]
      /\ bytes[n + 1] = 8 * m + 5
  <2> DEFINE two == front \o operand
  <2>1. two \in Seq(Int) /\ Len(two) = n + 5 /\ (\A x \in 1 .. n : two[x] = front[x]) /\ two[n + 1] = 8 * m + 5
    <3>1. two = front \o operand
      OBVIOUS
    <3> HIDE DEF two
    <3>2. /\ two \in Seq(Int) /\ Len(two) = Len(front) + Len(operand)
          /\ \A x \in 1 .. Len(front) : two[x] = front[x]
          /\ \A x \in 1 .. Len(operand) : two[Len(front) + x] = operand[x]
      <4>1. front \in Seq(Int) /\ operand \in Seq(Int)
        BY <1>2, <1>4
      <4>. QED BY <3>1, <4>1, JoinedBytes
    <3>. QED BY <1>2, <1>4, <3>2
  <2>2. bytes = two \o imm
    OBVIOUS
  <2> HIDE DEF two, bytes
  <2>3. Len(bytes) = Len(two) + Len(imm) /\ Len(imm) \in Nat /\ \A x \in 1 .. Len(two) : bytes[x] = two[x]
    BY <2>1, <2>2, JoinedBytes
  <2> HIDE DEF n, bytes
  <2>. QED BY <1>4, <2>1, <2>3
<1>6. end = n + 5
  BY <1>2
<1>7. /\ r.sym = o.sym /\ r.type = (IF o.sym.bind = "external" THEN "PLT32" ELSE "PC32")
      /\ r.offset = n + 1 /\ r.disp = n + 5 + Len(imm) - o.disp
  <2>1. r = [type |-> RelType(o.sym), offset |-> end - 4, disp |-> end + Len(imm) - o.disp, sym |-> o.sym]
    BY DEF LiteralRelocation
  <2>2. RelType(o.sym) = IF o.sym.bind = "external" THEN "PLT32" ELSE "PC32"
    BY DEF RelType
  <2> HIDE DEF r, end
  <2>3. r.type = RelType(o.sym) /\ r.offset = end - 4 /\ r.disp = end + Len(imm) - o.disp /\ r.sym = o.sym
    BY <2>1
  <2>4. end - 4 = n + 1
    BY <1>4, <1>6
  <2>. QED BY <1>6, <2>2, <2>3, <2>4
<1> HIDE DEF r, bytes, end
<1>8. e.bytes = bytes /\ e.relocs = <<r>> /\ e.relocs[1] = r
  BY <1>3
<1>9. ASSUME NEW b, NEW s, NEW v, Len(b) \in Nat, s \in Nat, s + Len(e.bytes) <= Len(b),
             v \in Int, -Far - 1 <= v, v <= Far, Kept(b, e, s), Holds(b, s + r.offset, v)
      PROVE  /\ form = "RM" => P!Decode(b, s + 1).instruction.src.disp = v
             /\ form # "RM" => P!Decode(b, s + 1).instruction.dst.disp = v
  <2>1. s + n + 5 <= Len(b)
    BY <1>5, <1>8, <1>9, <1>4
  <2>2. \A x \in 1 .. (n + 5) : P!At(b, s + x) = b[s + x]
    BY <1>4, <1>9, <2>1 DEF P!At
  <2>3. \A x \in 1 .. (n + 1) : b[s + x] = bytes[x]
    <3> SUFFICES ASSUME NEW x \in 1 .. (n + 1) PROVE b[s + x] = bytes[x]
      OBVIOUS
    <3>1. x \in 1 .. Len(bytes) /\ x - (n + 1) \notin 1 .. 4
      BY <1>4, <1>5
    <3>2. x - e.relocs[1].offset \notin 1 .. 4
      BY <1>7, <1>8, <3>1
    <3>. QED BY <1>8, <1>9, <3>1, <3>2 DEF Kept
  <2>4. \A x \in 1 .. n : P!At(b, s + x) = front[x]
    BY <1>4, <1>5, <2>2, <2>3
  <2>5. P!At(b, s + n + 1) = 8 * m + 5
    <3>1. n + 1 \in 1 .. (n + 5) /\ n + 1 \in 1 .. (n + 1) /\ s + (n + 1) = s + n + 1
      BY <1>4, <1>9
    <3>. QED BY <1>5, <2>2, <2>3, <3>1
  <2>6. PICK q : Begins(b, s + 1, q, s + n + 1, m, form)
    BY <1>9, <2>4, <2>5, HeadBegins
  <2>7. P!SignedField(b, (s + n + 1) + 1, 4) = v
    <3>1. \A j \in 1 .. 4 : P!At(b, ((s + n + 1) + 1) + j - 1) = LittleEndian(v, 4)[j]
      <4> SUFFICES ASSUME NEW j \in 1 .. 4 PROVE P!At(b, ((s + n + 1) + 1) + j - 1) = LittleEndian(v, 4)[j]
        OBVIOUS
      <4>1. n + 1 + j \in 1 .. (n + 5) /\ ((s + n + 1) + 1) + j - 1 = s + (n + 1 + j) /\ s + (n + 1 + j) = (s + (n + 1)) + j
        BY <1>4, <1>9
      <4>2. b[(s + (n + 1)) + j] = LittleEndian(v, 4)[j]
        BY <1>7, <1>9 DEF Holds
      <4>. QED BY <2>2, <4>1, <4>2
    <3>2. (s + n + 1) + 1 \in Int
      BY <1>4, <1>9
    <3>. QED BY <1>9, <3>1, <3>2, ReadsLong
  <2>. QED BY <2>6, <2>7, DecodeLiteral
<1>10. r.offset \in Nat /\ r.offset + 4 <= Len(e.bytes) /\ r.disp = Len(e.bytes) - o.disp
  BY <1>4, <1>5, <1>7, <1>8
<1> HIDE DEF n
<1>. QED BY <1>7, <1>8, <1>9, <1>10 DEF Leads, e

-------------------------------------------------------------------------------
(* Each scheme of the encoder, with an operand that names a symbol.        *)

\* The opcodes of the assembler.
LEMMA OpcodesKnown ==
  ASSUME NEW m \in 0 .. 7, NEW h
  PROVE  /\ h \in MRCodes => IsOpcode(<<h>>, m, "MR")
         /\ h \in RMCodes => IsOpcode(<<h>>, m, "RM")
         /\ h \in MICodes => IsOpcode(<<h>>, m, "MI")
         /\ h \in {\hFF, \h8F} => IsOpcode(<<h>>, m, "M")
         /\ h \in {\hF7, \hF6} /\ m > 1 => IsOpcode(<<h>>, m, "M")
         /\ h \in RM2Codes => IsOpcode(<<\h0F, h>>, m, "RM")
         /\ h = \h11 => IsOpcode(<<\h0F, h>>, m, "MR")
<1>1. h \in MRCodes \cup RMCodes \cup MICodes \cup {\hFF, \h8F, \hF7, \hF6} =>
        h \in 0 .. 255 /\ h \notin {\h0F, \h66, \hF2, \hF3} /\ h \notin \h40 .. \h4F
  BY DEF MRCodes, RMCodes, MICodes
<1>2. h \in RM2Codes \cup {\h11} => h \in 0 .. 255
  BY DEF RM2Codes
<1>3. h \in {\hF7, \hF6} /\ m > 1 => m \in 2 .. 7
  OBVIOUS
<1>4. \A form : /\ h \in 0 .. 255 /\ h \notin {\h0F, \h66, \hF2, \hF3} /\ h \notin \h40 .. \h4F /\ TakesOne(h, m, form)
                     => IsOpcode(<<h>>, m, form)
                /\ h \in 0 .. 255 /\ TakesTwo(h, form) => IsOpcode(<<\h0F, h>>, m, form)
  BY DEF IsOpcode
<1>5. h \in MRCodes => IsOpcode(<<h>>, m, "MR")
  BY <1>1, <1>4, OneByteForms
<1>6. h \in RMCodes => IsOpcode(<<h>>, m, "RM")
  BY <1>1, <1>4, OneByteForms
<1>7. h \in MICodes => IsOpcode(<<h>>, m, "MI")
  BY <1>1, <1>4, OneByteForms
<1>8. /\ h \in {\hFF, \h8F} => IsOpcode(<<h>>, m, "M")
      /\ h \in {\hF7, \hF6} /\ m > 1 => IsOpcode(<<h>>, m, "M")
  BY <1>1, <1>3, <1>4, OneByteForms
<1>9. /\ h \in RM2Codes => IsOpcode(<<\h0F, h>>, m, "RM")
      /\ h = \h11 => IsOpcode(<<\h0F, h>>, m, "MR")
  BY <1>2, <1>4, TwoByteForms
<1>. QED BY <1>5, <1>6, <1>7, <1>8, <1>9

\* An address that is a symbol and a distance.
IsLit(o) == o.k = "literal" /\ o.disp \in Int /\ o.sym.bind \in {"external", "internal"}

\* Before an opcode there is a prefix of the size, and REX, or not.
LEMMA PrologueIs ==
  ASSUME NEW reg, IsReg(reg) \/ reg = None, NEW rm, IsLit(rm)
  PROVE  /\ \A size : IsPrefix(AddWordOpSize(size))
         /\ \A size, narrow, looked : IsRex(Rex(size, narrow, looked, reg, rm))
<1>1. \A size : IsPrefix(AddWordOpSize(size))
  BY DEF IsPrefix, AddWordOpSize
<1>2. R(reg) \in {0, 4}
  <2>1. Bit(Is64BitReg(reg)) \in 0 .. 1
    BY DEF Bit
  <2>. QED BY <2>1 DEF R
<1>3. X(rm) = 0 /\ B(rm) = 0
  BY DEF X, B, IsLit, IsRegister
<1>4. ASSUME NEW size, NEW narrow, NEW looked PROVE IsRex(Rex(size, narrow, looked, reg, rm))
  <2> DEFINE code == 64 + (IF size = 8 THEN 8 ELSE 0) + R(reg) + X(rm) + B(rm)
  <2>1. code \in \h40 .. \h4F
    BY <1>2, <1>3
  <2>2. Rex(size, narrow, looked, reg, rm) \in {<<>>, <<code>>}
    BY DEF Rex
  <2> HIDE DEF code
  <2>. QED BY <2>1, <2>2 DEF IsRex
<1>. QED BY <1>1, <1>4

\* Prefix, REX and opcode, then the symbol.
LEMMA PartsLead ==
  ASSUME NEW pre, IsPrefix(pre), NEW rex, IsRex(rex), NEW op, NEW m \in 0 .. 7,
         NEW form \in {"RM", "MR", "M", "MI"}, IsOpcode(op, m, form), NEW o, IsLit(o), NEW imm \in Seq(Int)
  PROVE  Leads(Emit(pre \o rex \o op, m, o, Len(imm), imm), o.sym, o.disp, IF form = "RM" THEN "src" ELSE "dst")
<1> DEFINE front == pre \o rex \o op
<1>1. IsHead(front, m, form)
  BY DEF IsHead
<1> HIDE DEF front
<1>2. Leads(Emit(front, m, o, Len(imm), imm), o.sym, o.disp, IF form = "RM" THEN "src" ELSE "dst")
  BY <1>1, EmitLeads DEF IsLit
<1>. QED BY <1>2 DEF front

\* The same with nothing after it.
LEMMA AloneLeads ==
  ASSUME NEW pre, IsPrefix(pre), NEW rex, IsRex(rex), NEW op, NEW m \in 0 .. 7,
         NEW form \in {"RM", "MR", "M", "MI"}, IsOpcode(op, m, form), NEW o, IsLit(o)
  PROVE  Leads(Emit(pre \o rex \o op, m, o, 0, <<>>), o.sym, o.disp, IF form = "RM" THEN "src" ELSE "dst")
<1> DEFINE none == <<>>
<1>1. none \in Seq(Int) /\ Len(none) = 0
  OBVIOUS
<1> HIDE DEF none
<1>2. Leads(Emit(pre \o rex \o op, m, o, Len(none), none), o.sym, o.disp, IF form = "RM" THEN "src" ELSE "dst")
  BY <1>1, PartsLead
<1>3. Leads(Emit(pre \o rex \o op, m, o, 0, none), o.sym, o.disp, IF form = "RM" THEN "src" ELSE "dst")
  BY <1>1, <1>2
<1>. QED BY <1>3 DEF none

\* The schemes with one operand.
LEMMA MLeads ==
  ASSUME NEW size, NEW ops, NEW m \in 0 .. 7, IsOpcode(ops.wide, m, "M"), IsOpcode(ops.byte, m, "M"), NEW o, IsLit(o)
  PROVE  /\ Leads(EncodeM(m, size, ops, o), o.sym, o.disp, "dst")
         /\ Leads(EncodeMWithoutREXW(m, size, ops, o), o.sym, o.disp, "dst")
<1>1. ASSUME NEW n PROVE Leads(Emit(EmitOpPrologue(n, None, o) \o EmitOpcodes(size, ops), m, o, 0, <<>>), o.sym, o.disp, "dst")
  <2> DEFINE pre == AddWordOpSize(n)
             rex == Rex(n, n, {None, o}, None, o)
             op  == EmitOpcodes(size, ops)
  <2>1. IsPrefix(pre) /\ IsRex(rex)
    BY PrologueIs
  <2>2. IsOpcode(op, m, "M")
    BY DEF EmitOpcodes
  <2>3. EmitOpPrologue(n, None, o) = pre \o rex
    BY DEF EmitOpPrologue
  <2> HIDE DEF pre, rex
  <2>4. Leads(Emit(pre \o rex \o op, m, o, 0, <<>>), o.sym, o.disp, "dst")
    <3> HIDE DEF op
    <3> DEFINE form == "M"
    <3>1. form \in {"RM", "MR", "M", "MI"} /\ form # "RM" /\ IsOpcode(op, m, form)
      BY <2>2
    <3> HIDE DEF form
    <3>2. Leads(Emit(pre \o rex \o op, m, o, 0, <<>>), o.sym, o.disp, IF form = "RM" THEN "src" ELSE "dst")
      BY <2>1, <3>1, AloneLeads
    <3>. QED BY <3>1, <3>2
  <2>. QED BY <2>3, <2>4
<1>. QED BY <1>1 DEF EncodeM, EncodeMWithoutREXW

\* The schemes with an immediate: of four bytes at most; of one, where the operand is a byte.
LEMMA MILeads ==
  ASSUME NEW size \in Sizes, NEW ops, NEW m \in 0 .. 7, IsOpcode(ops.wide, m, "MI"), IsOpcode(ops.byte, m, "MI"),
         NEW v \in Int, NEW o, IsLit(o)
  PROVE  /\ Leads(EncodeMI32(m, size, ops, v, o), o.sym, o.disp, "dst")
         /\ size = 1 => Leads(EncodeMI8(m, size, ops, v, o), o.sym, o.disp, "dst")
<1> DEFINE w == Min4(size)
           imm == LittleEndian(v, w)
           front == EmitOpPrologue(size, None, o) \o EmitOpcodes(size, ops)
<1>1. Leads(Emit(front, m, o, w, imm), o.sym, o.disp, "dst")
  <2> DEFINE pre == AddWordOpSize(size)
             rex == Rex(size, size, {None, o}, None, o)
             op  == EmitOpcodes(size, ops)
             form == "MI"
  <2>1. IsPrefix(pre) /\ IsRex(rex)
    BY PrologueIs
  <2>2. form \in {"RM", "MR", "M", "MI"} /\ form # "RM" /\ IsOpcode(op, m, form)
    BY DEF EmitOpcodes
  <2>3. w \in Nat
    BY DEF Min4, Sizes
  <2>4. imm \in Seq(Int) /\ Len(imm) = w
    BY <2>3, LittleEndianTyped
  <2>5. EmitOpPrologue(size, None, o) = pre \o rex
    BY DEF EmitOpPrologue
  <2>6. front = pre \o rex \o op
    BY <2>5
  <2> HIDE DEF pre, rex, op, form, imm, w, front
  <2>7. Leads(Emit(pre \o rex \o op, m, o, Len(imm), imm), o.sym, o.disp, IF form = "RM" THEN "src" ELSE "dst")
    BY <2>1, <2>2, <2>4, PartsLead
  <2>. QED BY <2>2, <2>4, <2>6, <2>7
<1>2. size = 1 => w = 1
  BY DEF Min4
<1>3. EncodeMI32(m, size, ops, v, o) = Emit(front, m, o, w, imm)
  BY DEF EncodeMI32
<1>4. size = 1 => EncodeMI8(m, size, ops, v, o) = Emit(front, m, o, w, imm)
  BY <1>2 DEF EncodeMI8
<1>. QED BY <1>1, <1>3, <1>4

\* The schemes with a register.
LEMMA MRLeads ==
  ASSUME NEW size, NEW form \in {"MR", "RM"}, NEW reg, IsReg(reg), NEW o, IsLit(o),
         NEW ops, \A m \in 0 .. 7 : IsOpcode(EmitOpcodes(size, ops), m, form)
  PROVE  Leads(EncodeMR(size, ops, reg, o), o.sym, o.disp, IF form = "RM" THEN "src" ELSE "dst")
<1> DEFINE pre == AddWordOpSize(size)
           rex == Rex(size, size, {reg, o}, reg, o)
           op  == EmitOpcodes(size, ops)
           m   == LowBits(reg)
<1>1. IsPrefix(pre) /\ IsRex(rex)
  BY PrologueIs
<1>2. m \in 0 .. 7
  BY RegisterTyped DEF IsReg
<1>3. EmitOpPrologue(size, reg, o) = pre \o rex
  BY DEF EmitOpPrologue
<1>4. EncodeMR(size, ops, reg, o) = Emit(EmitOpPrologue(size, reg, o) \o op, m, o, 0, <<>>)
  BY DEF EncodeMR
<1> HIDE DEF pre, rex, m
<1>5. IsOpcode(op, m, form)
  BY <1>2
<1> HIDE DEF op
<1>. QED BY <1>1, <1>2, <1>3, <1>4, <1>5, AloneLeads

\* The same for conditional moves and extensions, whose opcode does not go by the size.
LEMMA WiderLeads ==
  ASSUME NEW size, NEW reg, IsReg(reg), NEW o, IsLit(o), NEW op, \A m \in 0 .. 7 : IsOpcode(op, m, "RM")
  PROVE  Leads(Emit(EmitOpPrologue(size, reg, o) \o op, LowBits(reg), o, 0, <<>>), o.sym, o.disp, "src")
<1> DEFINE ops == Ops(op, op)
           form == "RM"
<1>1. EmitOpcodes(size, ops) = op
  BY DEF EmitOpcodes, Ops
<1>2. EncodeMR(size, ops, reg, o) = Emit(EmitOpPrologue(size, reg, o) \o op, LowBits(reg), o, 0, <<>>)
  BY <1>1 DEF EncodeMR
<1>3. form \in {"MR", "RM"} /\ \A m \in 0 .. 7 : IsOpcode(EmitOpcodes(size, ops), m, form)
  BY <1>1
<1> HIDE DEF ops, form
<1>4. Leads(EncodeMR(size, ops, reg, o), o.sym, o.disp, IF form = "RM" THEN "src" ELSE "dst")
  BY <1>3, MRLeads
<1>. QED BY <1>2, <1>4 DEF form

\* The schemes of floating point.
LEMMA SSELeads ==
  ASSUME NEW prefix, IsPrefix(prefix), NEW size, NEW form \in {"MR", "RM"}, NEW reg, IsReg(reg), NEW o, IsLit(o),
         NEW op, \A m \in 0 .. 7 : IsOpcode(op, m, form)
  PROVE  Leads(EncodeSSE(prefix, size, op, reg, o), o.sym, o.disp, IF form = "RM" THEN "src" ELSE "dst")
<1> DEFINE rex == Rex(size, 4, {}, reg, o)
           m   == LowBits(reg)
<1>1. IsRex(rex)
  BY PrologueIs
<1>2. m \in 0 .. 7
  BY RegisterTyped DEF IsReg
<1>3. EncodeSSE(prefix, size, op, reg, o) = Emit(prefix \o rex \o op, m, o, 0, <<>>)
  BY DEF EncodeSSE
<1> HIDE DEF rex, m
<1>. QED BY <1>1, <1>2, <1>3, AloneLeads

-------------------------------------------------------------------------------
(* Each instruction of the assembler.                                      *)

\* What an instruction refers to is where the processor reads it.
Refer(e, i) ==
  /\ i.src.k = "literal" => Leads(e, i.src.sym, i.src.disp, "src")
  /\ i.dst.k = "literal" => Leads(e, i.dst.sym, i.dst.disp, "dst")
  /\ i.dst.k = "symbol"  => Leads(e, i.dst.sym, 0, "dst")

\* Opcodes of a form, for a byte and for more.
Codes(ops, form) == \A m \in 0 .. 7 : IsOpcode(ops.wide, m, form) /\ IsOpcode(ops.byte, m, form)

\* Only an address is a literal, only a symbol a symbol.
LEMMA LiteralsAre ==
  ASSUME NEW kind, NEW o, NEW size, IsOperand(kind, o, size)
  PROVE  /\ o.k = "literal" => kind = "mem" /\ IsLit(o)
         /\ o.k = "symbol" => kind = "symbol"
<1>1. kind \in {"gp", "xmm", "mem", "imm", "cl", "none", "symbol"}
  BY DEF IsOperand
<1>2. CASE kind = "mem"
  BY <1>2, OperandTyped DEF IsMem, IsLit
<1>3. CASE kind # "mem"
  BY <1>1, <1>3, OperandTyped DEF rcx, Gp, None
<1>. QED BY <1>2, <1>3

\* An operation with two operands.
LEMMA TwoOperandLeads ==
  ASSUME NEW i, NEW src, NEW dst, Takes(i.op, i.size, src, dst), i.op \in TwoOperandOps,
         IsOperand(src, i.src, i.size), IsOperand(dst, i.dst, i.size),
         NEW mr, Codes(mr, "MR"), NEW rm, Codes(rm, "RM"), NEW mi, Codes(mi, "MI"), NEW digit \in 0 .. 7
  PROVE  Refer(TwoOperand(i, mr, rm, mi, digit), i)
<1>1. /\ i.size \in Sizes /\ src \in {"gp", "imm", "mem"} /\ dst \in {"gp", "mem"}
      /\ src = "mem" => dst = "gp"
  BY DEF Takes
<1>2. i.dst.k # "symbol"
  BY <1>1, LiteralsAre
<1>3. ASSUME i.src.k = "literal" PROVE Leads(TwoOperand(i, mr, rm, mi, digit), i.src.sym, i.src.disp, "src")
  <2> DEFINE form == "RM"
  <2>1. IsLit(i.src) /\ IsReg(i.dst)
    BY <1>1, <1>3, LiteralsAre, OperandTyped DEF IsReg
  <2>2. form \in {"MR", "RM"} /\ \A m \in 0 .. 7 : IsOpcode(EmitOpcodes(i.size, rm), m, form)
    BY DEF Codes, EmitOpcodes
  <2> HIDE DEF form
  <2>3. Leads(EncodeMR(i.size, rm, i.dst, i.src), i.src.sym, i.src.disp, IF form = "RM" THEN "src" ELSE "dst")
    BY <2>1, <2>2, MRLeads
  <2>. QED BY <1>3, <2>3 DEF TwoOperand, form
<1>4. ASSUME i.dst.k = "literal" PROVE Leads(TwoOperand(i, mr, rm, mi, digit), i.dst.sym, i.dst.disp, "dst")
  <2>1. dst = "mem" /\ IsLit(i.dst)
    BY <1>4, LiteralsAre
  <2>2. CASE src = "imm"
    <3>1. i.src.k = "imm" /\ i.src.v \in Int
      BY <2>2, OperandTyped
    <3>2. IsOpcode(mi.wide, digit, "MI") /\ IsOpcode(mi.byte, digit, "MI")
      BY DEF Codes
    <3>3. Leads(EncodeMI32(digit, i.size, mi, i.src.v, i.dst), i.dst.sym, i.dst.disp, "dst")
      BY <1>1, <2>1, <3>1, <3>2, MILeads
    <3>. QED BY <3>1, <3>3 DEF TwoOperand
  <2>3. CASE src = "gp"
    <3> DEFINE form == "MR"
    <3>1. i.src.k = "gp" /\ IsReg(i.src)
      BY <2>3, OperandTyped DEF IsReg
    <3>2. form \in {"MR", "RM"} /\ \A m \in 0 .. 7 : IsOpcode(EmitOpcodes(i.size, mr), m, form)
      BY DEF Codes, EmitOpcodes
    <3> HIDE DEF form
    <3>3. Leads(EncodeMR(i.size, mr, i.src, i.dst), i.dst.sym, i.dst.disp, IF form = "RM" THEN "src" ELSE "dst")
      BY <2>1, <3>1, <3>2, MRLeads
    <3>. QED BY <3>1, <3>3 DEF TwoOperand, form
  <2>. QED BY <1>1, <2>1, <2>2, <2>3
<1>. QED BY <1>2, <1>3, <1>4 DEF Refer

\* Opcodes of a byte each, of one form.
LEMMA CodesKnown ==
  ASSUME NEW a, NEW b
  PROVE  /\ a \in MRCodes /\ b \in MRCodes => Codes(Ops(<<a>>, <<b>>), "MR")
         /\ a \in RMCodes /\ b \in RMCodes => Codes(Ops(<<a>>, <<b>>), "RM")
         /\ a \in MICodes /\ b \in MICodes => Codes(Ops(<<a>>, <<b>>), "MI")
  BY OpcodesKnown DEF Codes, Ops

\* Each of these operations.
LEMMA TwoOperandsLead ==
  ASSUME NEW i, NEW src, NEW dst, Takes(i.op, i.size, src, dst), i.op \in TwoOperandOps,
         IsOperand(src, i.src, i.size), IsOperand(dst, i.dst, i.size)
  PROVE  /\ Refer(Add(i), i) /\ Refer(Or(i), i) /\ Refer(And(i), i) /\ Refer(Sub(i), i)
         /\ Refer(Xor(i), i) /\ Refer(Cmp(i), i) /\ Refer(Test(i), i) /\ Refer(Mov(i), i)
<1>1. ASSUME NEW a \in MRCodes, NEW b \in MRCodes, NEW c \in RMCodes, NEW d \in RMCodes,
             NEW e \in MICodes, NEW f \in MICodes, NEW digit \in 0 .. 7
      PROVE  Refer(TwoOperand(i, Ops(<<a>>, <<b>>), Ops(<<c>>, <<d>>), Ops(<<e>>, <<f>>), digit), i)
  <2> DEFINE mr == Ops(<<a>>, <<b>>)
             rm == Ops(<<c>>, <<d>>)
             mi == Ops(<<e>>, <<f>>)
  <2>1. Codes(mr, "MR") /\ Codes(rm, "RM") /\ Codes(mi, "MI")
    BY CodesKnown
  <2> HIDE DEF mr, rm, mi
  <2>2. Refer(TwoOperand(i, mr, rm, mi, digit), i)
    BY <2>1, TwoOperandLeads
  <2>. QED BY <2>2 DEF mr, rm, mi
<1>2. /\ {\h01, \h00, \h09, \h08, \h20, \h21, \h29, \h28, \h31, \h30, \h39, \h38, \h85, \h84, \h89, \h88} \subseteq MRCodes
      /\ {\h03, \h02, \h0B, \h0A, \h22, \h23, \h2B, \h2A, \h33, \h32, \h3B, \h3A, \h8B, \h8A} \subseteq RMCodes
      /\ {\h81, \h80, \hC7, \hC6} \subseteq MICodes
  BY DEF MRCodes, RMCodes, MICodes
<1>3. Refer(Add(i), i) /\ Refer(Or(i), i)
  BY <1>1, <1>2 DEF Add, Or, Group1
<1>4. Refer(And(i), i) /\ Refer(Sub(i), i)
  BY <1>1, <1>2 DEF And, Sub, Group1
<1>6. Refer(Xor(i), i) /\ Refer(Cmp(i), i) /\ Refer(Test(i), i)
  BY <1>1, <1>2 DEF Xor, Cmp, Test, Group1
<1>5. Refer(Mov(i), i)
  <2>1. CASE i.src.k = "imm" /\ i.dst.k = "gp"
    BY <2>1 DEF Refer
  <2>2. CASE ~(i.src.k = "imm" /\ i.dst.k = "gp")
    <3>1. Refer(TwoOperand(i, Ops(<<\h89>>, <<\h88>>), Ops(<<\h8B>>, <<\h8A>>), Ops(<<\hC7>>, <<\hC6>>), 0), i)
      BY <1>1, <1>2
    <3>. QED BY <2>2, <3>1 DEF Mov
  <2>. QED BY <2>1, <2>2
<1>. QED BY <1>3, <1>4, <1>5, <1>6

\* What the scheme of a byte shift promises the processor is one byte only where the operand is a byte.
ShiftsLiteral(i) == i.op \in {"sal", "sar", "shr"} /\ i.dst.k = "literal" /\ i.size # 1

\* The operations with one operand, and shifts.
LEMMA UnaryLeads ==
  ASSUME NEW i, NEW src, NEW dst, Takes(i.op, i.size, src, dst), ~ShiftsLiteral(i),
         IsOperand(src, i.src, i.size), IsOperand(dst, i.dst, i.size)
  PROVE  /\ i.op \in {"sal", "sar", "shr"} => Refer(Shift(i), i)
         /\ i.op = "neg" => Refer(Neg(i), i)
         /\ i.op \in {"div", "idiv"} => Refer(Div(i), i)
         /\ i.op = "cdq" => Refer(Cdq(i), i)
         /\ i.op = "leave" => Refer(Leave(i), i)
         /\ i.op = "ret" => Refer(Ret(i), i)
         /\ i.op = "push" => Refer(Push(i), i)
         /\ i.op = "pop" => Refer(Pop(i), i)
         /\ i.op = "setcc" => Refer(SetCC(i), i)
<1>1. ASSUME i.op \in {"sal", "sar", "shr", "neg", "div", "idiv", "cdq", "leave", "ret", "push", "pop", "setcc"}
      PROVE  i.src.k # "literal" /\ i.dst.k # "symbol"
  <2>1. src \in {"imm", "cl", "none"} /\ dst # "symbol"
    BY <1>1 DEF Takes
  <2>. QED BY <2>1, LiteralsAre
<1>2. ASSUME i.dst.k = "literal" PROVE dst = "mem" /\ IsLit(i.dst)
  BY <1>2, LiteralsAre
<1>3. ASSUME NEW m \in 0 .. 7, NEW a, NEW b,
             IsOpcode(<<a>>, m, "M") /\ IsOpcode(<<b>>, m, "M"), i.dst.k = "literal"
      PROVE  /\ Leads(EncodeM(m, i.size, Ops(<<a>>, <<b>>), i.dst), i.dst.sym, i.dst.disp, "dst")
             /\ Leads(EncodeMWithoutREXW(m, i.size, Ops(<<a>>, <<b>>), i.dst), i.dst.sym, i.dst.disp, "dst")
  <2> DEFINE ops == Ops(<<a>>, <<b>>)
  <2>1. IsOpcode(ops.wide, m, "M") /\ IsOpcode(ops.byte, m, "M")
    BY <1>3 DEF Ops
  <2> HIDE DEF ops
  <2>2. /\ Leads(EncodeM(m, i.size, ops, i.dst), i.dst.sym, i.dst.disp, "dst")
        /\ Leads(EncodeMWithoutREXW(m, i.size, ops, i.dst), i.dst.sym, i.dst.disp, "dst")
    BY <1>2, <1>3, <2>1, MLeads
  <2>. QED BY <2>2 DEF ops
<1>4. ASSUME i.op \in {"sal", "sar", "shr"} PROVE Refer(Shift(i), i)
  <2>1. ASSUME i.dst.k = "literal" PROVE Leads(Shift(i), i.dst.sym, i.dst.disp, "dst")
    <3>1. dst = "mem" /\ src = "imm" /\ i.size \in Sizes /\ i.size = 1
      BY <1>2, <1>4, <2>1 DEF Takes, ShiftsLiteral
    <3>2. i.src.k = "imm" /\ i.src.v \in Int
      BY <3>1, OperandTyped
    <3> DEFINE ops == Ops(<<\hC1>>, <<\hC0>>)
               m == ShiftDigit(i.op)
    <3>3. m \in 0 .. 7
      BY <1>4 DEF ShiftDigit
    <3>4. \hC1 \in MICodes /\ \hC0 \in MICodes
      BY DEF MICodes
    <3>5. Codes(ops, "MI")
      BY <3>4, CodesKnown
    <3> HIDE DEF ops, m
    <3>6. IsOpcode(ops.wide, m, "MI") /\ IsOpcode(ops.byte, m, "MI")
      BY <3>3, <3>5 DEF Codes
    <3>7. Leads(EncodeMI8(m, i.size, ops, i.src.v, i.dst), i.dst.sym, i.dst.disp, "dst")
      BY <1>2, <2>1, <3>1, <3>2, <3>3, <3>6, MILeads
    <3>. QED BY <3>2, <3>7 DEF Shift, ops, m
  <2>. QED BY <1>1, <1>4, <2>1 DEF Refer
<1>5. ASSUME i.op \in {"neg", "div", "idiv"} PROVE Refer(Neg(i), i) /\ Refer(Div(i), i)
  <2>1. ASSUME i.dst.k = "literal", NEW m \in 2 .. 7
        PROVE  Leads(EncodeM(m, i.size, Ops(<<\hF7>>, <<\hF6>>), i.dst), i.dst.sym, i.dst.disp, "dst")
    <3>0. m \in 0 .. 7 /\ m > 1
      OBVIOUS
    <3>1. m \in 0 .. 7 /\ IsOpcode(<<\hF7>>, m, "M") /\ IsOpcode(<<\hF6>>, m, "M")
      BY <3>0, OpcodesKnown
    <3>. QED BY <1>3, <2>1, <3>1
  <2>. QED BY <1>1, <1>5, <2>1 DEF Refer, Neg, Div
<1>6. ASSUME i.op \in {"cdq", "leave", "ret", "setcc"}
      PROVE  Refer(Cdq(i), i) /\ Refer(Leave(i), i) /\ Refer(Ret(i), i) /\ Refer(SetCC(i), i)
  <2>1. dst \in {"none", "gp"}
    BY <1>6 DEF Takes
  <2>2. i.dst.k # "literal"
    BY <2>1, LiteralsAre
  <2>. QED BY <1>1, <1>6, <2>2 DEF Refer
<1>7. ASSUME i.op \in {"push", "pop"} PROVE Refer(Push(i), i) /\ Refer(Pop(i), i)
  <2>1. ASSUME i.dst.k = "literal"
        PROVE  /\ Leads(EncodeMWithoutREXW(6, i.size, Ops(<<\hFF>>, <<\hFF>>), i.dst), i.dst.sym, i.dst.disp, "dst")
               /\ Leads(EncodeMWithoutREXW(0, i.size, Ops(<<\h8F>>, <<\h8F>>), i.dst), i.dst.sym, i.dst.disp, "dst")
    <3>0. ASSUME NEW m \in 0 .. 7 PROVE IsOpcode(<<\hFF>>, m, "M") /\ IsOpcode(<<\h8F>>, m, "M")
      BY OpcodesKnown
    <3>1. IsOpcode(<<\hFF>>, 6, "M") /\ IsOpcode(<<\h8F>>, 0, "M") /\ 6 \in 0 .. 7 /\ 0 \in 0 .. 7
      BY <3>0
    <3>. QED BY <1>3, <2>1, <3>1
  <2>. QED BY <1>1, <1>7, <2>1 DEF Refer, Push, Pop
<1>. QED BY <1>4, <1>5, <1>6, <1>7

\* A relative call is read with its distance.
LEMMA CallLeads ==
  ASSUME NEW sym, sym.bind # "external"
  PROVE  Leads([bytes |-> <<\hE8, \hFF, \hFF, \hFF, \h7F>>,
                relocs |-> <<[type |-> "PC32", offset |-> 1, disp |-> 5, sym |-> sym]>>], sym, 0, "dst")
<1> DEFINE bytes == <<\hE8, \hFF, \hFF, \hFF, \h7F>>
           r == [type |-> "PC32", offset |-> 1, disp |-> 5, sym |-> sym]
           e == [bytes |-> bytes, relocs |-> <<r>>]
<1>1. Len(bytes) = 5 /\ bytes[1] = \hE8
  OBVIOUS
<1>2. r.type = "PC32" /\ r.offset = 1 /\ r.disp = 5 /\ r.sym = sym
  OBVIOUS
<1> HIDE DEF bytes, r
<1>3. e.bytes = bytes /\ e.relocs = <<r>> /\ e.relocs[1] = r
  OBVIOUS
<1> HIDE DEF e
<1>6. Len(e.bytes) = 5 /\ e.bytes[1] = \hE8 /\ e.relocs[1].offset = 1
  <2> DEFINE x == e.bytes
             y == e.relocs[1]
  <2>1. x = bytes /\ y = r
    BY <1>3
  <2> HIDE DEF x, y
  <2>2. Len(x) = 5 /\ x[1] = \hE8 /\ y.offset = 1
    BY <1>1, <1>2, <2>1
  <2>. QED BY <2>2 DEF x, y
<1>4. ASSUME NEW b, NEW s, NEW v, Len(b) \in Nat, s \in Nat, s + Len(e.bytes) <= Len(b),
             v \in Int, -Far - 1 <= v, v <= Far, Kept(b, e, s), Holds(b, s + r.offset, v)
      PROVE  P!Decode(b, s + 1).instruction.dst.disp = v
  <2> DEFINE d == P!Form("call", "D", 8, 4)
             h == \hE8
             p == s + 1
  <2>1. \A digit, wide : P!OneByteForm(h, digit, wide) = d
    BY DEF P!OneByteForm
  <2>2. d.form = "D" /\ d.imm = 4
    BY DEF P!Form
  <2>3. s + 5 <= Len(b) /\ p \in Int /\ p = s + 1
    BY <1>6, <1>4
  <2>4. P!At(b, p) = h
    <3>1. 1 \in 1 .. Len(e.bytes) /\ 1 - e.relocs[1].offset \notin 1 .. 4
      BY <1>6
    <3>2. b[s + 1] = h
      BY <1>6, <1>4, <3>1 DEF Kept
    <3>3. p \in 1 .. Len(b)
      BY <1>4, <2>3
    <3>. QED BY <3>2, <3>3 DEF P!At
  <2>5. h \in Nat /\ h # \h66 /\ h # \hF2 /\ h # \hF3 /\ (h < \h40 \/ h > \h4F) /\ h # \h0F
    OBVIOUS
  <2>6. P!SignedField(b, p + 1, 4) = v
    <3>1. \A j \in 1 .. 4 : P!At(b, (p + 1) + j - 1) = LittleEndian(v, 4)[j]
      <4> SUFFICES ASSUME NEW j \in 1 .. 4 PROVE P!At(b, (p + 1) + j - 1) = LittleEndian(v, 4)[j]
        OBVIOUS
      <4>1. b[(s + 1) + j] = LittleEndian(v, 4)[j]
        BY <1>2, <1>4 DEF Holds
      <4>2. (p + 1) + j - 1 = (s + 1) + j /\ (s + 1) + j \in 1 .. Len(b)
        BY <1>4, <2>3
      <4>3. P!At(b, (s + 1) + j) = b[(s + 1) + j]
        BY <4>2 DEF P!At
      <4>. QED BY <4>1, <4>2, <4>3
    <3>2. p + 1 \in Int
      BY <2>3
    <3>. QED BY <1>4, <3>1, <3>2, ReadsLong
  <2> HIDE DEF d, h, p
  <2>7. P!Decode(b, p).instruction.dst.disp = P!SignedField(b, p + 1, d.imm)
    BY <2>1, <2>2, <2>3, <2>4, <2>5, DecodeOne
  <2>. QED BY <2>2, <2>3, <2>6, <2>7
<1>5. Leads(e, sym, 0, "dst")
  <2>1. r.offset \in Nat /\ r.offset + 4 <= Len(e.bytes) /\ r.disp = Len(e.bytes) - 0
    BY <1>2, <1>6
  <2>. QED BY <1>2, <1>3, <1>4, <2>1 DEF Leads
<1>. QED BY <1>5 DEF e, r, bytes

\* Moves, extensions and calls.
LEMMA MovesLead ==
  ASSUME NEW i, NEW src, NEW dst, Takes(i.op, i.size, src, dst), TakesArg(i),
         IsOperand(src, i.src, i.size), IsOperand(dst, i.dst, i.size)
  PROVE  /\ i.op = "lea" => Refer(Lea(i), i)
         /\ i.op = "movzx" => Refer(Movzx(i), i)
         /\ i.op = "movsx" => Refer(Movsx(i), i)
         /\ i.op = "movsxd" => Refer(Movsxd(i), i)
         /\ i.op = "cmov" => Refer(CMov(i), i)
         /\ i.op = "call" => Refer(Call(i), i)
<1>1. ASSUME i.op \in {"lea", "movzx", "movsx", "movsxd", "cmov"}
      PROVE  i.dst.k # "literal" /\ i.dst.k # "symbol" /\ IsReg(i.dst)
  <2>1. dst = "gp"
    BY <1>1 DEF Takes
  <2>. QED BY <2>1, LiteralsAre, OperandTyped DEF IsReg
<1>2. ASSUME i.src.k = "literal" PROVE IsLit(i.src) /\ i.src.k # "gp"
  BY <1>2, LiteralsAre
<1>3. ASSUME i.op = "lea" PROVE Refer(Lea(i), i)
  <2>1. ASSUME i.src.k = "literal" PROVE Leads(Lea(i), i.src.sym, i.src.disp, "src")
    <3> DEFINE ops == Ops(<<\h8D>>, <<\h8D>>)
               form == "RM"
    <3>1. \h8D \in RMCodes
      BY DEF RMCodes
    <3>2. Codes(ops, "RM")
      BY <3>1, CodesKnown
    <3>3. form \in {"MR", "RM"} /\ \A m \in 0 .. 7 : IsOpcode(EmitOpcodes(8, ops), m, form)
      BY <3>2 DEF Codes, EmitOpcodes
    <3> HIDE DEF ops, form
    <3>4. Leads(EncodeMR(8, ops, i.dst, i.src), i.src.sym, i.src.disp, IF form = "RM" THEN "src" ELSE "dst")
      BY <1>1, <1>2, <1>3, <2>1, <3>3, MRLeads
    <3>. QED BY <3>4 DEF Lea, ops, form
  <2>. QED BY <1>1, <1>3, <2>1 DEF Refer
<1>4. ASSUME NEW ops, \A m \in 0 .. 7 : IsOpcode(EmitOpcodes(i.arg, ops), m, "RM"),
             i.op \in {"movzx", "movsx", "movsxd"}
      PROVE  Refer(EncodeExtension(i.size, i.arg, ops, i.dst, i.src), i)
  <2>1. ASSUME i.src.k = "literal"
        PROVE  Leads(EncodeExtension(i.size, i.arg, ops, i.dst, i.src), i.src.sym, i.src.disp, "src")
    <3> DEFINE op == EmitOpcodes(i.arg, ops)
    <3>1. EncodeExtension(i.size, i.arg, ops, i.dst, i.src)
            = Emit(EmitOpPrologue(i.size, i.dst, i.src) \o op, LowBits(i.dst), i.src, 0, <<>>)
      BY <1>2, <2>1 DEF EncodeExtension, EmitExtensionPrologue
    <3>2. \A m \in 0 .. 7 : IsOpcode(op, m, "RM")
      BY <1>4
    <3> HIDE DEF op
    <3>3. Leads(Emit(EmitOpPrologue(i.size, i.dst, i.src) \o op, LowBits(i.dst), i.src, 0, <<>>), i.src.sym, i.src.disp, "src")
      BY <1>1, <1>2, <1>4, <2>1, <3>2, WiderLeads
    <3>. QED BY <3>1, <3>3
  <2>. QED BY <1>1, <1>4, <2>1 DEF Refer
<1>5. ASSUME NEW h \in RM2Codes, NEW m \in 0 .. 7 PROVE IsOpcode(<<\h0F, h>>, m, "RM")
  BY OpcodesKnown
<1>6. {\hB7, \hB6, \hBF, \hBE} \subseteq RM2Codes
  BY DEF RM2Codes
<1>7. ASSUME i.op = "movzx" PROVE Refer(Movzx(i), i)
  <2>1. \A m \in 0 .. 7 : IsOpcode(EmitOpcodes(i.arg, Ops(<<\h0F, \hB7>>, <<\h0F, \hB6>>)), m, "RM")
    BY <1>5, <1>6 DEF EmitOpcodes, Ops
  <2>. QED BY <1>4, <1>7, <2>1 DEF Movzx
<1>8. ASSUME i.op = "movsx" PROVE Refer(Movsx(i), i)
  <2>1. \A m \in 0 .. 7 : IsOpcode(EmitOpcodes(i.arg, Ops(<<\h0F, \hBF>>, <<\h0F, \hBE>>)), m, "RM")
    BY <1>5, <1>6 DEF EmitOpcodes, Ops
  <2>. QED BY <1>4, <1>8, <2>1 DEF Movsx
<1>9. ASSUME i.op = "movsxd" PROVE Refer(Movsxd(i), i)
  <2>1. i.arg = 4
    BY <1>9 DEF TakesArg
  <2>2. \h63 \in RMCodes
    BY DEF RMCodes
  <2>3. \A m \in 0 .. 7 : IsOpcode(<<\h63>>, m, "RM")
    BY <2>2, OpcodesKnown
  <2>4. EmitOpcodes(i.arg, Ops(<<\h63>>, <<>>)) = <<\h63>>
    BY <2>1 DEF EmitOpcodes, Ops
  <2>5. \A m \in 0 .. 7 : IsOpcode(EmitOpcodes(i.arg, Ops(<<\h63>>, <<>>)), m, "RM")
    BY <2>3, <2>4
  <2>. QED BY <1>4, <1>9, <2>5 DEF Movsxd
<1>10. ASSUME i.op = "cmov" PROVE Refer(CMov(i), i)
  <2>1. ASSUME i.src.k = "literal" PROVE Leads(CMov(i), i.src.sym, i.src.disp, "src")
    <3> DEFINE h == \h40 + i.arg
               op == <<\h0F, h>>
    <3>1. i.arg \in 0 .. 15
      BY <1>10 DEF TakesArg
    <3>2. h \in RM2Codes
      BY <3>1 DEF RM2Codes
    <3>3. CMov(i) = Emit(EmitOpPrologue(i.size, i.dst, i.src) \o op, LowBits(i.dst), i.src, 0, <<>>)
      BY DEF CMov
    <3> HIDE DEF h
    <3>4. \A m \in 0 .. 7 : IsOpcode(op, m, "RM")
      BY <1>5, <3>2
    <3> HIDE DEF op
    <3>5. Leads(Emit(EmitOpPrologue(i.size, i.dst, i.src) \o op, LowBits(i.dst), i.src, 0, <<>>), i.src.sym, i.src.disp, "src")
      BY <1>1, <1>2, <1>10, <2>1, <3>4, WiderLeads
    <3>. QED BY <3>3, <3>5
  <2>. QED BY <1>1, <1>10, <2>1 DEF Refer
<1>11. ASSUME i.op = "call" PROVE Refer(Call(i), i)
  <2>1. src = "none" /\ dst \in {"symbol", "mem"}
    BY <1>11 DEF Takes
  <2>2. i.src.k # "literal"
    BY <2>1, LiteralsAre
  <2>3. ASSUME NEW a, IsLit(a) PROVE Leads(CallPlt(a), a.sym, a.disp, "dst")
    <3> DEFINE ops == Ops(<<\hFF>>, <<\hFF>>)
               m == 2
    <3>1. m \in 0 .. 7
      OBVIOUS
    <3> HIDE DEF m
    <3>2. IsOpcode(ops.wide, m, "M") /\ IsOpcode(ops.byte, m, "M")
      BY <3>1, OpcodesKnown DEF Ops
    <3> HIDE DEF ops
    <3>3. Leads(EncodeMWithoutREXW(m, 8, ops, a), a.sym, a.disp, "dst")
      BY <2>3, <3>1, <3>2, MLeads
    <3>. QED BY <3>3 DEF CallPlt, m, ops
  <2>4. i.dst.k = "literal" => Leads(Call(i), i.dst.sym, i.dst.disp, "dst")
    BY <2>3, LiteralsAre DEF Call
  <2>5. ASSUME i.dst.k = "symbol" PROVE Leads(Call(i), i.dst.sym, 0, "dst")
    <3>1. CASE i.dst.sym.bind = "external"
      <4> DEFINE a == Literal(i.dst.sym, 0)
      <4>1. a.k = "literal" /\ a.sym = i.dst.sym /\ a.disp = 0
        BY DEF Literal
      <4>2. Call(i) = CallPlt(a)
        BY <2>5, <3>1 DEF Call
      <4> HIDE DEF a
      <4>3. IsLit(a)
        BY <3>1, <4>1 DEF IsLit
      <4>. QED BY <2>3, <4>1, <4>2, <4>3
    <3>2. CASE i.dst.sym.bind # "external"
      <4>1. Call(i) = [bytes |-> <<\hE8, \hFF, \hFF, \hFF, \h7F>>,
                       relocs |-> <<[type |-> "PC32", offset |-> 1, disp |-> 5, sym |-> i.dst.sym]>>]
        BY <2>5, <3>2 DEF Call
      <4>. QED BY <3>2, <4>1, CallLeads
    <3>. QED BY <3>1, <3>2
  <2>. QED BY <2>2, <2>4, <2>5 DEF Refer
<1>. QED BY <1>3, <1>7, <1>8, <1>9, <1>10, <1>11

\* Floating point.
LEMMA ScalarLead ==
  ASSUME NEW i, NEW src, NEW dst, Takes(i.op, i.size, src, dst), i.op \in ScalarOps,
         IsOperand(src, i.src, i.size), IsOperand(dst, i.dst, i.size)
  PROVE  Refer(ScalarInstruction(i), i)
<1>1. /\ dst \in {"gp", "xmm"} => IsReg(i.dst) /\ i.dst.k # "literal"
      /\ src = "xmm" => IsReg(i.src) /\ i.src.k # "literal"
      /\ dst = "xmm" => i.dst.k = "xmm"
      /\ dst = "mem" => i.dst.k # "xmm"
      /\ i.src.k = "literal" => IsLit(i.src) /\ src = "mem"
      /\ i.dst.k = "literal" => IsLit(i.dst) /\ dst = "mem"
  BY LiteralsAre, OperandTyped DEF IsReg, IsMem
<1>2. dst \in {"gp", "xmm", "mem"}
  BY DEF Takes, ScalarOps
<1>3. i.dst.k # "symbol"
  BY <1>2, LiteralsAre
<1>4. IsPrefix(<<>>) /\ IsPrefix(<<\h66>>) /\ IsPrefix(<<\hF2>>) /\ IsPrefix(<<\hF3>>)
  BY DEF IsPrefix
<1>5. ASSUME NEW prefix, IsPrefix(prefix), NEW size, NEW h \in RM2Codes, dst \in {"gp", "xmm"}
      PROVE  Refer(EncodeSSE(prefix, size, <<\h0F, h>>, i.dst, i.src), i)
  <2>1. ASSUME i.src.k = "literal"
        PROVE  Leads(EncodeSSE(prefix, size, <<\h0F, h>>, i.dst, i.src), i.src.sym, i.src.disp, "src")
    <3> DEFINE op == <<\h0F, h>>
               form == "RM"
    <3>1. \A m \in 0 .. 7 : IsOpcode(op, m, form)
      BY OpcodesKnown
    <3>2. form \in {"MR", "RM"}
      OBVIOUS
    <3> HIDE DEF op, form
    <3>3. Leads(EncodeSSE(prefix, size, op, i.dst, i.src), i.src.sym, i.src.disp, IF form = "RM" THEN "src" ELSE "dst")
      BY <1>1, <1>5, <2>1, <3>1, <3>2, SSELeads
    <3>. QED BY <3>3 DEF op, form
  <2>. QED BY <1>1, <1>3, <1>5, <2>1 DEF Refer
<1>6. {\h10, \h2A, \h2C, \h2E, \h2F, \h57, \h58, \h5E} \subseteq RM2Codes
  BY DEF RM2Codes
<1>7. CASE i.op \in {"movss", "movsd"}
  <2>1. src \in {"xmm", "mem"} /\ dst \in {"xmm", "mem"} /\ (src = "mem" => dst = "xmm")
    BY <1>7 DEF Takes
  <2>2. ASSUME NEW prefix, IsPrefix(prefix) PROVE Refer(MovScalar(prefix, i), i)
    <3>1. CASE dst = "xmm"
      BY <1>1, <1>5, <1>6, <2>2, <3>1 DEF MovScalar
    <3>2. CASE dst = "mem"
      <4>1. src = "xmm" /\ IsReg(i.src) /\ i.src.k # "literal" /\ i.dst.k # "xmm"
        BY <1>1, <2>1, <3>2
      <4>2. ASSUME i.dst.k = "literal" PROVE Leads(MovScalar(prefix, i), i.dst.sym, i.dst.disp, "dst")
        <5> DEFINE op == <<\h0F, \h11>>
                   form == "MR"
        <5>1. \A m \in 0 .. 7 : IsOpcode(op, m, form)
          BY OpcodesKnown
        <5>2. form \in {"MR", "RM"}
          OBVIOUS
        <5> HIDE DEF op, form
        <5>3. Leads(EncodeSSE(prefix, 4, op, i.src, i.dst), i.dst.sym, i.dst.disp, IF form = "RM" THEN "src" ELSE "dst")
          BY <1>1, <2>2, <4>1, <4>2, <5>1, <5>2, SSELeads
        <5>. QED BY <4>1, <5>3 DEF op, form, MovScalar
      <4>. QED BY <1>3, <4>1, <4>2 DEF Refer
    <3>. QED BY <2>1, <3>1, <3>2
  <2>. QED BY <1>4, <1>7, <2>2 DEF ScalarInstruction, Movss, Movsd
<1>8. CASE i.op \in {"addss", "addsd", "subss", "subsd", "divss", "divsd"}
  <2>1. dst = "xmm"
    BY <1>8 DEF Takes, BinaryScalarOps
  <2> DEFINE p == Either(i, "addss", <<\hF3>>, <<\hF2>>)
             q == Either(i, "divss", <<\hF3>>, <<\hF2>>)
             r == IF i.op = "subsd" /\ i.src.k = "xmm" THEN <<\hF3>> ELSE <<\hF2>>
  <2>2. IsPrefix(p) /\ IsPrefix(q) /\ IsPrefix(r)
    BY <1>4 DEF Either
  <2>3. /\ Addss(i) = EncodeSSE(p, 4, <<\h0F, \h58>>, i.dst, i.src)
        /\ Divss(i) = EncodeSSE(q, 4, <<\h0F, \h5E>>, i.dst, i.src)
        /\ Subss(i) = EncodeSSE(r, 4, <<\h0F, \h58>>, i.dst, i.src)
    BY DEF Addss, Divss, Subss
  <2> HIDE DEF p, q, r
  <2>4. Refer(Addss(i), i) /\ Refer(Subss(i), i) /\ Refer(Divss(i), i)
    BY <1>5, <1>6, <2>1, <2>2, <2>3
  <2>. QED BY <1>8, <2>4 DEF ScalarInstruction
<1>9. CASE i.op \in {"xorps", "xorpd", "ucomiss", "ucomisd", "comiss", "comisd"}
  <2>1. dst = "xmm"
    BY <1>9 DEF Takes, BinaryScalarOps
  <2> DEFINE p == <<>>
             q == <<\h66>>
  <2>2. IsPrefix(p) /\ IsPrefix(q)
    BY <1>4
  <2>3. /\ Xorps(i) = EncodeSSE(p, 4, <<\h0F, \h57>>, i.dst, i.src)
        /\ Xorpd(i) = EncodeSSE(q, 4, <<\h0F, \h57>>, i.dst, i.src)
        /\ Ucomiss(i) = EncodeSSE(p, 4, <<\h0F, \h2E>>, i.dst, i.src)
        /\ Ucomisd(i) = EncodeSSE(q, 4, <<\h0F, \h2E>>, i.dst, i.src)
        /\ Comiss(i) = EncodeSSE(p, 4, <<\h0F, \h2F>>, i.dst, i.src)
        /\ Comisd(i) = EncodeSSE(q, 4, <<\h0F, \h2F>>, i.dst, i.src)
    BY DEF Xorps, Xorpd, Ucomiss, Ucomisd, Comiss, Comisd
  <2> HIDE DEF p, q
  <2>4. /\ Refer(Xorps(i), i) /\ Refer(Xorpd(i), i) /\ Refer(Ucomiss(i), i) /\ Refer(Ucomisd(i), i)
        /\ Refer(Comiss(i), i) /\ Refer(Comisd(i), i)
    BY <1>5, <1>6, <2>1, <2>2, <2>3
  <2>. QED BY <1>9, <2>4 DEF ScalarInstruction
<1>10. CASE i.op \in {"cvttss2si", "cvttsd2si", "cvtsi2ss", "cvtsi2sd"}
  <2>1. dst \in {"gp", "xmm"}
    BY <1>10 DEF Takes
  <2> DEFINE p == <<\hF3>>
             q == <<\hF2>>
             size == i.size
  <2>2. IsPrefix(p) /\ IsPrefix(q)
    BY <1>4
  <2> HIDE DEF p, q, size
  <2>3. /\ Refer(EncodeSSE(p, size, <<\h0F, \h2A>>, i.dst, i.src), i)
        /\ Refer(EncodeSSE(q, size, <<\h0F, \h2A>>, i.dst, i.src), i)
        /\ Refer(EncodeSSE(p, size, <<\h0F, \h2C>>, i.dst, i.src), i)
        /\ Refer(EncodeSSE(q, size, <<\h0F, \h2C>>, i.dst, i.src), i)
    BY <1>5, <1>6, <2>1, <2>2
  <2>4. Refer(Cvttss2si(i), i) /\ Refer(Cvttsd2si(i), i) /\ Refer(Cvtsi2ss(i), i) /\ Refer(Cvtsi2sd(i), i)
    BY <2>3 DEF Cvttss2si, Cvttsd2si, Cvtsi2ss, Cvtsi2sd, p, q, size
  <2>. QED BY <1>10, <2>4 DEF ScalarInstruction
<1>. QED BY <1>7, <1>8, <1>9, <1>10 DEF ScalarOps, BinaryScalarOps

(* Whatever overload of the assembler is called, but for a shift by a      *)
(* constant of more than a byte in memory that a symbol names: the         *)
(* relocation makes the processor read the distance to the symbol.         *)
THEOREM EncodeLeads ==
  ASSUME NEW i, IsInstruction(i), ~ShiftsLiteral(i)
  PROVE  Refer(Encode(i), i)
<1>1. PICK o \in AllOverloads : /\ o.op = i.op /\ o.size = i.size
                                /\ IsOperand(o.src, i.src, i.size) /\ IsOperand(o.dst, i.dst, i.size)
  BY DEF IsInstruction
<1>2. PICK src, dst : /\ Takes(i.op, i.size, src, dst)
                      /\ IsOperand(src, i.src, i.size) /\ IsOperand(dst, i.dst, i.size)
  <2>1. Takes(i.op, i.size, o.src, o.dst)
    BY <1>1, KindsTaken
  <2>. QED BY <1>1, <2>1
<1>3. TakesArg(i) /\ i.op \in IntegerOps \cup ScalarOps
  BY <1>2 DEF IsInstruction, Takes
<1>4. CASE i.op \in ScalarOps
  <2>1. Refer(ScalarInstruction(i), i)
    BY <1>2, <1>4, ScalarLead
  <2>. QED BY <1>4, <2>1, ScalarOpsAre DEF Encode
<1>5. CASE i.op \notin ScalarOps
  <2>1. i.op \in IntegerOps
    BY <1>3, <1>5
  <2>2. CASE i.op \in TwoOperandOps
    <3>1. /\ Refer(Add(i), i) /\ Refer(Or(i), i) /\ Refer(And(i), i) /\ Refer(Sub(i), i)
          /\ Refer(Xor(i), i) /\ Refer(Cmp(i), i) /\ Refer(Test(i), i) /\ Refer(Mov(i), i)
      BY <1>2, <2>2, TwoOperandsLead
    <3>2. Refer(IntegerInstruction(i), i)
      BY <2>2, <3>1 DEF IntegerInstruction, TwoOperandOps
    <3>. QED BY <1>5, <3>2, ScalarOpsAre DEF Encode
  <2>3. CASE i.op \in {"sal", "sar", "shr", "neg", "div", "idiv", "cdq", "leave", "ret", "push", "pop", "setcc"}
    <3>1. /\ i.op \in {"sal", "sar", "shr"} => Refer(Shift(i), i)
          /\ i.op = "neg" => Refer(Neg(i), i)
          /\ i.op \in {"div", "idiv"} => Refer(Div(i), i)
          /\ i.op = "cdq" => Refer(Cdq(i), i)
          /\ i.op = "leave" => Refer(Leave(i), i)
          /\ i.op = "ret" => Refer(Ret(i), i)
          /\ i.op = "push" => Refer(Push(i), i)
          /\ i.op = "pop" => Refer(Pop(i), i)
          /\ i.op = "setcc" => Refer(SetCC(i), i)
      BY <1>2, UnaryLeads
    <3>2. Refer(IntegerInstruction(i), i)
      BY <2>3, <3>1 DEF IntegerInstruction
    <3>. QED BY <1>5, <3>2, ScalarOpsAre DEF Encode
  <2>4. CASE i.op \in {"lea", "movzx", "movsx", "movsxd", "cmov", "call"}
    <3>1. /\ i.op = "lea" => Refer(Lea(i), i)
          /\ i.op = "movzx" => Refer(Movzx(i), i)
          /\ i.op = "movsx" => Refer(Movsx(i), i)
          /\ i.op = "movsxd" => Refer(Movsxd(i), i)
          /\ i.op = "cmov" => Refer(CMov(i), i)
          /\ i.op = "call" => Refer(Call(i), i)
      BY <1>2, <1>3, MovesLead
    <3>2. Refer(IntegerInstruction(i), i)
      BY <2>4, <3>1 DEF IntegerInstruction
    <3>. QED BY <1>5, <3>2, ScalarOpsAre DEF Encode
  <2>. QED BY <2>1, <2>2, <2>3, <2>4 DEF IntegerOps, TwoOperandOps
<1>. QED BY <1>4, <1>5

-------------------------------------------------------------------------------
(* Relocations: what is linked, and what waits to be.                      *)

\* An instruction that is emitted with a relocation.
HasLink(i) ==
  /\ ~IsJump(i) /\ ~IsLeaf(i) /\ Len(Encode(i).bytes) \in Nat
  /\ Encode(i).relocs # <<>>
  /\ \E r \in {Encode(i).relocs[1]} :
       Encode(i).relocs = <<r>> /\ IsReloc(r) /\ r.type # "GLOB_DAT" /\ r.offset + 4 <= Len(Encode(i).bytes)

\* The relocation of an instruction that starts at s, as the module has it.
LinkOf(i, s) == [Encode(i).relocs[1] EXCEPT !.offset = @ + s, !.disp = @ + s]

\* What a relocation of an instruction writes into its field.
Resolved(r) == IF r.type = "PC32" THEN chunks[r.sym].start - r.disp ELSE PltEntry(r.sym) - PltSize - r.disp

\* An instruction from s to e has the bytes it was emitted with, but for the field of its relocation.
Stands(b, i, s, e) == e = s + Len(Encode(i).bytes) /\ Kept(b, Encode(i), s)

\* A relocation waits, or its field holds its value.
Linked(r) ==
  (\E y \in 1 .. Len(relocs) : relocs[y] = r) \/ (phase # "emit" /\ Holds(buffer, r.offset, Resolved(r)))

\* What instructions refer to is linked, or will be.
CodePlaced ==
  \A n \in 1 .. unit + 1 : \A k \in Placed(n) :
    HasLink(ItemAt(n, k)) =>
      /\ Stands(buffer, ItemAt(n, k), StartsAt(n, k), EndsAt(n, k))
      /\ Linked(LinkOf(ItemAt(n, k), StartsAt(n, k)))

\* A relocation of what is from s to e: of an instruction, the one it was emitted with.
Owned(i, s, e, r) ==
  /\ ~IsJump(i) /\ s <= r.offset /\ r.offset + WidthOf(r) <= e
  /\ HasLink(i) => r = LinkOf(i, s)

\* A relocation that waits is that of one item.
RelocsOwned ==
  \A x \in 1 .. Len(relocs) : \E n \in 1 .. unit + 1 : \E k \in Placed(n) :
    Owned(ItemAt(n, k), StartsAt(n, k), EndsAt(n, k), relocs[x])

\* A unit that is finished has a start.
Started == \A n \in 1 .. unit : chunks[AllUnits[n].sym].start \in Nat

\* What is linked, and what waits to be.
LinkInv ==
  /\ phase = "done" => relocs = <<>>
  /\ phase # "size" => CodePlaced /\ RelocsOwned /\ Started

\* The relocation of an instruction lies in it.
LEMMA LinkFacts ==
  ASSUME NEW i, HasLink(i), NEW s \in Nat
  PROVE  /\ Encode(i).relocs # <<>> /\ Encode(i).relocs[1].offset \in Nat /\ Len(Encode(i).bytes) \in Nat
         /\ LinkOf(i, s).offset = Encode(i).relocs[1].offset + s
         /\ LinkOf(i, s).disp = Encode(i).relocs[1].disp + s
         /\ LinkOf(i, s).sym = Encode(i).relocs[1].sym /\ LinkOf(i, s).type = Encode(i).relocs[1].type
         /\ IsReloc(LinkOf(i, s)) /\ LinkOf(i, s).type # "GLOB_DAT"
         /\ s <= LinkOf(i, s).offset /\ LinkOf(i, s).offset + 4 <= s + Len(Encode(i).bytes)
<1>1. PICK r : /\ Encode(i).relocs = <<r>> /\ IsReloc(r) /\ r.type # "GLOB_DAT"
               /\ r.offset + 4 <= Len(Encode(i).bytes)
  BY DEF HasLink
<1>2. Encode(i).relocs[1] = r /\ Encode(i).relocs # <<>> /\ Len(Encode(i).bytes) \in Nat
  BY <1>1 DEF HasLink
<1> DEFINE m == [r EXCEPT !.offset = @ + s, !.disp = @ + s]
<1>3. LinkOf(i, s) = m
  BY <1>2 DEF LinkOf
<1>4. m.offset = r.offset + s /\ m.disp = r.disp + s /\ m.sym = r.sym /\ m.type = r.type /\ DOMAIN m = DOMAIN r
  BY <1>1 DEF IsReloc
<1>5. r.offset \in Nat /\ r.disp \in Int
  BY <1>1 DEF IsReloc
<1> HIDE DEF m
<1>6. IsReloc(m)
  BY <1>1, <1>4, <1>5 DEF IsReloc
<1>. QED BY <1>1, <1>2, <1>3, <1>4, <1>5, <1>6

\* An instruction is made of its own bytes, a field of its own.
LEMMA SameBytes ==
  ASSUME NEW b, NEW c, NEW s \in Nat, NEW e \in Nat, \A x \in s + 1 .. e : c[x] = b[x]
  PROVE  /\ \A i : HasLink(i) /\ Stands(b, i, s, e) => Stands(c, i, s, e)
         /\ \A at, v : at \in Nat /\ s <= at /\ at + 4 <= e /\ Holds(b, at, v) => Holds(c, at, v)
<1>1. ASSUME NEW i, HasLink(i), Stands(b, i, s, e) PROVE Stands(c, i, s, e)
  <2> DEFINE l == Len(Encode(i).bytes)
  <2>1. l \in Nat /\ e = s + l /\ Kept(b, Encode(i), s)
    BY <1>1 DEF HasLink, Stands
  <2> HIDE DEF l
  <2>2. \A x \in 1 .. l : s + x \in s + 1 .. e
    BY <2>1
  <2>3. \A x \in 1 .. l : c[s + x] = b[s + x]
    BY <2>2
  <2>4. Kept(c, Encode(i), s)
    BY <2>1, <2>3 DEF Kept, l
  <2>. QED BY <2>1, <2>4 DEF Stands, l
<1>2. ASSUME NEW at, NEW v, at \in Nat, s <= at, at + 4 <= e, Holds(b, at, v) PROVE Holds(c, at, v)
  <2>1. \A j \in 1 .. 4 : at + j \in s + 1 .. e
    BY <1>2
  <2>. QED BY <1>2, <2>1 DEF Holds
<1>. QED BY <1>1, <1>2

\* An instruction that is emitted stands, and its relocation waits.
LEMMA CodeEmitting ==
  ASSUME TypeInv, Spread, CodePlaced, Emitting, phase # "size"
  PROVE  CodePlaced'
<1>1. /\ AllUnits' = AllUnits /\ unit' = unit /\ phase' = phase
      /\ \A n \in 1 .. unit + 1 : \A k \in Placed(n) :
           k \in Placed(n)' /\ StartsAt(n, k)' = StartsAt(n, k) /\ EndsAt(n, k)' = EndsAt(n, k)
      /\ \A n \in 1 .. unit + 1 : \A k \in Placed(n)' : k \in Placed(n) \/ (n = unit + 1 /\ k = At + 1)
      /\ \A n, a : n = unit + 1 /\ a = At + 1 =>
           a \in Placed(n)' /\ StartsAt(n, a)' = Len(buffer) /\ EndsAt(n, a)' = Len(buffer')
  BY EmittingPlaces
<1>2. Item = ItemAt(unit + 1, At + 1) /\ unit \in Nat
  BY NextItem
<1>3. /\ Len(buffer) \in Nat /\ Len(EmittedNow.bytes) \in Nat /\ Len(buffer') = Len(buffer) + Len(EmittedNow.bytes)
      /\ \A j \in 1 .. Len(buffer) : buffer'[j] = buffer[j]
      /\ \A j \in 1 .. Len(EmittedNow.bytes) : buffer'[Len(buffer) + j] = EmittedNow.bytes[j]
  BY EmittingFacts DEF TypeInv, IsSequence
<1>4. \A n, k : ItemAt(n, k)' = ItemAt(n, k)
  BY <1>1 DEF ItemAt
<1>5. phase = "emit"
  BY DEF Emitting, UnitOpen
<1>6. Len(relocs) \in Nat /\ IsSequence(relocs') /\ \A n \in 1 .. Len(relocs) : n \in 1 .. Len(relocs') /\ relocs'[n] = relocs[n]
  <2>1. IsSequence(relocs) /\ relocs' = relocs \o Moved(EmittedNow.relocs, Len(buffer))
    BY <1>5 DEF TypeInv, Emitting, Put
  <2>2. EmittedNow.relocs = <<>> \/ \E r : EmittedNow.relocs = <<r>> /\ IsReloc(r)
    BY EmittedTyped DEF Emitting
  <2>3. Follows(relocs', relocs, EmittedNow.relocs, Len(buffer))
    BY <1>3, <2>1, <2>2, RelocsMoved DEF TypeInv
  <2> DEFINE e == EmittedNow.relocs
  <2>4. /\ IsSequence(relocs') /\ \A n \in 1 .. Len(relocs) : relocs'[n] = relocs[n]
        /\ e = <<>> => relocs' = relocs
        /\ \A r : e = <<r>> => Len(relocs') = Len(relocs) + 1
    BY <2>3 DEF Follows
  <2>5. e = <<>> \/ \E r : e = <<r>>
    BY <2>2
  <2> HIDE DEF e
  <2>6. Len(relocs) \in Nat
    BY <2>1 DEF IsSequence
  <2>7. Len(relocs') = Len(relocs) \/ Len(relocs') = Len(relocs) + 1
    BY <2>4, <2>5
  <2>. QED BY <2>4, <2>6, <2>7
<1>7. ASSUME HasLink(Item)
      PROVE  /\ Stands(buffer', Item, Len(buffer), Len(buffer'))
             /\ \E y \in 1 .. Len(relocs') : relocs'[y] = LinkOf(Item, Len(buffer))
  <2>1. EmittedNow = Encode(Item)
    BY <1>7 DEF HasLink, EmittedNow
  <2>2. PICK r : Encode(Item).relocs = <<r>> /\ IsReloc(r)
    BY <1>7 DEF HasLink
  <2>3. relocs' = relocs \o Moved(<<r>>, Len(buffer))
    BY <1>5, <2>1, <2>2 DEF Emitting, Put
  <2>4. Follows(relocs', relocs, <<r>>, Len(buffer))
    <3>1. IsSequence(relocs) /\ \A n \in 1 .. Len(relocs) : IsReloc(relocs[n])
      BY DEF TypeInv
    <3> DEFINE e == <<r>>
    <3>2. e = <<>> \/ \E q : e = <<q>> /\ IsReloc(q)
      BY <2>2
    <3>3. relocs' = relocs \o Moved(e, Len(buffer))
      BY <2>3
    <3> HIDE DEF e
    <3>4. Follows(relocs', relocs, e, Len(buffer))
      BY <1>3, <3>1, <3>2, <3>3, RelocsMoved
    <3>. QED BY <3>4 DEF e
  <2>5. Len(relocs') = Len(relocs) + 1
        /\ relocs'[Len(relocs) + 1] = [r EXCEPT !.offset = @ + Len(buffer), !.disp = @ + Len(buffer)]
    BY <2>4 DEF Follows
  <2>6. Encode(Item).relocs[1] = r
    BY <2>2
  <2>7. relocs'[Len(relocs) + 1] = LinkOf(Item, Len(buffer))
    BY <2>5, <2>6 DEF LinkOf
  <2>8. Len(relocs) + 1 \in 1 .. Len(relocs')
    BY <1>6, <2>5
  <2>9. Kept(buffer', Encode(Item), Len(buffer))
    BY <1>3, <2>1 DEF Kept
  <2>. QED BY <1>3, <2>1, <2>7, <2>8, <2>9 DEF Stands
<1> SUFFICES \A n \in 1 .. unit + 1 : \A k \in Placed(n)' :
               HasLink(ItemAt(n, k)) =>
                 /\ Stands(buffer', ItemAt(n, k), StartsAt(n, k)', EndsAt(n, k)')
                 /\ \E y \in 1 .. Len(relocs') : relocs'[y] = LinkOf(ItemAt(n, k), StartsAt(n, k)')
  BY <1>1, <1>4 DEF CodePlaced, Linked
<1> SUFFICES ASSUME NEW n \in 1 .. unit + 1, NEW k \in Placed(n)', HasLink(ItemAt(n, k))
             PROVE  /\ Stands(buffer', ItemAt(n, k), StartsAt(n, k)', EndsAt(n, k)')
                    /\ \E y \in 1 .. Len(relocs') : relocs'[y] = LinkOf(ItemAt(n, k), StartsAt(n, k)')
  OBVIOUS
<1>8. CASE k \in Placed(n)
  <2>1. StartsAt(n, k)' = StartsAt(n, k) /\ EndsAt(n, k)' = EndsAt(n, k)
    BY <1>1, <1>8
  <2>2. StartsAt(n, k) \in Nat /\ EndsAt(n, k) \in Nat /\ EndsAt(n, k) <= Len(buffer)
    BY <1>8 DEF Spread
  <2>3. \A x \in StartsAt(n, k) + 1 .. EndsAt(n, k) : buffer'[x] = buffer[x]
    <3>1. \A x \in StartsAt(n, k) + 1 .. EndsAt(n, k) : x \in 1 .. Len(buffer)
      BY <1>3, <2>2
    <3>. QED BY <1>3, <3>1
  <2>4. Stands(buffer, ItemAt(n, k), StartsAt(n, k), EndsAt(n, k)) /\ Linked(LinkOf(ItemAt(n, k), StartsAt(n, k)))
    BY <1>8 DEF CodePlaced
  <2>5. Stands(buffer', ItemAt(n, k), StartsAt(n, k), EndsAt(n, k))
    BY <2>2, <2>3, <2>4, SameBytes
  <2>6. PICK y \in 1 .. Len(relocs) : relocs[y] = LinkOf(ItemAt(n, k), StartsAt(n, k))
    BY <1>5, <2>4 DEF Linked
  <2>. QED BY <1>6, <2>1, <2>5, <2>6
<1>9. CASE n = unit + 1 /\ k = At + 1
  <2>1. StartsAt(n, k)' = Len(buffer) /\ EndsAt(n, k)' = Len(buffer') /\ ItemAt(n, k) = Item
    BY <1>1, <1>2, <1>9
  <2>. QED BY <1>7, <2>1
<1>. QED BY <1>1, <1>8, <1>9

\* The relocation of an item is its own.
LEMMA OwnedEmitting ==
  ASSUME TypeInv, Spread, RelocsOwned, Emitting, phase # "size"
  PROVE  RelocsOwned'
<1>1. /\ AllUnits' = AllUnits /\ unit' = unit
      /\ \A n \in 1 .. unit + 1 : \A k \in Placed(n) :
           k \in Placed(n)' /\ StartsAt(n, k)' = StartsAt(n, k) /\ EndsAt(n, k)' = EndsAt(n, k)
      /\ \A n, a : n = unit + 1 /\ a = At + 1 =>
           a \in Placed(n)' /\ StartsAt(n, a)' = Len(buffer) /\ EndsAt(n, a)' = Len(buffer')
  BY EmittingPlaces
<1>2. Item = ItemAt(unit + 1, At + 1) /\ unit \in Nat
  BY NextItem
<1>3. Len(buffer) \in Nat /\ Len(EmittedNow.bytes) \in Nat /\ Len(buffer') = Len(buffer) + Len(EmittedNow.bytes)
  BY EmittingFacts DEF TypeInv, IsSequence
<1>4. \A n, k : ItemAt(n, k)' = ItemAt(n, k)
  BY <1>1 DEF ItemAt
<1> SUFFICES \A x \in 1 .. Len(relocs') : \E n \in 1 .. unit + 1 : \E k \in Placed(n)' :
               Owned(ItemAt(n, k), StartsAt(n, k)', EndsAt(n, k)', relocs'[x])
  BY <1>1, <1>4 DEF RelocsOwned
<1> SUFFICES ASSUME NEW x \in 1 .. Len(relocs')
             PROVE  \E n \in 1 .. unit + 1 : \E k \in Placed(n)' :
                      Owned(ItemAt(n, k), StartsAt(n, k)', EndsAt(n, k)', relocs'[x])
  OBVIOUS
<1>5. CASE x \in 1 .. Len(relocs)
  <2>1. relocs'[x] = relocs[x]
    BY <1>5, RelocsEmitted
  <2>2. PICK n \in 1 .. unit + 1 : \E k \in Placed(n) : Owned(ItemAt(n, k), StartsAt(n, k), EndsAt(n, k), relocs[x])
    BY <1>5 DEF RelocsOwned
  <2>3. PICK k \in Placed(n) : Owned(ItemAt(n, k), StartsAt(n, k), EndsAt(n, k), relocs[x])
    BY <2>2
  <2>4. k \in Placed(n)' /\ StartsAt(n, k)' = StartsAt(n, k) /\ EndsAt(n, k)' = EndsAt(n, k)
    BY <1>1
  <2>. QED BY <2>1, <2>3, <2>4
<1>6. CASE x \notin 1 .. Len(relocs)
  <2>1. PICK r : /\ EmittedNow.relocs = <<r>> /\ IsReloc(r) /\ r.offset + WidthOf(r) <= Len(EmittedNow.bytes)
                 /\ relocs'[x] = [r EXCEPT !.offset = @ + Len(buffer), !.disp = @ + Len(buffer)]
    BY <1>6, RelocsEmitted
  <2>2. ~IsJump(Item)
    <3>1. EmittedNow.relocs # <<>>
      BY <2>1
    <3>. QED BY <3>1, EmittedTyped DEF Emitting
  <2>3. relocs'[x].offset = r.offset + Len(buffer) /\ relocs'[x].type = r.type /\ r.offset \in Nat
    BY <2>1 DEF IsReloc
  <2>4. WidthOf(relocs'[x]) = WidthOf(r) /\ WidthOf(r) \in Nat
    BY <2>3 DEF WidthOf
  <2>5. PICK n, a : n = unit + 1 /\ a = At + 1
    OBVIOUS
  <2>6. n \in 1 .. unit + 1 /\ a \in Placed(n)' /\ StartsAt(n, a)' = Len(buffer) /\ EndsAt(n, a)' = Len(buffer')
    BY <1>1, <1>2, <2>5
  <2>7. Len(buffer) <= relocs'[x].offset /\ relocs'[x].offset + WidthOf(relocs'[x]) <= Len(buffer')
    BY <1>3, <2>1, <2>3, <2>4
  <2>8. HasLink(Item) => relocs'[x] = LinkOf(Item, Len(buffer))
    <3> SUFFICES ASSUME HasLink(Item) PROVE relocs'[x] = LinkOf(Item, Len(buffer))
      OBVIOUS
    <3>1. EmittedNow = Encode(Item)
      BY DEF HasLink, EmittedNow
    <3>2. Encode(Item).relocs[1] = r
      BY <2>1, <3>1
    <3>. QED BY <2>1, <3>2 DEF LinkOf
  <2>9. Owned(Item, Len(buffer), Len(buffer'), relocs'[x])
    BY <2>2, <2>7, <2>8 DEF Owned
  <2>10. ItemAt(n, a) = Item
    BY <1>2, <2>5
  <2>. QED BY <2>6, <2>9, <2>10
<1>. QED BY <1>5, <1>6

\* Emitting an item keeps the invariant.
LEMMA LinkEmitting ==
  ASSUME TypeInv, SpanInv, LinkInv, Emitting
  PROVE  LinkInv'
<1>1. phase' = phase /\ phase \in {"size", "emit"} /\ UNCHANGED <<unit, chunks, module>>
  BY DEF Emitting, Put, UnitOpen
<1>2. CASE phase = "size"
  BY <1>1, <1>2 DEF LinkInv
<1>3. CASE phase # "size"
  <2>1. CodePlaced /\ RelocsOwned /\ Started /\ Spread
    BY <1>3 DEF LinkInv, SpanInv
  <2>2. CodePlaced' /\ RelocsOwned'
    BY <1>3, <2>1, CodeEmitting, OwnedEmitting
  <2>3. Started'
    BY <1>1, <2>1 DEF Started, AllUnits
  <2>. QED BY <1>1, <2>2, <2>3 DEF LinkInv
<1>. QED BY <1>2, <1>3

\* Closing a unit changes only jumps.
LEMMA CodeFinishUnit ==
  ASSUME TypeInv, Chunked, Spread, Apart, JumpsPlaced, GapsPlaced, CodePlaced, RelocsOwned, Started,
         FinishUnit, phase # "size"
  PROVE  CodePlaced' /\ RelocsOwned' /\ Started'
<1>1. /\ AllUnits' = AllUnits /\ unit' = unit + 1 /\ phase' = phase /\ relocs' = relocs /\ gaps' = {} /\ offsets' = <<>>
      /\ unit \in Nat /\ unit + 1 \in 1 .. Len(AllUnits)
      /\ \A n \in 1 .. unit + 1 :
           Placed(n)' = Placed(n) /\ \A k \in Placed(n) : StartsAt(n, k)' = StartsAt(n, k) /\ EndsAt(n, k)' = EndsAt(n, k)
      /\ \A n : n = unit + 2 => Placed(n)' = {}
  BY FinishPlaces DEF TypeInv
<1>2. phase = "emit"
  BY DEF FinishUnit, UnitOpen
<1>3. \A n \in 1 .. unit' + 1 : \A k \in Placed(n)' :
        /\ n \in 1 .. unit + 1 /\ k \in Placed(n) /\ StartsAt(n, k)' = StartsAt(n, k) /\ EndsAt(n, k)' = EndsAt(n, k)
  <2> SUFFICES ASSUME NEW n \in 1 .. unit + 2, NEW k \in Placed(n)'
               PROVE  /\ n \in 1 .. unit + 1 /\ k \in Placed(n) /\ StartsAt(n, k)' = StartsAt(n, k) /\ EndsAt(n, k)' = EndsAt(n, k)
    BY <1>1
  <2>1. n # unit + 2
    BY <1>1
  <2>2. n \in 1 .. unit + 1
    BY <1>1, <2>1
  <2>. QED BY <1>1, <2>2
<1>4. \A n, k : ItemAt(n, k)' = ItemAt(n, k)
  BY <1>1 DEF ItemAt
<1>5. Filled(buffer', gaps)
  <2>1. buffer' = ResolveAndPatch
    BY <1>2, FinishUnitFacts
  <2>. QED BY <2>1, PatchesEach, GapsApart DEF TypeInv
<1>6. ASSUME NEW n \in 1 .. unit + 1, NEW k \in Placed(n), HasLink(ItemAt(n, k))
      PROVE  /\ Stands(buffer', ItemAt(n, k), StartsAt(n, k), EndsAt(n, k))
             /\ \E y \in 1 .. Len(relocs) : relocs[y] = LinkOf(ItemAt(n, k), StartsAt(n, k))
  <2>1. StartsAt(n, k) \in Nat /\ EndsAt(n, k) \in Nat /\ EndsAt(n, k) <= Len(buffer) /\ Len(buffer) \in Nat
    BY DEF Spread, TypeInv, IsSequence
  <2>2. ~IsJump(ItemAt(n, k))
    BY <1>6 DEF HasLink
  <2>3. \A x \in StartsAt(n, k) + 1 .. EndsAt(n, k) : \A g \in gaps : ~InField(g, x)
    BY <2>2, FieldsApart
  <2>4. \A x \in StartsAt(n, k) + 1 .. EndsAt(n, k) : x \in 1 .. Len(buffer)
    BY <2>1
  <2>5. \A x \in StartsAt(n, k) + 1 .. EndsAt(n, k) : buffer'[x] = buffer[x]
    BY <1>5, <2>3, <2>4 DEF Filled
  <2>6. Stands(buffer, ItemAt(n, k), StartsAt(n, k), EndsAt(n, k)) /\ Linked(LinkOf(ItemAt(n, k), StartsAt(n, k)))
    BY <1>6 DEF CodePlaced
  <2>7. Stands(buffer', ItemAt(n, k), StartsAt(n, k), EndsAt(n, k))
    BY <1>6, <2>1, <2>5, <2>6, SameBytes
  <2>. QED BY <1>2, <2>6, <2>7 DEF Linked
<1>7. CodePlaced'
  <2> SUFFICES \A n \in 1 .. unit' + 1 : \A k \in Placed(n)' :
                 HasLink(ItemAt(n, k)) =>
                   /\ Stands(buffer', ItemAt(n, k), StartsAt(n, k)', EndsAt(n, k)')
                   /\ \E y \in 1 .. Len(relocs) : relocs[y] = LinkOf(ItemAt(n, k), StartsAt(n, k)')
    BY <1>1, <1>4 DEF CodePlaced, Linked
  <2>. QED BY <1>3, <1>6
<1>8. RelocsOwned'
  <2> SUFFICES \A x \in 1 .. Len(relocs) : \E n \in 1 .. unit' + 1 : \E k \in Placed(n)' :
                 Owned(ItemAt(n, k), StartsAt(n, k)', EndsAt(n, k)', relocs[x])
    BY <1>1, <1>4 DEF RelocsOwned
  <2> SUFFICES ASSUME NEW x \in 1 .. Len(relocs)
               PROVE  \E n \in 1 .. unit' + 1 : \E k \in Placed(n)' :
                        Owned(ItemAt(n, k), StartsAt(n, k)', EndsAt(n, k)', relocs[x])
    OBVIOUS
  <2>1. PICK n \in 1 .. unit + 1 : \E k \in Placed(n) : Owned(ItemAt(n, k), StartsAt(n, k), EndsAt(n, k), relocs[x])
    BY DEF RelocsOwned
  <2>2. PICK k \in Placed(n) : Owned(ItemAt(n, k), StartsAt(n, k), EndsAt(n, k), relocs[x])
    BY <2>1
  <2>3. n \in 1 .. unit' + 1 /\ k \in Placed(n)' /\ StartsAt(n, k)' = StartsAt(n, k) /\ EndsAt(n, k)' = EndsAt(n, k)
    BY <1>1
  <2>. QED BY <2>2, <2>3
<1>9. Started'
  <2>1. StartOfUnit \in Nat
    <3>1. Len(buffer) \in Nat /\ offsets \in Seq(Nat)
      BY DEF TypeInv, IsSequence
    <3>2. CASE offsets = <<>>
      BY <3>1, <3>2 DEF StartOfUnit
    <3>3. CASE offsets # <<>>
      <4>1. 1 \in 1 .. Len(offsets)
        BY <3>1, <3>3
      <4>2. offsets[1] \in Nat
        BY <3>1, <4>1, ElementOfSeq
      <4>. QED BY <3>3, <4>2 DEF StartOfUnit
    <3>. QED BY <3>2, <3>3
  <2>2. chunks' = [s \in DOMAIN chunks \cup {Unit.sym} |->
                     IF s = Unit.sym
                     THEN [start |-> StartOfUnit, size |-> Len(buffer) - StartOfUnit, offsets |-> offsets]
                     ELSE chunks[s]]
    BY <1>2 DEF FinishUnit
  <2>3. Unit = AllUnits[unit + 1]
    BY <1>2, UnitsPlaced DEF Unit
  <2> SUFFICES \A n \in 1 .. unit + 1 : chunks'[AllUnits[n].sym].start \in Nat
    BY <1>1 DEF Started
  <2> SUFFICES ASSUME NEW n \in 1 .. unit + 1 PROVE chunks'[AllUnits[n].sym].start \in Nat
    OBVIOUS
  <2>4. CASE AllUnits[n].sym = Unit.sym
    <3> DEFINE c == [start |-> StartOfUnit, size |-> Len(buffer) - StartOfUnit, offsets |-> offsets]
    <3>1. chunks'[AllUnits[n].sym] = c
      BY <2>2, <2>4
    <3>2. c.start = StartOfUnit
      OBVIOUS
    <3>. QED BY <2>1, <3>1, <3>2
  <2>5. CASE AllUnits[n].sym # Unit.sym
    <3>1. n # unit + 1
      BY <2>3, <2>5
    <3>2. n \in 1 .. unit
      BY <1>1, <3>1
    <3>3. AllUnits[n].sym \in DOMAIN chunks
      BY <3>2 DEF Chunked
    <3>4. chunks'[AllUnits[n].sym] = chunks[AllUnits[n].sym]
      BY <2>2, <2>5, <3>3
    <3>. QED BY <3>2, <3>4 DEF Started
  <2>. QED BY <2>4, <2>5
<1>. QED BY <1>7, <1>8, <1>9

\* A relocation of an instruction writes the distance into its field.
LEMMA PatchHolds ==
  ASSUME NEW r, IsReloc(r), r.type # "GLOB_DAT", IsSequence(buffer), r.offset + 4 <= Len(buffer)
  PROVE  Holds(Patched(r), r.offset, Resolved(r))
<1> DEFINE f == LittleEndian(Resolved(r), 4)
<1>1. Patched(r) = Patch(buffer, r.offset, f)
  <2>1. CASE r.type = "PC32"
    BY <2>1 DEF Patched, Resolved
  <2>2. CASE r.type = "PLT32"
    BY <2>2 DEF Patched, Resolved
  <2>. QED BY <2>1, <2>2 DEF IsReloc
<1>2. Len(f) = 4
  BY DEF LittleEndian
<1> HIDE DEF f
<1>3. Len(buffer) \in Nat /\ r.offset \in Nat
  BY DEF IsReloc, IsSequence
<1>4. \A j \in 1 .. 4 : r.offset + j \in 1 .. Len(buffer) /\ (r.offset + j) - r.offset = j
  BY <1>3
<1>5. \A k \in 1 .. Len(buffer) : k - r.offset \in 1 .. 4 => Patched(r)[k] = f[k - r.offset]
  <2> DEFINE at == r.offset
             c == Patch(buffer, at, f)
  <2>1. \A k \in 1 .. Len(buffer) : k - at \in 1 .. Len(f) => c[k] = f[k - at]
    BY BytesPatched
  <2>2. Patched(r) = c
    BY <1>1
  <2> HIDE DEF c
  <2>. QED BY <1>2, <2>1, <2>2
<1>6. \A j \in 1 .. 4 : Patched(r)[r.offset + j] = f[j]
  BY <1>4, <1>5
<1>. QED BY <1>6 DEF Holds, f

\* A relocation is applied to its own item.
LEMMA LinkRelocate ==
  ASSUME TypeInv, SpanInv, LinkInv, Relocate
  PROVE  LinkInv'
<1>1. /\ IsReloc(relocs[1]) /\ Len(relocs') = Len(relocs) - 1 /\ Len(relocs) \in Nat /\ Len(relocs') \in Nat
      /\ \A n \in 1 .. Len(relocs') : relocs'[n] = relocs[n + 1]
      /\ Len(buffer') = Len(buffer) /\ IsSequence(buffer) /\ Len(buffer) \in Nat
  BY RelocateFacts DEF TypeInv, IsSequence
<1>2. PICK field : Len(field) = WidthOf(relocs[1]) /\ buffer' = Patch(buffer, relocs[1].offset, field)
  BY RelocateFacts
<1>3. /\ phase = "relocate" /\ phase' = phase /\ UNCHANGED <<module, unit, offsets, gaps, chunks>>
      /\ buffer' = Patched(relocs[1])
  <2>1. relocs \in Seq(Range(relocs)) /\ relocs # <<>>
    BY DEF TypeInv, IsSequence, Relocate
  <2>2. Head(relocs) = relocs[1]
    BY <2>1
  <2>. QED BY <2>2 DEF Relocate
<1>4. Spread /\ Apart /\ CodePlaced /\ RelocsOwned /\ Started
  BY <1>3 DEF SpanInv, LinkInv
<1>5. AllUnits' = AllUnits
  BY <1>3 DEF AllUnits
<1>6. \A n : Offsets(n)' = Offsets(n) /\ EndOfUnit(n)' = EndOfUnit(n)
  BY <1>1, <1>3, <1>5 DEF Offsets, EndOfUnit
<1>7. \A n, k : /\ Placed(n)' = Placed(n) /\ StartsAt(n, k)' = StartsAt(n, k) /\ EndsAt(n, k)' = EndsAt(n, k)
                /\ ItemAt(n, k)' = ItemAt(n, k)
  BY <1>5, <1>6 DEF Placed, StartsAt, EndsAt, ItemAt
<1>8. \A r : Resolved(r)' = Resolved(r)
  BY <1>3 DEF Resolved, PltEntry, PltSize
<1> DEFINE o == relocs[1].offset
           w == WidthOf(relocs[1])
<1>9. PICK m \in 1 .. unit + 1 : \E j \in Placed(m) : Owned(ItemAt(m, j), StartsAt(m, j), EndsAt(m, j), relocs[1])
  <2>1. 1 \in 1 .. Len(relocs)
    BY <1>1
  <2>. QED BY <1>4, <2>1 DEF RelocsOwned
<1>10. PICK j \in Placed(m) : Owned(ItemAt(m, j), StartsAt(m, j), EndsAt(m, j), relocs[1])
  BY <1>9
<1>11. w \in {4, 8} /\ o \in Nat /\ StartsAt(m, j) <= o /\ o + w <= EndsAt(m, j)
       /\ StartsAt(m, j) \in Nat /\ EndsAt(m, j) \in Nat /\ EndsAt(m, j) <= Len(buffer)
  BY <1>1, <1>4, <1>10 DEF WidthOf, IsReloc, Owned, Spread
<1>12. \A x \in 1 .. Len(buffer) : ~(x - o \in 1 .. w) => buffer'[x] = buffer[x]
  BY <1>1, <1>2, BytesPatched
<1> HIDE DEF o, w
<1>13. ASSUME NEW n \in 1 .. unit + 1, NEW k \in Placed(n), n # m \/ k # j, NEW x \in StartsAt(n, k) + 1 .. EndsAt(n, k)
       PROVE  buffer'[x] = buffer[x]
  <2> DEFINE s == StartsAt(n, k)
             e == EndsAt(n, k)
             t == StartsAt(m, j)
             f == EndsAt(m, j)
  <2>1. s \in Nat /\ e \in Nat /\ e <= Len(buffer)
    BY <1>4 DEF Spread
  <2>2. e <= t \/ f <= s
    BY <1>4, <1>13 DEF Apart
  <2>3. x \in s + 1 .. e
    BY <1>13
  <2>4. o \in Nat /\ w \in {4, 8} /\ t \in Nat /\ f \in Nat /\ t <= o /\ o + w <= f
    BY <1>11
  <2> HIDE DEF s, e, t, f
  <2>5. x \in 1 .. Len(buffer) /\ ~(x - o \in 1 .. w)
    BY <1>1, <2>1, <2>2, <2>3, <2>4
  <2>. QED BY <1>12, <2>5
<1>14. ASSUME NEW n \in 1 .. unit + 1, NEW k \in Placed(n), HasLink(ItemAt(n, k))
       PROVE  /\ Stands(buffer', ItemAt(n, k), StartsAt(n, k), EndsAt(n, k))
              /\ \A r : r = LinkOf(ItemAt(n, k), StartsAt(n, k)) =>
                   (\E y \in 1 .. Len(relocs') : relocs'[y] = r) \/ Holds(buffer', r.offset, Resolved(r))
  <2> DEFINE i == ItemAt(n, k)
             s == StartsAt(n, k)
             e == EndsAt(n, k)
             l == LinkOf(i, s)
  <2>1. s \in Nat /\ e \in Nat /\ e <= Len(buffer)
    BY <1>4 DEF Spread
  <2>2. Stands(buffer, i, s, e) /\ Linked(l)
    BY <1>4, <1>14 DEF CodePlaced
  <2>3. HasLink(i)
    BY <1>14
  <2>4. n = m /\ k = j => l = relocs[1]
    BY <1>10, <1>14 DEF Owned
  <2>5. n # m \/ k # j => \A x \in s + 1 .. e : buffer'[x] = buffer[x]
    BY <1>13
  <2> HIDE DEF i, s, e, l
  <2>6. /\ Encode(i).relocs # <<>> /\ Encode(i).relocs[1].offset \in Nat /\ Len(Encode(i).bytes) \in Nat
        /\ l.offset = Encode(i).relocs[1].offset + s
        /\ IsReloc(l) /\ l.type # "GLOB_DAT" /\ l.offset \in Nat
        /\ s <= l.offset /\ l.offset + 4 <= s + Len(Encode(i).bytes) /\ e = s + Len(Encode(i).bytes)
    <3>1. l = LinkOf(i, s)
      BY DEF l
    <3>2. /\ Encode(i).relocs # <<>> /\ Encode(i).relocs[1].offset \in Nat /\ Len(Encode(i).bytes) \in Nat
          /\ l.offset = Encode(i).relocs[1].offset + s
          /\ IsReloc(l) /\ l.type # "GLOB_DAT" /\ s <= l.offset /\ l.offset + 4 <= s + Len(Encode(i).bytes)
      BY <2>1, <2>3, <3>1, LinkFacts
    <3>3. l.offset \in Nat
      BY <3>2 DEF IsReloc
    <3>. QED BY <2>2, <3>2, <3>3 DEF Stands
  <2>7. CASE l = relocs[1]
    <3>1. Holds(buffer', l.offset, Resolved(l))
      <4>1. l.offset + 4 <= Len(buffer)
        <5>1. l.offset + 4 <= e /\ l.offset \in Nat
          BY <2>6
        <5>. QED BY <1>1, <2>1, <5>1
      <4>2. buffer' = Patched(l)
        BY <1>3, <2>7
      <4>. QED BY <1>1, <2>6, <4>1, <4>2, PatchHolds
    <3>2. Stands(buffer', i, s, e)
      <4> DEFINE q == Encode(i).relocs[1].offset
                 c == Encode(i).bytes
      <4>1. w = 4 /\ o = q + s
        BY <2>6, <2>7 DEF w, o, WidthOf
      <4>2. \A x \in 1 .. Len(c) : x - q \notin 1 .. 4 => buffer[s + x] = c[x]
        BY <2>2, <2>6 DEF Stands, Kept
      <4>3. \A x \in 1 .. Len(c) : s + x \in 1 .. Len(buffer) /\ (x - q \notin 1 .. 4 => ~((s + x) - o \in 1 .. w))
        <5> HIDE DEF q, c
        <5>1. q \in Nat /\ Len(c) \in Nat /\ e = s + Len(c)
          BY <2>6 DEF q, c
        <5>. QED BY <1>1, <2>1, <4>1, <5>1
      <4>4. \A x \in 1 .. Len(c) : x - q \notin 1 .. 4 => buffer'[s + x] = c[x]
        BY <1>12, <4>2, <4>3
      <4>5. Kept(buffer', Encode(i), s)
        BY <2>6, <4>4 DEF Kept
      <4>. QED BY <2>6, <4>5 DEF Stands
    <3>. QED BY <3>1, <3>2 DEF i, s, e, l
  <2>8. CASE l # relocs[1]
    <3>1. \A x \in s + 1 .. e : buffer'[x] = buffer[x]
      BY <2>4, <2>5, <2>8
    <3>2. Stands(buffer', i, s, e)
      BY <2>1, <2>2, <2>3, <3>1, SameBytes
    <3>3. CASE \E y \in 1 .. Len(relocs) : relocs[y] = l
      <4>1. PICK y \in 1 .. Len(relocs) : relocs[y] = l
        BY <3>3
      <4>2. y # 1
        BY <2>8, <4>1
      <4>3. y - 1 \in 1 .. Len(relocs') /\ (y - 1) + 1 = y
        BY <1>1, <4>2
      <4>4. relocs'[y - 1] = l
        BY <1>1, <4>1, <4>3
      <4>. QED BY <3>2, <4>3, <4>4 DEF i, s, e, l
    <3>4. CASE ~(\E y \in 1 .. Len(relocs) : relocs[y] = l)
      <4>1. Holds(buffer, l.offset, Resolved(l))
        BY <2>2, <3>4 DEF Linked
      <4>2. l.offset + 4 <= e
        BY <2>6
      <4>3. Holds(buffer', l.offset, Resolved(l))
        BY <2>1, <2>6, <3>1, <4>1, <4>2, SameBytes
      <4>. QED BY <3>2, <4>3 DEF i, s, e, l
    <3>. QED BY <3>3, <3>4
  <2>. QED BY <2>7, <2>8
<1>15. CodePlaced'
  <2> SUFFICES \A n \in 1 .. unit + 1 : \A k \in Placed(n) :
                 HasLink(ItemAt(n, k)) =>
                   /\ Stands(buffer', ItemAt(n, k), StartsAt(n, k), EndsAt(n, k))
                   /\ \A r : r = LinkOf(ItemAt(n, k), StartsAt(n, k)) =>
                        (\E y \in 1 .. Len(relocs') : relocs'[y] = r) \/ Holds(buffer', r.offset, Resolved(r))
    BY <1>3, <1>7, <1>8 DEF CodePlaced, Linked
  <2>. QED BY <1>14
<1>16. RelocsOwned'
  <2> SUFFICES \A y \in 1 .. Len(relocs') : \E n \in 1 .. unit + 1 : \E k \in Placed(n) :
                 Owned(ItemAt(n, k), StartsAt(n, k), EndsAt(n, k), relocs'[y])
    BY <1>3, <1>7 DEF RelocsOwned
  <2>1. \A y \in 1 .. Len(relocs') : y + 1 \in 1 .. Len(relocs)
    BY <1>1
  <2>. QED BY <1>1, <1>4, <2>1 DEF RelocsOwned
<1>17. Started'
  BY <1>3, <1>4, <1>5 DEF Started
<1>. QED BY <1>3, <1>15, <1>16, <1>17 DEF LinkInv

\* Only the phase changes.
LEMMA LinkRests ==
  ASSUME TypeInv, LinkInv, phase # "size", phase' # "size", phase # "emit" => phase' # "emit",
         UNCHANGED <<module, unit, buffer, offsets, chunks, relocs>>, phase' = "done" => relocs = <<>>
  PROVE  LinkInv'
<1>1. AllUnits' = AllUnits /\ CodePlaced /\ RelocsOwned /\ Started
  BY DEF AllUnits, LinkInv
<1>2. \A n : Offsets(n)' = Offsets(n) /\ EndOfUnit(n)' = EndOfUnit(n)
  BY <1>1 DEF Offsets, EndOfUnit
<1>3. \A n, k : /\ Placed(n)' = Placed(n) /\ StartsAt(n, k)' = StartsAt(n, k) /\ EndsAt(n, k)' = EndsAt(n, k)
                /\ ItemAt(n, k)' = ItemAt(n, k)
  BY <1>1, <1>2 DEF Placed, StartsAt, EndsAt, ItemAt
<1>4. \A r : Resolved(r)' = Resolved(r)
  BY DEF Resolved, PltEntry, PltSize
<1>5. \A r : Linked(r) => Linked(r)'
  BY <1>4 DEF Linked
<1>6. CodePlaced'
  <2> SUFFICES ASSUME NEW n \in 1 .. unit + 1, NEW k \in Placed(n), HasLink(ItemAt(n, k)),
                      NEW l, l = LinkOf(ItemAt(n, k), StartsAt(n, k))
               PROVE  Stands(buffer, ItemAt(n, k), StartsAt(n, k), EndsAt(n, k)) /\ Linked(l)'
    BY <1>3 DEF CodePlaced
  <2>. QED BY <1>1, <1>5 DEF CodePlaced
<1>7. RelocsOwned'
  BY <1>1, <1>3 DEF RelocsOwned
<1>8. Started'
  BY <1>1 DEF Started
<1>. QED BY <1>6, <1>7, <1>8 DEF LinkInv

\* It holds when emission starts.
LEMMA LinkStartEmission ==
  ASSUME TypeInv, SpanInv, StartEmission
  PROVE  LinkInv'
<1>1. phase' = "emit" /\ unit' = 0 /\ phase = "size" /\ UNCHANGED <<module, buffer, offsets, gaps, relocs, chunks>>
  BY DEF StartEmission
<1>2. offsets = <<>>
  <2>1. unit = Len(Units) /\ Len(Units) \in Nat
    BY UnitsFacts DEF StartEmission, TypeInv, AreUnits
  <2>2. ~UnitOpen
    BY <2>1 DEF UnitOpen
  <2>. QED BY <2>2 DEF TypeInv
<1>3. relocs' = <<>> /\ offsets' = <<>>
  BY <1>1, <1>2 DEF SpanInv
<1>4. \A n \in 1 .. unit' + 1 : Placed(n)' = {}
  <2> SUFFICES ASSUME NEW n \in 1 .. unit' + 1 PROVE Placed(n)' = {}
    OBVIOUS
  <2>1. ~(n <= unit')
    BY <1>1
  <2>2. Offsets(n)' = <<>>
    BY <1>3, <2>1 DEF Offsets
  <2>. QED BY <2>2 DEF Placed
<1>5. CodePlaced' /\ RelocsOwned' /\ Started'
  BY <1>1, <1>3, <1>4 DEF CodePlaced, RelocsOwned, Started
<1>. QED BY <1>1, <1>5 DEF LinkInv

\* Every step keeps the invariant.
LEMMA LinkStep == TypeInv /\ SpanInv /\ LinkInv /\ [Next]_vars => LinkInv'
<1> SUFFICES ASSUME TypeInv, SpanInv, LinkInv, [Next]_vars PROVE LinkInv'
  OBVIOUS
<1>1. CASE Emitting
  BY <1>1, LinkEmitting
<1>2. CASE FinishUnit
  <2>1. phase' = phase /\ phase \in {"size", "emit"}
    BY <1>2 DEF FinishUnit, UnitOpen
  <2>2. CASE phase = "size"
    BY <2>1, <2>2 DEF LinkInv
  <2>3. CASE phase # "size"
    <3>1. CodePlaced' /\ RelocsOwned' /\ Started'
      BY <1>2, <2>3, CodeFinishUnit DEF SpanInv, LinkInv
    <3>. QED BY <2>1, <3>1 DEF LinkInv
  <2>. QED BY <2>2, <2>3
<1>3. CASE StartEmission
  BY <1>3, LinkStartEmission
<1>4. CASE Relocate
  BY <1>4, LinkRelocate
<1>5. CASE StartRelocation \/ Finish
  <2>1. /\ phase # "size" /\ phase' # "size" /\ phase' # "emit" /\ (phase' = "done" => relocs = <<>>)
        /\ UNCHANGED <<module, unit, buffer, offsets, relocs, chunks>>
    BY <1>5 DEF StartRelocation, Finish
  <2>. QED BY <2>1, LinkRests
<1>6. CASE UNCHANGED vars
  <2>1. UNCHANGED <<module, unit, buffer, offsets, relocs, chunks, phase>>
    BY <1>6 DEF vars
  <2>2. CASE phase = "size"
    BY <2>1, <2>2 DEF LinkInv
  <2>3. CASE phase # "size"
    <3>1. phase' = "done" => relocs = <<>>
      BY <2>1 DEF LinkInv
    <3>. QED BY <2>1, <2>3, <3>1, LinkRests
  <2>. QED BY <2>2, <2>3
<1>. QED BY <1>1, <1>2, <1>3, <1>4, <1>5, <1>6, Steps

(* In every module, at every step of emission and relocation:            *)
(* instructions have the bytes they were emitted with, but for the field *)
(* of their relocation, which waits or has been applied to that field    *)
(* and to no other byte.                                                 *)
THEOREM LinksHold == Spec => []LinkInv
<1>1. TypeInv /\ SpanInv /\ LinkInv /\ [Next]_vars => (TypeInv /\ SpanInv /\ LinkInv)'
  BY TypeStep, SpanStep, LinkStep
<1>2. Init => LinkInv
  BY DEF Init, LinkInv
<1>. QED BY <1>1, <1>2, TypeInit, SpanInit, PTL DEF Spec

-------------------------------------------------------------------------------
(* What references lead to.                                                *)

\* No shift by a constant of more than a byte in memory that a symbol names.
NoShiftOfLiteral == \A f \in Functions : \A k \in 1 .. Len(f.items) : ~ShiftsLiteral(f.items[k])

\* A distance of four bytes reaches what is referred to.
Reaches(f, k, o) == PlaceMeant(o) - EndOf(f, k) >= -Far - 1 /\ PlaceMeant(o) - EndOf(f, k) <= Far

\* Every reference of a function is within reach.
WithinReach ==
  \A f \in Functions : \A k \in 1 .. Len(f.items) :
    /\ f.items[k].dst.k \in {"literal", "symbol"} => Reaches(f, k, f.items[k].dst)
    /\ f.items[k].src.k = "literal" => Reaches(f, k, f.items[k].src)

\* A symbol that an operand refers to has a place, once everything is loaded.
LEMMA PlacesKnown ==
  ASSUME TypeInv, LinkInv, Loaded, NEW o, Refers(module, o), o.k \in {"literal", "symbol"}
  PROVE  PlaceOf(o.sym) \in Int
<1>1. module \in Modules /\ phase = "done" /\ Started /\ Units = AllUnits /\ unit = Len(AllUnits)
  BY UnitsPlaced DEF TypeInv, Loaded, LinkInv
<1>2. CASE o.sym.bind = "external"
  <2>1. o.sym \in Range(module.externals) /\ module.externals \in Seq(Range(module.externals))
    BY <1>1, <1>2, ModulesAssumption DEF Refers, ModulesAssumption
  <2> DEFINE x == module.externals
             k == CHOOSE j \in 1 .. Len(x) : x[j] = o.sym
             n == Len(x)
  <2>2. n \in Nat /\ \E j \in 1 .. n : x[j] = o.sym
    <3>1. DOMAIN x = 1 .. n /\ n \in Nat
      BY <2>1, Ranges
    <3>. QED BY <2>1, <3>1 DEF Range
  <2>3. k \in 1 .. n
    BY <2>2
  <2>4. PltEntry(o.sym) = 8 * (k - 1) /\ PltSize = ((8 * n + PageSize - 1) \div PageSize) * PageSize
    BY DEF PltEntry, PltSize, AlignUp
  <2> HIDE DEF k, n
  <2>5. PltEntry(o.sym) \in Int
    BY <2>2, <2>3, <2>4
  <2>6. PltSize \in Int
    <3> DEFINE q == (8 * n + PageSize - 1) \div PageSize
    <3>1. PageSize \in Nat \ {0}
      BY LoadAssumption DEF LoadAssumption
    <3>2. q \in Int
      BY <2>2, <3>1
    <3> HIDE DEF q
    <3>3. q * PageSize \in Int
      BY <3>1, <3>2
    <3>. QED BY <2>4, <3>3 DEF q
  <2>. QED BY <1>2, <2>5, <2>6 DEF PlaceOf
<1>3. CASE o.sym.bind # "external"
  <2>1. PICK n \in DOMAIN AllUnits : AllUnits[n].sym = o.sym
    BY <1>3 DEF Refers, AllUnits
  <2>2. DOMAIN AllUnits = 1 .. Len(AllUnits)
    <3>1. module.slots \in Seq(Range(module.slots)) /\ module.functions \in Seq(Range(module.functions))
      BY <1>1, UnitFacts
    <3>2. IsSequence(module.slots) /\ IsSequence(module.functions)
      BY <3>1, BytesAre
    <3>3. IsSequence(AllUnits)
      BY <3>2, BytesJoined DEF AllUnits, UnitsOf
    <3>. QED BY <3>3, Ranges DEF IsSequence
  <2>3. chunks[o.sym].start \in Nat
    BY <1>1, <2>1, <2>2 DEF Started
  <2>. QED BY <1>3, <2>3 DEF PlaceOf
<1>. QED BY <1>2, <1>3

\* Once everything is loaded, an instruction is read back with the distance to what it refers to.
LEMMA ReferenceLands ==
  ASSUME TypeInv, SpanInv, LinkInv, Loaded, NEW n \in 1 .. unit, NEW k \in Placed(n),
         IsInstruction(ItemAt(n, k)), ~IsJump(ItemAt(n, k)), ~IsLeaf(ItemAt(n, k)),
         NEW sym, NEW d \in Int, NEW side, Leads(Encode(ItemAt(n, k)), sym, d, side), PlaceOf(sym) \in Int,
         PlaceOf(sym) + d - EndsAt(n, k) >= -Far - 1, PlaceOf(sym) + d - EndsAt(n, k) <= Far
  PROVE  /\ side = "src" => EndsAt(n, k) + P!Decode(buffer, StartsAt(n, k) + 1).instruction.src.disp = PlaceOf(sym) + d
         /\ side = "dst" => EndsAt(n, k) + P!Decode(buffer, StartsAt(n, k) + 1).instruction.dst.disp = PlaceOf(sym) + d
<1> DEFINE i == ItemAt(n, k)
           s == StartsAt(n, k)
           e == EndsAt(n, k)
           c == Encode(i)
           place == PlaceOf(sym)
           Read(v) == /\ side = "src" => P!Decode(buffer, s + 1).instruction.src.disp = v
                      /\ side = "dst" => P!Decode(buffer, s + 1).instruction.dst.disp = v
<1>1. phase = "done" /\ relocs = <<>> /\ CodePlaced /\ Spread /\ unit \in Nat
  BY DEF Loaded, LinkInv, SpanInv, TypeInv
<1>2. n \in 1 .. unit + 1
  BY <1>1
<1>3. s \in Nat /\ e \in Nat /\ e <= Len(buffer) /\ Len(buffer) \in Nat
  BY <1>1, <1>2 DEF Spread, TypeInv, IsSequence
<1>4. PICK r : /\ c.relocs = <<r>>
               /\ r.sym = sym /\ r.type = (IF sym.bind = "external" THEN "PLT32" ELSE "PC32")
               /\ r.offset \in Nat /\ r.offset + 4 <= Len(c.bytes) /\ r.disp = Len(c.bytes) - d
               /\ \A b, t, v :
                    (/\ Len(b) \in Nat /\ t \in Nat /\ t + Len(c.bytes) <= Len(b)
                     /\ v \in Int /\ -Far - 1 <= v /\ v <= Far /\ Kept(b, c, t) /\ Holds(b, t + r.offset, v))
                    => /\ side = "src" => P!Decode(b, t + 1).instruction.src.disp = v
                       /\ side = "dst" => P!Decode(b, t + 1).instruction.dst.disp = v
  BY DEF Leads
<1>5. Len(c.bytes) \in Nat
  <2>1. IsEmitted(Encode(i))
    BY EncodeTyped
  <2> DEFINE q == c.bytes
  <2>2. q \in Seq(Int)
    BY <2>1 DEF IsEmitted
  <2> HIDE DEF q
  <2>3. Len(q) \in Nat
    BY <2>2
  <2>. QED BY <2>3 DEF q
<1>6. c.relocs[1] = r /\ c.relocs # <<>> /\ r.type # "GLOB_DAT"
  BY <1>4
<1>7. IsReloc(r)
  <2>1. IsEmitted(Encode(i))
    BY EncodeTyped
  <2>2. PICK q : c.relocs = <<q>> /\ q \in [type: {"PC32", "PLT32"}, offset: Nat, disp: Int, sym: {q.sym}]
    BY <1>6, <2>1 DEF IsEmitted
  <2>3. q = r
    BY <1>4, <2>2
  <2>4. IsReloc(q)
    BY <2>2 DEF IsReloc
  <2>. QED BY <2>3, <2>4
<1>8. HasLink(i)
  BY <1>4, <1>5, <1>6, <1>7 DEF HasLink
<1>9. Stands(buffer, i, s, e) /\ Linked(LinkOf(i, s))
  BY <1>1, <1>2, <1>8 DEF CodePlaced
<1>10. e = s + Len(c.bytes) /\ Kept(buffer, c, s)
  BY <1>9 DEF Stands
<1> DEFINE l == LinkOf(i, s)
           v == place + d - e
<1>11. l.offset = r.offset + s /\ l.disp = r.disp + s /\ l.sym = sym /\ l.type = (IF sym.bind = "external" THEN "PLT32" ELSE "PC32")
  <2>1. s \in Nat
    BY <1>3
  <2> HIDE DEF i, s
  <2>. QED BY <1>4, <1>6, <1>8, <2>1, LinkFacts
<1>12. Holds(buffer, l.offset, Resolved(l))
  BY <1>1, <1>9 DEF Linked
<1>13. Resolved(l) = v
  <2>1. Resolved(l) = place - l.disp
    <3>1. CASE sym.bind = "external"
      <4>1. Resolved(l) = PltEntry(sym) - PltSize - l.disp
        BY <1>11, <3>1 DEF Resolved
      <4>. QED BY <3>1, <4>1 DEF PlaceOf
    <3>2. CASE sym.bind # "external"
      <4>1. Resolved(l) = chunks[sym].start - l.disp
        BY <1>11, <3>2 DEF Resolved
      <4>. QED BY <3>2, <4>1 DEF PlaceOf
    <3>. QED BY <3>1, <3>2
  <2>2. place \in Int
    OBVIOUS
  <2> HIDE DEF place, l, s, e, c
  <2>3. l.disp = Len(c.bytes) - d + s
    BY <1>4, <1>11
  <2>. QED BY <1>3, <1>5, <1>10, <2>1, <2>2, <2>3
<1>14. v \in Int /\ -Far - 1 <= v /\ v <= Far
  <2>1. place \in Int /\ e \in Int /\ place + d - e >= -Far - 1 /\ place + d - e <= Far
    BY <1>3
  <2> HIDE DEF place, e
  <2>. QED BY <2>1 DEF Far
<1>15. Holds(buffer, s + r.offset, v)
  <2>1. l.offset = s + r.offset
    <3> HIDE DEF s, l
    <3>. QED BY <1>3, <1>4, <1>11
  <2>. QED BY <1>12, <1>13, <2>1
<1>16. Read(v)
  <2>1. s + Len(c.bytes) <= Len(buffer)
    BY <1>3, <1>10
  <2> HIDE DEF v, s, c
  <2>. QED BY <1>3, <1>4, <1>10, <1>14, <1>15, <2>1
<1>17. e + v = place + d
  <2>1. place \in Int /\ e \in Int
    BY <1>3
  <2> HIDE DEF place, e
  <2>. QED BY <2>1
<1>. QED BY <1>16, <1>17

\* Once everything is loaded, every reference is read back as it was meant.
LEMMA LinksLand == TypeInv /\ SpanInv /\ LinkInv => (NoShiftOfLiteral /\ WithinReach => ReferencesLead)
<1> SUFFICES ASSUME TypeInv, SpanInv, LinkInv, NoShiftOfLiteral, WithinReach, Loaded,
                    NEW f \in Functions, NEW k \in 1 .. Len(f.items)
             PROVE  /\ f.items[k].dst.k \in {"literal", "symbol"} =>
                         EndOf(f, k) + ReadBack(f, k).dst.disp = PlaceMeant(f.items[k].dst)
                    /\ f.items[k].src.k = "literal" =>
                         EndOf(f, k) + ReadBack(f, k).src.disp = PlaceMeant(f.items[k].src)
  BY DEF ReferencesLead
<1> DEFINE i == f.items[k]
<1>1. phase # "size" /\ Chunked /\ module \in Modules
  BY DEF Loaded, SpanInv, TypeInv
<1>2. PICK n \in 1 .. Len(AllUnits) : AllUnits[n] = f
  BY <1>1, FunctionUnits
<1>3. unit = Len(AllUnits) /\ unit \in Nat
  <2>1. unit = Len(Units) /\ Units = AllUnits /\ Len(AllUnits) \in Nat
    BY <1>1, UnitsPlaced DEF TypeInv, Loaded
  <2>. QED BY <2>1 DEF TypeInv
<1>4. n \in 1 .. unit /\ n <= unit
  BY <1>3
<1>5. Offsets(n) = chunks[f.sym].offsets /\ EndOfUnit(n) = chunks[f.sym].start + chunks[f.sym].size
      /\ Len(Offsets(n)) = Len(f.items) /\ k \in Placed(n)
  BY <1>1, <1>2, <1>4 DEF Offsets, EndOfUnit, Chunked, Placed
<1>6. ItemAt(n, k) = i
  BY <1>2 DEF ItemAt
<1>7. StartOf(f, k) = StartsAt(n, k) /\ EndOf(f, k) = EndsAt(n, k)
  BY <1>5 DEF StartOf, EndOf, StartsAt, EndsAt
<1>8. ReadBack(f, k) = P!Decode(buffer, StartsAt(n, k) + 1).instruction
  BY <1>7 DEF ReadBack
<1>9. IsUnit(f) /\ ~IsLeaf(i) /\ (IsJump(i) => i.dst.k = "label" /\ i.src = None) /\ (~IsJump(i) => IsInstruction(i))
      /\ Refers(module, i.src) /\ Refers(module, i.dst)
  <2>1. IsUnit(f) /\ ~IsLeaf(i)
    BY <1>1, FunctionUnits
  <2>2. f \in Range(module.functions) /\ i \in Range(f.items)
    <3>1. module.functions \in Seq(Range(module.functions)) /\ f.items \in Seq(Range(f.items))
      BY <1>1, <2>1, UnitFacts DEF IsUnit
    <3>2. PICK m \in 1 .. Len(module.functions) : f = module.functions[m]
      BY DEF Functions
    <3>. QED BY <3>1, <3>2, Ranges
  <2>3. IsItem(i, f.labels) /\ Refers(module, i.src) /\ Refers(module, i.dst)
    BY <1>1, <2>2, ModulesAssumption DEF ModulesAssumption
  <2>. QED BY <2>1, <2>3 DEF IsItem
<1>10. CASE IsJump(i)
  BY <1>9, <1>10 DEF None
<1>11. CASE ~IsJump(i)
  <2>1. IsInstruction(i) /\ Refer(Encode(i), i)
    BY <1>9, <1>11, EncodeLeads DEF NoShiftOfLiteral
  <2>2. /\ i.src.k = "literal" => i.src.disp \in Int
        /\ i.dst.k = "literal" => i.dst.disp \in Int
    <3>1. PICK o \in AllOverloads : IsOperand(o.src, i.src, i.size) /\ IsOperand(o.dst, i.dst, i.size)
      BY <2>1 DEF IsInstruction
    <3>. QED BY <3>1, LiteralsAre DEF IsLit
  <2>3. ASSUME NEW o, o \in {i.src, i.dst}, NEW side, NEW d \in Int, Leads(Encode(i), o.sym, d, side),
               o.k \in {"literal", "symbol"}, PlaceMeant(o) = PlaceOf(o.sym) + d, Reaches(f, k, o)
        PROVE  /\ side = "src" => EndOf(f, k) + ReadBack(f, k).src.disp = PlaceMeant(o)
               /\ side = "dst" => EndOf(f, k) + ReadBack(f, k).dst.disp = PlaceMeant(o)
    <3>1. PlaceOf(o.sym) \in Int
      BY <1>9, <2>3, PlacesKnown
    <3>2. PlaceOf(o.sym) + d - EndsAt(n, k) >= -Far - 1 /\ PlaceOf(o.sym) + d - EndsAt(n, k) <= Far
      <4> DEFINE v == PlaceOf(o.sym) + d - EndsAt(n, k)
      <4> DEFINE a == PlaceOf(o.sym)
                 b == EndsAt(n, k)
      <4>1. PlaceMeant(o) - EndOf(f, k) = v
        <5>1. b \in Nat
          <6>1. n \in 1 .. unit + 1
            BY <1>3, <1>4
          <6>. QED BY <1>1, <1>5, <6>1 DEF SpanInv, Spread
        <5>2. PlaceMeant(o) = a + d /\ EndOf(f, k) = b
          BY <1>7, <2>3
        <5>3. v = a + d - b /\ a \in Int
          BY <3>1
        <5> HIDE DEF a, b, v
        <5>. QED BY <5>1, <5>2, <5>3
      <4>2. PlaceMeant(o) - EndOf(f, k) >= -Far - 1 /\ PlaceMeant(o) - EndOf(f, k) <= Far
        BY <2>3 DEF Reaches
      <4> HIDE DEF v, a, b
      <4>3. v >= -Far - 1 /\ v <= Far
        BY <4>1, <4>2
      <4>. QED BY <4>3 DEF v, a, b
    <3> HIDE DEF i
    <3>3. /\ side = "src" => EndsAt(n, k) + P!Decode(buffer, StartsAt(n, k) + 1).instruction.src.disp = PlaceOf(o.sym) + d
          /\ side = "dst" => EndsAt(n, k) + P!Decode(buffer, StartsAt(n, k) + 1).instruction.dst.disp = PlaceOf(o.sym) + d
      BY <1>4, <1>5, <1>6, <1>9, <1>11, <2>1, <2>3, <3>1, <3>2, ReferenceLands
    <3>. QED BY <1>7, <1>8, <2>3, <3>3
  <2>4. ASSUME i.src.k = "literal"
        PROVE  EndOf(f, k) + ReadBack(f, k).src.disp = PlaceMeant(i.src)
    <3>1. PlaceMeant(i.src) = PlaceOf(i.src.sym) + i.src.disp /\ i.src.disp \in Int /\ Reaches(f, k, i.src)
      BY <2>2, <2>4 DEF PlaceMeant, WithinReach
    <3>2. Leads(Encode(i), i.src.sym, i.src.disp, "src")
      BY <2>1, <2>4 DEF Refer
    <3>. QED BY <2>3, <2>4, <3>1, <3>2
  <2>5. ASSUME i.dst.k = "literal"
        PROVE  EndOf(f, k) + ReadBack(f, k).dst.disp = PlaceMeant(i.dst)
    <3>1. PlaceMeant(i.dst) = PlaceOf(i.dst.sym) + i.dst.disp /\ i.dst.disp \in Int /\ Reaches(f, k, i.dst)
      BY <2>2, <2>5 DEF PlaceMeant, WithinReach
    <3>2. Leads(Encode(i), i.dst.sym, i.dst.disp, "dst")
      BY <2>1, <2>5 DEF Refer
    <3>. QED BY <2>3, <2>5, <3>1, <3>2
  <2>6. ASSUME i.dst.k = "symbol"
        PROVE  EndOf(f, k) + ReadBack(f, k).dst.disp = PlaceMeant(i.dst)
    <3> DEFINE o == i.dst
               side == "dst"
               d == 0
    <3>1. PlaceMeant(o) = PlaceOf(o.sym) /\ Reaches(f, k, o)
      BY <2>6 DEF PlaceMeant, WithinReach
    <3>2. Leads(Encode(i), o.sym, d, side)
      BY <2>1, <2>6 DEF Refer
    <3>3. PlaceOf(o.sym) \in Int
      BY <1>9, <2>6, PlacesKnown
    <3>4. PlaceMeant(o) = PlaceOf(o.sym) + d
      BY <3>1, <3>3
    <3>5. o \in {i.src, i.dst} /\ o.k \in {"literal", "symbol"} /\ d \in Int
      BY <2>6
    <3> HIDE DEF o, side, d
    <3>6. side = "dst" => EndOf(f, k) + ReadBack(f, k).dst.disp = PlaceMeant(o)
      BY <2>3, <3>1, <3>2, <3>4, <3>5
    <3>. QED BY <3>6 DEF o, side
  <2>. QED BY <2>4, <2>5, <2>6
<1>. QED BY <1>10, <1>11

(* In every module whose references are within reach of four bytes: every *)
(* operand that names a symbol and every call, of whatever overload and   *)
(* size, with an immediate after the distance or not, leads a processor   *)
(* to the slot, function or linkage table entry that was meant.  Left out *)
(* is a shift by a constant of more than a byte of a literal, whose       *)
(* relocation is encoded for an immediate of the operand's size.          *)
THEOREM ReferencesLeadWhereMeant == Spec => [](NoShiftOfLiteral /\ WithinReach => ReferencesLead)
  BY TypeCorrect, SpansHold, LinksHold, LinksLand, PTL

===============================================================================
