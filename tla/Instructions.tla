----------------------------- MODULE Instructions -----------------------------
(***************************************************************************)
(* The instructions of asm/x64/instruction, each with the opcodes and the  *)
(* scheme its header chooses for its operands, and the operands AsmEmitter *)
(* has an overload for.  Labels are resolved by Assembler: a jump is       *)
(* encoded from a distance.                                                *)
(***************************************************************************)
EXTENDS Encoding

Group1 == Ops(<<\h81>>, <<\h80>>)

(* The five forms of a two-operand instruction: RR and MR share the first  *)
(* opcode, RM has the second, RI and MI have the third and a digit.        *)
TwoOperand(i, mr, rm, mi, digit) ==
  CASE i.src.k = "imm" -> EncodeMI32(digit, i.size, mi, i.src.v, i.dst)
    [] i.src.k = "gp"  -> EncodeMR(i.size, mr, i.src, i.dst)
    [] OTHER           -> EncodeMR(i.size, rm, i.dst, i.src)

Add(i)  == TwoOperand(i, Ops(<<\h01>>, <<\h00>>), Ops(<<\h03>>, <<\h02>>), Group1, 0)
Or(i)   == TwoOperand(i, Ops(<<\h09>>, <<\h08>>), Ops(<<\h0B>>, <<\h0A>>), Group1, 1)
And(i)  == TwoOperand(i, Ops(<<\h20>>, <<\h21>>), Ops(<<\h22>>, <<\h23>>), Group1, 4)
Sub(i)  == TwoOperand(i, Ops(<<\h29>>, <<\h28>>), Ops(<<\h2B>>, <<\h2A>>), Group1, 5)
Xor(i)  == TwoOperand(i, Ops(<<\h31>>, <<\h30>>), Ops(<<\h33>>, <<\h32>>), Group1, 6)
Cmp(i)  == TwoOperand(i, Ops(<<\h39>>, <<\h38>>), Ops(<<\h3B>>, <<\h3A>>), Group1, 7)
Test(i) == TwoOperand(i, Ops(<<\h85>>, <<\h84>>), Ops(<<\h03>>, <<\h02>>), Group1, 0)

Mov(i) ==
  IF i.src.k = "imm" /\ i.dst.k = "gp" THEN EncodeRI64(i.size, Ops(<<\hB8>>, <<\hB0>>), i.src.v, i.dst)
  ELSE TwoOperand(i, Ops(<<\h89>>, <<\h88>>), Ops(<<\h8B>>, <<\h8A>>), Ops(<<\hC7>>, <<\hC6>>), 0)

ShiftDigit(op) == CASE op = "sal" -> 4 [] op = "shr" -> 5 [] op = "sar" -> 7

\* By a constant, or by cl, which the instruction does not name.
Shift(i) ==
  IF i.src.k = "imm"
  THEN EncodeMI8(ShiftDigit(i.op), i.size, Ops(<<\hC1>>, <<\hC0>>), i.src.v, i.dst)
  ELSE EncodeMC(ShiftDigit(i.op), i.size, Ops(<<\hD3>>, <<\hD2>>), i.dst)

Neg(i) == EncodeM(3, i.size, Ops(<<\hF7>>, <<\hF6>>), i.dst)
Div(i) == EncodeM(IF i.op = "div" THEN 6 ELSE 7, i.size, Ops(<<\hF7>>, <<\hF6>>), i.dst)

Cdq(i) == Plain(IF i.size = 8 THEN <<\h48, \h99>> ELSE <<\h99>>)

Push(i) ==
  CASE i.dst.k = "imm" -> EncodeI(i.size, Ops(<<\h68>>, <<\h6A>>), i.dst.v)
    [] i.dst.k = "gp"  -> EncodeO(i.size, \h50, i.dst)
    [] OTHER           -> EncodeMWithoutREXW(6, i.size, Ops(<<\hFF>>, <<\hFF>>), i.dst)

Pop(i) ==
  IF i.dst.k = "gp" THEN EncodeO(i.size, \h58, i.dst)
  ELSE EncodeMWithoutREXW(0, i.size, Ops(<<\h8F>>, <<\h8F>>), i.dst)

Lea(i)    == EncodeMR(8, Ops(<<\h8D>>, <<\h8D>>), i.dst, i.src)
Movzx(i)  == EncodeExtension(i.size, i.arg, Ops(<<\h0F, \hB7>>, <<\h0F, \hB6>>), i.dst, i.src)
Movsx(i)  == EncodeExtension(i.size, i.arg, Ops(<<\h0F, \hBF>>, <<\h0F, \hBE>>), i.dst, i.src)
Movsxd(i) == EncodeExtension(i.size, i.arg, Ops(<<\h63>>, <<>>), i.dst, i.src)

CMov(i) ==
  Emit(EmitOpPrologue(i.size, i.dst, i.src) \o <<\h0F, \h40 + i.arg>>, LowBits(i.dst), i.src, 0, <<>>)

SetCC(i) == Emit(EmitOpPrologue(1, None, i.dst) \o <<\h0F, \h90 + i.arg>>, 0, i.dst, 0, <<>>)

(* A call of an external symbol goes through its entry of the linkage      *)
(* table; any other is relative and relocated.                             *)
CallPlt(a) == EncodeMWithoutREXW(2, 8, Ops(<<\hFF>>, <<\hFF>>), a)

Call(i) ==
  CASE i.dst.k # "symbol" -> CallPlt(i.dst)
    [] i.dst.k = "symbol" /\ i.dst.sym.bind = "external" -> CallPlt(Literal(i.dst.sym, 0))
    [] OTHER -> [bytes  |-> <<\hE8, \hFF, \hFF, \hFF, \h7F>>,
                 relocs |-> <<[type |-> "PC32", offset |-> 1, disp |-> 5, sym |-> i.dst.sym]>>]

Leave(i) == Plain(<<\hC9>>)
Ret(i)   == Plain(<<\hC3>>)

-------------------------------------------------------------------------------
(* Floating point.  The prefix tells single from double precision.         *)

Either(i, single, singlePrefix, doublePrefix) == IF i.op = single THEN singlePrefix ELSE doublePrefix

MovScalar(prefix, i) ==
  IF i.dst.k = "xmm" THEN EncodeSSE(prefix, 4, <<\h0F, \h10>>, i.dst, i.src)
  ELSE EncodeSSE(prefix, 4, <<\h0F, \h11>>, i.src, i.dst)

Movss(i) == MovScalar(<<\hF3>>, i)
Movsd(i) == MovScalar(<<\hF2>>, i)

Addss(i) == EncodeSSE(Either(i, "addss", <<\hF3>>, <<\hF2>>), 4, <<\h0F, \h58>>, i.dst, i.src)
Divss(i) == EncodeSSE(Either(i, "divss", <<\hF3>>, <<\hF2>>), 4, <<\h0F, \h5E>>, i.dst, i.src)

\* Both prefixes are those of the other precision (SubsdRM has SUBSS_PREFIX), the opcode that of addss.
Subss(i) ==
  EncodeSSE(IF i.op = "subsd" /\ i.src.k = "xmm" THEN <<\hF3>> ELSE <<\hF2>>, 4, <<\h0F, \h58>>, i.dst, i.src)

Xorps(i)   == EncodeSSE(<<>>, 4, <<\h0F, \h57>>, i.dst, i.src)
Xorpd(i)   == EncodeSSE(<<\h66>>, 4, <<\h0F, \h57>>, i.dst, i.src)
Ucomiss(i) == EncodeSSE(<<>>, 4, <<\h0F, \h2E>>, i.dst, i.src)
Ucomisd(i) == EncodeSSE(<<\h66>>, 4, <<\h0F, \h2E>>, i.dst, i.src)
Comiss(i)  == EncodeSSE(<<>>, 4, <<\h0F, \h2F>>, i.dst, i.src)
Comisd(i)  == EncodeSSE(<<\h66>>, 4, <<\h0F, \h2F>>, i.dst, i.src)

Cvtsi2ss(i)  == EncodeSSE(<<\hF3>>, i.size, <<\h0F, \h2A>>, i.dst, i.src)
Cvtsi2sd(i)  == EncodeSSE(<<\hF2>>, i.size, <<\h0F, \h2A>>, i.dst, i.src)
Cvttss2si(i) == EncodeSSE(<<\hF3>>, i.size, <<\h0F, \h2C>>, i.dst, i.src)
Cvttsd2si(i) == EncodeSSE(<<\hF2>>, i.size, <<\h0F, \h2C>>, i.dst, i.src)

-------------------------------------------------------------------------------
(* Jumps: a distance, from the first byte of the jump, that fits a byte    *)
(* gives the short form; the distance in the instruction counts from its   *)
(* end.                                                                    *)

Jmp(distance) ==
  IF InByte(distance) THEN <<\hEB>> \o LittleEndian(distance - 2, 1)
  ELSE <<\hE9>> \o LittleEndian(distance - 5, 4)

Jcc(cond, distance) ==
  IF InByte(distance) THEN <<\h70 + cond>> \o LittleEndian(distance - 2, 1)
  ELSE <<\h0F, \h80 + cond>> \o LittleEndian(distance - 6, 4)

UnresolvedJmp       == <<\hE9, \hFF, \hFF, \hFF, \h7F>>
UnresolvedJcc(cond) == <<\h0F, \h80 + cond, \hFF, \hFF, \hFF, \h7F>>

-------------------------------------------------------------------------------
(* The overloads of AsmEmitter: the kinds of the operands of each method   *)
(* ("mem" stands for every kind of Address) and the sizes for which the    *)
(* instruction it appends does not end the process.                        *)

Overload(ops, srcs, dsts, sizes) == [op: ops, src: srcs, dst: dsts, size: sizes]

Sizes == {1, 2, 4, 8}

MoveOverloads ==
  Overload({"mov"}, {"gp", "imm"}, {"gp", "mem"}, Sizes) \cup Overload({"mov"}, {"mem"}, {"gp"}, Sizes)
    \cup Overload({"cmov"}, {"gp", "mem"}, {"gp"}, {2, 4, 8})
    \cup Overload({"push", "pop"}, {"none"}, {"gp", "mem"}, {2, 8})
    \cup Overload({"push"}, {"none"}, {"imm"}, {1, 2, 4})
    \cup Overload({"ret"}, {"none"}, {"none"}, {8})

ArithmeticOverloads ==
  LET ops == {"add", "and", "or", "sub", "cmp", "xor", "test"}
  IN  Overload(ops, {"gp", "imm"}, {"gp", "mem"}, Sizes) \cup Overload(ops, {"mem"}, {"gp"}, Sizes)

UnaryOverloads ==
  Overload({"call"}, {"none"}, {"symbol", "mem"}, {8})
    \cup Overload({"movzx", "movsx", "movsxd"}, {"gp", "mem"}, {"gp"}, {2, 4, 8})
    \cup Overload({"neg", "div", "idiv"}, {"none"}, {"gp", "mem"}, Sizes)
    \cup Overload({"cdq"}, {"none"}, {"none"}, {2, 4, 8})
    \cup Overload({"leave"}, {"none"}, {"none"}, {8})
    \cup Overload({"sal", "sar", "shr"}, {"imm"}, {"gp", "mem"}, Sizes)
    \cup Overload({"sal", "sar", "shr"}, {"cl"}, {"gp"}, Sizes)
    \cup Overload({"setcc"}, {"none"}, {"gp"}, {1})
    \cup Overload({"lea"}, {"mem"}, {"gp"}, {8})

ScalarOverloads ==
  LET moves   == {"movss", "movsd"}
      binary  == {"addss", "addsd", "subss", "subsd", "divss", "divsd", "ucomiss", "ucomisd",
                  "comiss", "comisd", "xorps", "xorpd"}
  IN  Overload(moves, {"xmm"}, {"xmm", "mem"}, {4}) \cup Overload(moves, {"mem"}, {"xmm"}, {4})
        \cup Overload(binary, {"xmm", "mem"}, {"xmm"}, {4})
        \cup Overload({"cvttss2si", "cvttsd2si"}, {"xmm", "mem"}, {"gp"}, {4, 8})
        \cup Overload({"cvtsi2ss", "cvtsi2sd"}, {"gp", "mem"}, {"xmm"}, {4, 8})

(* The class of the instruction, and its bytes.                            *)

IntegerInstruction(i) ==
  CASE i.op = "add"    -> Add(i)
    [] i.op = "or"     -> Or(i)
    [] i.op = "and"    -> And(i)
    [] i.op = "sub"    -> Sub(i)
    [] i.op = "xor"    -> Xor(i)
    [] i.op = "cmp"    -> Cmp(i)
    [] i.op = "test"   -> Test(i)
    [] i.op = "mov"    -> Mov(i)
    [] i.op \in {"sal", "sar", "shr"} -> Shift(i)
    [] i.op = "neg"    -> Neg(i)
    [] i.op \in {"div", "idiv"} -> Div(i)
    [] i.op = "cdq"    -> Cdq(i)
    [] i.op = "push"   -> Push(i)
    [] i.op = "pop"    -> Pop(i)
    [] i.op = "lea"    -> Lea(i)
    [] i.op = "movzx"  -> Movzx(i)
    [] i.op = "movsx"  -> Movsx(i)
    [] i.op = "movsxd" -> Movsxd(i)
    [] i.op = "cmov"   -> CMov(i)
    [] i.op = "setcc"  -> SetCC(i)
    [] i.op = "call"   -> Call(i)
    [] i.op = "leave"  -> Leave(i)
    [] i.op = "ret"    -> Ret(i)

ScalarInstruction(i) ==
  CASE i.op = "movss"  -> Movss(i)
    [] i.op = "movsd"  -> Movsd(i)
    [] i.op \in {"addss", "addsd"} -> Addss(i)
    [] i.op \in {"subss", "subsd"} -> Subss(i)
    [] i.op \in {"divss", "divsd"} -> Divss(i)
    [] i.op = "xorps"   -> Xorps(i)
    [] i.op = "xorpd"   -> Xorpd(i)
    [] i.op = "ucomiss" -> Ucomiss(i)
    [] i.op = "ucomisd" -> Ucomisd(i)
    [] i.op = "comiss"  -> Comiss(i)
    [] i.op = "comisd"  -> Comisd(i)
    [] i.op = "cvtsi2ss"  -> Cvtsi2ss(i)
    [] i.op = "cvtsi2sd"  -> Cvtsi2sd(i)
    [] i.op = "cvttss2si" -> Cvttss2si(i)
    [] i.op = "cvttsd2si" -> Cvttsd2si(i)

Encode(i) ==
  IF i.op \in {o.op : o \in ScalarOverloads} THEN ScalarInstruction(i) ELSE IntegerInstruction(i)

-------------------------------------------------------------------------------
(* What the overloads accept: registers, addresses whose displacement has  *)
(* four bytes, immediates the instruction has room for.                    *)

GPRegs  == {Gp(n) : n \in 0..15}
XmmRegs == {Xm(n) : n \in 0..15}

\* The signed numbers of a size; an address or an instruction has room for four bytes at most.
Largest(size) == CASE size = 1 -> 127 [] size = 2 -> 32767 [] OTHER -> 2147483647

InSize(v, size) == v \in Int /\ -Largest(size) - 1 <= v /\ v <= Largest(size)

IsAddress(a) ==
  \/ a.k = "base" /\ a.base \in GPRegs /\ InSize(a.disp, 4) /\ a = BaseDisp(a.base, a.disp)
  \/ /\ a.k = "index" /\ a.base \in GPRegs /\ a.index \in GPRegs /\ InSize(a.disp, 4)
     /\ a.scale \in {1, 2, 4, 8} /\ a = IndexScale(a.base, a.index, a.scale, a.disp)
  \/ /\ a.k = "literal" /\ a.sym.bind \in {"external", "internal"} /\ InSize(a.disp, 4)
     /\ a = Literal(a.sym, a.disp)

IsOperand(kind, o, size) ==
  \/ kind = "gp" /\ o \in GPRegs
  \/ kind = "xmm" /\ o \in XmmRegs
  \/ kind = "mem" /\ IsAddress(o)
  \/ kind = "imm" /\ o.k = "imm" /\ InSize(o.v, size) /\ o = Imm(o.v)
  \/ kind = "cl" /\ o = rcx
  \/ kind = "none" /\ o = None
  \/ kind = "symbol" /\ o.k = "symbol"

\* arg: a condition; the size before an extension, which is another; or nothing.
TakesArg(i) ==
  i.arg \in CASE i.op \in {"cmov", "setcc"}  -> 0..15
              [] i.op \in {"movzx", "movsx"} -> {1, 2} \ {i.size}
              [] i.op = "movsxd"             -> {4}
              [] OTHER                       -> {0}

AllOverloads == MoveOverloads \cup ArithmeticOverloads \cup UnaryOverloads \cup ScalarOverloads

IsInstruction(i) ==
  /\ i = Instruction(i.op, i.size, i.arg, i.src, i.dst)
  /\ TakesArg(i)
  /\ \E o \in AllOverloads : /\ o.op = i.op /\ o.size = i.size
                             /\ IsOperand(o.src, i.src, i.size) /\ IsOperand(o.dst, i.dst, i.size)
=============================================================================
