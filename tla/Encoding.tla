------------------------------- MODULE Encoding -------------------------------
(***************************************************************************)
(* The bytes of one instruction: the encoding schemes (Encoding.h,         *)
(* EncodeUtils.h, SSEEncoding.h), the addresses, and the opcodes each      *)
(* instruction class hands to its scheme.                                  *)
(*                                                                         *)
(* An instruction is a record [op, size, arg, src, dst]: arg is the size   *)
(* before an extension, or the condition.  What is emitted is a record     *)
(* [bytes, relocs] whose relocations count from the start of the           *)
(* instruction.                                                            *)
(***************************************************************************)
EXTENDS Integers, Sequences

Gp(n)             == [k |-> "gp", n |-> n]
Xm(n)             == [k |-> "xmm", n |-> 16 + n]
Imm(v)            == [k |-> "imm", v |-> v]
BaseDisp(b, d)    == [k |-> "base", base |-> b, disp |-> d]
IndexScale(b, x, s, d) == [k |-> "index", base |-> b, index |-> x, scale |-> s, disp |-> d]
Literal(sym, d)   == [k |-> "literal", sym |-> sym, disp |-> d]
Symbol(name, bind) == [name |-> name, bind |-> bind]
None              == [k |-> "none"]

rax == Gp(0)
rcx == Gp(1)
rsp == Gp(4)
rbp == Gp(5)

Instruction(op, size, arg, src, dst) ==
  [op |-> op, size |-> size, arg |-> arg, src |-> src, dst |-> dst]

IsRegister(o) == o.k \in {"gp", "xmm"}

\* The value v in w bytes, least significant first; -129 in one byte is 127.
LittleEndian(v, w) ==
  [k \in 1..w |-> IF k <= 4 THEN (v \div 256^(k - 1)) % 256 ELSE IF v < 0 THEN 255 ELSE 0]

InByte(v) == v \in -128..127

-------------------------------------------------------------------------------
(* Prefixes.                                                               *)

Is64BitReg(r) == IF r.k = "xmm" THEN r.n >= 24 ELSE r.n >= 8
LowBits(r)    == r.n % 8

IsSpecialByteReg(r) == r \in {Gp(6), Gp(7)}

Bit(b) == IF b THEN 1 ELSE 0
R(r)   == IF IsRegister(r) THEN 4 * Bit(Is64BitReg(r)) ELSE 0
X(rm)  == IF rm.k = "index" THEN 2 * Bit(Is64BitReg(rm.index)) ELSE 0
B(rm)  == CASE IsRegister(rm)            -> Bit(Is64BitReg(rm))
            [] rm.k \in {"base", "index"} -> Bit(Is64BitReg(rm.base))
            [] OTHER                      -> 0

(* The overloads of prefix() differ in the size that asks for REX.W, in    *)
(* the size that is looked at for byte registers, and in the registers     *)
(* that are looked at.                                                     *)
Rex(size, narrow, looked, reg, rm) ==
  LET code == 64 + (IF size = 8 THEN 8 ELSE 0) + R(reg) + X(rm) + B(rm)
  IN  IF code # 64 \/ (narrow = 1 /\ \E r \in looked : IsSpecialByteReg(r)) THEN <<code>> ELSE <<>>

AddWordOpSize(size) == IF size = 2 THEN <<\h66>> ELSE <<>>

EmitOpPrologue(size, reg, rm) == AddWordOpSize(size) \o Rex(size, size, {reg, rm}, reg, rm)

\* Of the overloads with two sizes only the one for registers is used.
EmitExtensionPrologue(toSize, fromSize, reg, rm) ==
  IF rm.k = "gp" THEN AddWordOpSize(toSize) \o Rex(toSize, fromSize, {rm}, reg, rm)
  ELSE EmitOpPrologue(toSize, reg, rm)

-------------------------------------------------------------------------------
(* ModR/M, SIB and displacement.                                           *)

\* Variant: rbp is a base like any other.
HasDisplacementIfAny(a) == a.disp # 0

HasDisplacement(a) == a.disp # 0 \/ a.base = rbp

Mod(a) == IF ~InByte(a.disp) THEN \h80 ELSE IF HasDisplacement(a) THEN \h40 ELSE 0

Displacement(a) ==
  IF ~InByte(a.disp) THEN LittleEndian(a.disp, 4)
  ELSE IF HasDisplacement(a) THEN LittleEndian(a.disp, 1) ELSE <<>>

EncodeBaseDisp(modrm, a) ==
  <<Mod(a) + 8 * modrm + LowBits(a.base)>>
    \o (IF a.base = rsp THEN <<8 * LowBits(rsp) + LowBits(a.base)>> ELSE <<>>)
    \o Displacement(a)

EncodeIndexScale(modrm, a) ==
  LET scale == CASE a.scale = 2 -> 1 [] a.scale = 4 -> 2 [] a.scale = 8 -> 3 [] OTHER -> 0
  IN  <<Mod(a) + 8 * modrm + 4, 64 * scale + 8 * LowBits(a.index) + LowBits(a.base)>>
        \o Displacement(a)

Unpatched == <<0, 0, 0, \h80>>

EncodeLiteral(modrm) == <<8 * modrm + 5>> \o Unpatched

EmitOperands(modrm, rm) ==
  CASE IsRegister(rm)   -> <<\hC0 + 8 * modrm + LowBits(rm)>>
    [] rm.k = "base"    -> EncodeBaseDisp(modrm, rm)
    [] rm.k = "index"   -> EncodeIndexScale(modrm, rm)
    [] rm.k = "literal" -> EncodeLiteral(modrm)

\* AddressLiteral::encode dies on a symbol of any other binding.
RelType(sym) == CASE sym.bind = "external" -> "PLT32" [] sym.bind = "internal" -> "PC32"

\* Variant: an immediate that follows is forgotten.
LiteralRelocationAlone(rm, end, toEnd) ==
  [type |-> RelType(rm.sym), offset |-> end - 4, disp |-> end - rm.disp, sym |-> rm.sym]

LiteralRelocation(rm, end, toEnd) ==
  [type |-> RelType(rm.sym), offset |-> end - 4, disp |-> end + toEnd - rm.disp, sym |-> rm.sym]

(* Prefixes and opcode, then the operands, then the immediate.  toEnd is   *)
(* the distance from the end of the address to the end of the instruction, *)
(* as the scheme states it.                                                *)
Emit(front, modrm, rm, toEnd, imm) ==
  LET operand == EmitOperands(modrm, rm)
      end     == Len(front) + Len(operand)
  IN  [bytes  |-> front \o operand \o imm,
       relocs |-> IF rm.k = "literal" THEN <<LiteralRelocation(rm, end, toEnd)>> ELSE <<>>]

Plain(bytes) == [bytes |-> bytes, relocs |-> <<>>]

-------------------------------------------------------------------------------
(* Encoding schemes.  An opcode comes in two forms: for bytes and for all  *)
(* other sizes.                                                            *)

Ops(wide, byte) == [wide |-> wide, byte |-> byte]

EmitOpcodes(size, ops) == IF size = 1 THEN ops.byte ELSE ops.wide

Min4(size) == IF size = 8 THEN 4 ELSE size

EncodeI(size, ops, imm) ==
  Plain(AddWordOpSize(size) \o EmitOpcodes(size, ops) \o LittleEndian(imm, size))

EncodeO(size, opcode, reg) ==
  Plain(AddWordOpSize(size) \o Rex(4, 4, {}, None, reg) \o <<opcode + LowBits(reg)>>)

EncodeMWithoutREXW(modrm, size, ops, rm) ==
  Emit(EmitOpPrologue(Min4(size), None, rm) \o EmitOpcodes(size, ops), modrm, rm, 0, <<>>)

EncodeM(modrm, size, ops, rm) ==
  Emit(EmitOpPrologue(size, None, rm) \o EmitOpcodes(size, ops), modrm, rm, 0, <<>>)

EncodeMI32(modrm, size, ops, imm, rm) ==
  Emit(EmitOpPrologue(size, None, rm) \o EmitOpcodes(size, ops), modrm, rm, Min4(size),
       LittleEndian(imm, Min4(size)))

\* The distance is that of a full immediate although one byte is emitted.
EncodeMI8(modrm, size, ops, imm, rm) ==
  Emit(EmitOpPrologue(size, None, rm) \o EmitOpcodes(size, ops), modrm, rm, Min4(size),
       LittleEndian(imm, 1))

EncodeRI64(size, ops, imm, reg) ==
  Plain(EmitOpPrologue(size, None, reg) \o <<EmitOpcodes(size, ops)[1] + LowBits(reg)>>
          \o LittleEndian(imm, size))

EncodeMR(size, ops, src, rm) ==
  Emit(EmitOpPrologue(size, src, rm) \o EmitOpcodes(size, ops), LowBits(src), rm, 0, <<>>)

EncodeMC(modrm, size, ops, rm) ==
  Emit(EmitOpPrologue(size, None, rm) \o EmitOpcodes(size, ops),
       IF IsRegister(rm) THEN modrm ELSE 0, rm, 0, <<>>)

\* Two sizes: the process ends when they are equal.
EncodeExtension(toSize, fromSize, ops, dst, rm) ==
  Emit(EmitExtensionPrologue(toSize, fromSize, dst, rm) \o EmitOpcodes(fromSize, ops),
       LowBits(dst), rm, 0, <<>>)

\* encode_A and encode_C: reg is the destination of the one, the source of the other.
EncodeSSE(prefix, size, opcode, reg, rm) ==
  Emit(prefix \o Rex(size, 4, {}, reg, rm) \o opcode, LowBits(reg), rm, 0, <<>>)
=============================================================================
