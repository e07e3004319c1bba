------------------------------- MODULE Decoder --------------------------------
(***************************************************************************)
(* How an x86-64 processor reads the instructions the assembler can emit:  *)
(* the reference Encoding is compared with.  It is written from the        *)
(* instruction set, opcode by opcode, not from the encoder.                *)
(*                                                                         *)
(* Decode gives an instruction with operands as Encoding has them, except  *)
(* that a literal or a label is [k |-> "rip", disp |-> d], d counted from  *)
(* the end of the instruction, and a byte register of the old kind (ah,    *)
(* ch, dh, bh) is [k |-> "high"].                                          *)
(***************************************************************************)
LOCAL INSTANCE Integers
LOCAL INSTANCE Sequences

LOCAL Op(k, n) == [k |-> k, n |-> n]
LOCAL Nothing  == [k |-> "none"]
Rip(d)         == [k |-> "rip", disp |-> d]

At(code, p) == IF p \in 1..Len(code) THEN code[p] ELSE -1

\* The signed number in the w bytes of the code before position p, of which at most four matter.
SignedField(code, p, w) ==
  LET b(k) == At(code, p + k)
      top(k) == IF b(k) >= 128 THEN b(k) - 256 ELSE b(k)
  IN  CASE w = 1 -> top(0)
        [] w = 2 -> 256 * top(1) + b(0)
        [] w >= 4 -> 16777216 * top(3) + 65536 * b(2) + 256 * b(1) + b(0)
        [] OTHER -> 0

(* Form: how the operands are placed.  MR, RM: register and r/m; M: r/m    *)
(* alone; MI: r/m and an immediate; MC: r/m and cl; O: register in the     *)
(* opcode; OI: the same and an immediate; I: immediate; D: displacement;   *)
(* Z: none.  reg and rm are the register files; imm is in bytes.           *)
Form(op, form, size, imm) == [op |-> op, form |-> form, size |-> size, imm |-> imm, arg |-> 0, reg |-> "gp", rm |-> "gp"]

Extension(op, size, from) == [Form(op, "RM", size, 0) EXCEPT !.arg = from]
Conditional(op, form, size, imm, cond) == [Form(op, form, size, imm) EXCEPT !.arg = cond]
Scalar(op, form, size, reg, rm) == [Form(op, form, size, 0) EXCEPT !.reg = reg, !.rm = rm]
Unknown == Form("unknown", "Z", 0, 0)

AtMost4(size) == IF size = 8 THEN 4 ELSE size

Alu == <<"add", "or", "adc", "sbb", "and", "sub", "xor", "cmp">>
ShiftGroup == <<"rol", "ror", "rcl", "rcr", "sal", "shr", "unknown", "sar">>
Group3 == <<"test", "test", "not", "neg", "mul", "imul", "div", "idiv">>
Group5 == <<"inc", "dec", "call", "callf", "jmp", "jmpf", "push", "unknown">>

OneByteForm(b, digit, wide) ==
  LET size  == IF b % 2 = 0 THEN 1 ELSE wide
      stack == IF wide = 2 THEN 2 ELSE 8
  IN  CASE b < 64 /\ b % 8 < 2         -> Form(Alu[b \div 8 + 1], "MR", size, 0)
        [] b < 64 /\ b % 8 \in {2, 3}  -> Form(Alu[b \div 8 + 1], "RM", size, 0)
        [] b \in \h50..\h57 -> Form("push", "O", stack, 0)
        [] b \in \h58..\h5F -> Form("pop", "O", stack, 0)
        [] b = \h63         -> Extension("movsxd", wide, 4)
        [] b = \h68         -> Form("push", "I", AtMost4(wide), AtMost4(wide))
        [] b = \h6A         -> Form("push", "I", 1, 1)
        [] b \in \h70..\h7F -> Conditional("jcc", "D", 8, 1, b - \h70)
        [] b \in {\h80, \h81} -> Form(Alu[digit + 1], "MI", size, AtMost4(size))
        [] b \in {\h84, \h85} -> Form("test", "MR", size, 0)
        [] b \in {\h88, \h89} -> Form("mov", "MR", size, 0)
        [] b \in {\h8A, \h8B} -> Form("mov", "RM", size, 0)
        [] b = \h8D         -> Form("lea", "RM", wide, 0)
        [] b = \h8F         -> Form("pop", "M", stack, 0)
        [] b = \h99         -> Form("cdq", "Z", wide, 0)
        [] b \in \hB0..\hB7 -> Form("mov", "OI", 1, 1)
        [] b \in \hB8..\hBF -> Form("mov", "OI", wide, wide)
        [] b \in {\hC0, \hC1} -> Form(ShiftGroup[digit + 1], "MI", size, 1)
        [] b = \hC3         -> Form("ret", "Z", 8, 0)
        [] b \in {\hC6, \hC7} -> Form("mov", "MI", size, AtMost4(size))
        [] b = \hC9         -> Form("leave", "Z", 8, 0)
        [] b \in {\hD2, \hD3} -> Form(ShiftGroup[digit + 1], "MC", size, 0)
        [] b = \hE8         -> Form("call", "D", 8, 4)
        [] b = \hE9         -> Form("jmp", "D", 8, 4)
        [] b = \hEB         -> Form("jmp", "D", 8, 1)
        [] b \in {\hF6, \hF7} /\ digit > 1 -> Form(Group3[digit + 1], "M", size, 0)
        [] b = \hFF         -> Form(Group5[digit + 1], "M", stack, 0)
        [] OTHER            -> Unknown

(* The instructions a mandatory prefix tells apart, in the order of the    *)
(* prefixes: none, 66, F3, F2.                                             *)
LOCAL Which(prefix) == CASE prefix = \h66 -> 2 [] prefix = \hF3 -> 3 [] prefix = \hF2 -> 4 [] OTHER -> 1

Packed(b) ==
  CASE b \in {\h10, \h11} -> <<"movups", "movupd", "movss", "movsd">>
    [] b = \h2A -> <<"cvtpi2ps", "cvtpi2pd", "cvtsi2ss", "cvtsi2sd">>
    [] b = \h2C -> <<"cvttps2pi", "cvttpd2pi", "cvttss2si", "cvttsd2si">>
    [] b = \h2E -> <<"ucomiss", "ucomisd", "unknown", "unknown">>
    [] b = \h2F -> <<"comiss", "comisd", "unknown", "unknown">>
    [] b = \h57 -> <<"xorps", "xorpd", "unknown", "unknown">>
    [] b = \h58 -> <<"addps", "addpd", "addss", "addsd">>
    [] b = \h5C -> <<"subps", "subpd", "subss", "subsd">>
    [] b = \h5E -> <<"divps", "divpd", "divss", "divsd">>

TwoByteForm(b, prefix, wide) ==
  CASE b \in \h40..\h4F -> Conditional("cmov", "RM", wide, 0, b - \h40)
    [] b \in \h80..\h8F -> Conditional("jcc", "D", 8, 4, b - \h80)
    [] b \in \h90..\h9F -> Conditional("setcc", "M", 1, 0, b - \h90)
    [] b \in {\hB6, \hB7} -> Extension("movzx", wide, b - \hB5)
    [] b \in {\hBE, \hBF} -> Extension("movsx", wide, b - \hBD)
    [] b = \h11 -> Scalar(Packed(b)[Which(prefix)], "MR", 4, "xmm", "xmm")
    [] b = \h2A -> Scalar(Packed(b)[Which(prefix)], "RM", IF wide = 8 THEN 8 ELSE 4, "xmm", "gp")
    [] b = \h2C -> Scalar(Packed(b)[Which(prefix)], "RM", IF wide = 8 THEN 8 ELSE 4, "gp", "xmm")
    [] b \in {\h10, \h2E, \h2F, \h57, \h58, \h5C, \h5E} ->
         Scalar(Packed(b)[Which(prefix)], "RM", 4, "xmm", "xmm")
    [] OTHER -> Unknown

-------------------------------------------------------------------------------
\* Register n of a file; without REX the byte registers 4 to 7 are ah, ch, dh and bh.
RegisterOperand(file, n, size, rex) ==
  IF file = "xmm" THEN Op("xmm", 16 + n)
  ELSE IF size = 1 /\ rex = 0 /\ n \in 4..7 THEN Op("high", n) ELSE Op("gp", n)

(* The memory operand whose ModR/M byte stands at p, with the number of    *)
(* bytes it takes.                                                         *)
MemoryOperand(code, p, rexX, rexB) ==
  LET mod     == At(code, p) \div 64
      low     == At(code, p) % 8
      sib     == At(code, p + 1)
      hasSib  == low = 4
      base    == (IF hasSib THEN sib % 8 ELSE low) + (8 * rexB)
      index   == ((sib \div 8) % 8) + 8 * rexX
      noBase  == mod = 0 /\ base % 8 = 5
      width   == CASE mod = 1 -> 1 [] mod = 2 -> 4 [] OTHER -> IF noBase THEN 4 ELSE 0
      start   == IF hasSib THEN p + 2 ELSE p + 1
      disp    == SignedField(code, start, width)
      indexed == [k |-> "index", base |-> Op("gp", base), index |-> Op("gp", index),
                  scale |-> 2^(sib \div 64), disp |-> disp]
      operand ==
        CASE noBase /\ ~hasSib               -> Rip(disp)
          [] noBase /\ hasSib                -> [k |-> "absolute", index |-> index, disp |-> disp]
          [] ~noBase /\ hasSib /\ index # 4  -> indexed
          [] OTHER                           -> [k |-> "base", base |-> Op("gp", base), disp |-> disp]
  IN  [operand |-> operand, len |-> (IF hasSib THEN 2 ELSE 1) + width]

-------------------------------------------------------------------------------
Destination(form, reg, rm, low, imm) ==
  CASE form = "RM" -> reg
    [] form \in {"MR", "M", "MI", "MC"} -> rm
    [] form \in {"O", "OI"} -> low
    [] form = "I" -> imm
    [] form = "D" -> Rip(imm.v)
    [] OTHER -> Nothing

Source(form, reg, rm, imm) ==
  CASE form = "RM" -> rm
    [] form = "MR" -> reg
    [] form \in {"MI", "OI"} -> imm
    [] form = "MC" -> Op("gp", 1)
    [] OTHER -> Nothing

(* The operands of the instruction at p whose opcode, of the form f,       *)
(* starts at o and ends before m, where ModR/M would be.                   *)
Operands(code, p, rex, f, o, m) ==
  LET rexB   == rex % 2
      rexX   == (rex \div 2) % 2
      rexR   == (rex \div 4) % 2
      modrm  == At(code, m)
      digit  == (modrm \div 8) % 8
      hasRm  == f.form \in {"MR", "RM", "M", "MI", "MC"}
      narrow == IF f.op \in {"movzx", "movsx"} THEN f.arg ELSE f.size
      reg    == RegisterOperand(f.reg, digit + 8 * rexR, f.size, rex)
      memory == MemoryOperand(code, m, rexX, rexB)
      rm     == IF modrm >= 192 THEN RegisterOperand(f.rm, (modrm % 8) + 8 * rexB, narrow, rex)
                ELSE memory.operand
      after  == CASE ~hasRm -> m [] hasRm /\ modrm >= 192 -> m + 1 [] OTHER -> m + memory.len
      imm    == [k |-> "imm", v |-> SignedField(code, after, f.imm)]
      low    == RegisterOperand("gp", (At(code, o) % 8) + 8 * rexB, f.size, rex)
  IN  [instruction |-> [op |-> f.op, size |-> f.size, arg |-> f.arg,
                        src |-> Source(f.form, reg, rm, imm), dst |-> Destination(f.form, reg, rm, low, imm)],
       len |-> after + f.imm - p]

\* The instruction at p after its prefixes: the opcode starts at o.
Opcode(code, p, prefix, rex, o) ==
  LET wide  == IF rex >= \h48 THEN 8 ELSE IF prefix = \h66 THEN 2 ELSE 4
      digit == (At(code, o + 1) \div 8) % 8
  IN  IF At(code, o) = \h0F
      THEN Operands(code, p, rex, TwoByteForm(At(code, o + 1), prefix, wide), o, o + 2)
      ELSE Operands(code, p, rex, OneByteForm(At(code, o), digit, wide), o, o + 1)

(* The instruction that starts at position p.                              *)
Decode(code, p) ==
  LET prefix == IF At(code, p) \in {\h66, \hF2, \hF3} THEN At(code, p) ELSE 0
      q      == IF prefix = 0 THEN p ELSE p + 1
      rex    == IF At(code, q) \in \h40..\h4F THEN At(code, q) ELSE 0
  IN  Opcode(code, p, prefix, rex, IF rex = 0 THEN q ELSE q + 1)
=============================================================================
