------------------------------ MODULE Emitters ------------------------------
(***************************************************************************)
(* The instructions emitted for an operation of the lowered code: the      *)
(* macro assembler MasmEmitter and one operator per emitter class.  An     *)
(* emitter's branches over "is a register already where it must be" that   *)
(* differ only in a copy to itself are written once, because copy emits    *)
(* nothing then.                                                           *)
(*                                                                         *)
(* Operands are those of Machine; t holds the temporaries gp1, gp2, xmm1.  *)
(***************************************************************************)
EXTENDS Machine

(* unimplemented(), a failed assertion and die(): no code at all.          *)
Die == <<Ins("die", 1, 0, Imm(0), Imm(0))>>

(* An immediate that fits the 32 bits an instruction has for it.           *)
Imm32(o) == 2 * o.v \in -Wrap(4) .. Wrap(4) - 1

(***************************************************************************)
(* The macro assembler.                                                    *)
(***************************************************************************)
(* Variant: a zero is copied by an exclusive or, which changes the flags.  *)
CopyCleared(s, src, dst) ==
    IF src = dst THEN <<>>
    ELSE IF src = Imm(0) /\ dst.is = "r" THEN <<Ins("xor", s, 0, dst, dst)>>
    ELSE <<Ins("mov", s, 0, src, dst)>>

Copy(s, src, dst) == IF src = dst THEN <<>> ELSE <<Ins("mov", s, 0, src, dst)>>
Mov(s, src, dst) == <<Ins("mov", s, 0, src, dst)>>
Add(s, src, dst) == IF src = Imm(0) THEN <<>> ELSE <<Ins("add", s, 0, src, dst)>>
Sub(s, src, dst) == IF src = Imm(0) THEN <<>> ELSE <<Ins("sub", s, 0, src, dst)>>
Shift(s, kind, count, dst) == IF count = Imm(0) THEN <<>> ELSE <<Ins(kind, s, 0, count, dst)>>
Op2(op, s, src, dst) == <<Ins(op, s, 0, src, dst)>>
Neg(s, dst) == <<Ins("neg", s, 0, Imm(0), dst)>>
Cmov(s, cc, src, dst) == <<Ins("cmov", s, cc, src, dst)>>
MovZx(from, to, src, dst) == IF from = 4 /\ to = 8 THEN Copy(from, src, dst) ELSE <<Ins("movzx", to, from, src, dst)>>
MovSx(from, to, src, dst) == <<Ins("movsx", to, from, src, dst)>>
MovFp(s, src, dst) == <<Ins("movfp", s, 0, src, dst)>>
CopyFp(s, src, dst) == IF src = dst THEN <<>> ELSE MovFp(s, src, dst)
ClearFp(s, dst) == <<Ins("xorfp", s, 0, dst, dst)>>
CvtSi2Fp(from, to, src, dst) == <<Ins("cvtsi2fp", to, from, src, dst)>>

Invert(cc) == IF cc % 2 = 0 THEN cc + 1 ELSE cc - 1

(***************************************************************************)
(* Integer arithmetic.                                                     *)
(***************************************************************************)
Shape(out, a, b) == <<out.is, a.is, b.is>>

AddInt(s, out, a, b, t) ==
    CASE Shape(out, a, b) = <<"r", "r", "r">> ->
           IF b = out THEN Add(s, a, out) ELSE Copy(s, a, out) \o Add(s, b, out)
      [] Shape(out, a, b) = <<"r", "m", "r">> -> Copy(s, b, out) \o Add(s, a, out)
      [] Shape(out, a, b) = <<"r", "m", "m">> -> Mov(s, a, out) \o Add(s, b, out)
      [] Shape(out, a, b) = <<"r", "r", "i">> /\ Imm32(b) -> Copy(s, a, out) \o Add(s, b, out)
      [] Shape(out, a, b) = <<"r", "m", "i">> /\ Imm32(b) -> Mov(s, a, out) \o Add(s, b, out)
      [] OTHER -> Die

(* Variant: subtracts as if the output were not the second input.          *)
SubIntUnordered(s, out, a, b, t) ==
    IF Shape(out, a, b) = <<"r", "r", "r">> THEN Copy(s, a, out) \o Sub(s, b, out) ELSE Die

SubInt(s, out, a, b, t) ==
    CASE Shape(out, a, b) = <<"r", "r", "r">> ->
           IF b = out /\ a # out THEN Neg(s, out) \o Add(s, a, out) ELSE Copy(s, a, out) \o Sub(s, b, out)
      [] Shape(out, a, b) = <<"r", "m", "m">> -> Mov(s, a, out) \o Sub(s, b, out)
      [] Shape(out, a, b) = <<"r", "r", "i">> /\ Imm32(b) -> Copy(s, a, out) \o Sub(s, b, out)
      [] OTHER -> Die

XorInt(s, out, a, b, t) ==
    CASE Shape(out, a, b) = <<"r", "r", "r">> ->
           IF b = out THEN Op2("xor", s, a, out) ELSE Copy(s, a, out) \o Op2("xor", s, b, out)
      [] OTHER -> Die

ShiftInt(s, kind, out, a, b, t) ==
    CASE Shape(out, a, b) = <<"r", "r", "r">> /\ b = Reg("rcx") ->
           IF b = out /\ a # out
           THEN Copy(s, a, t.gp1) \o Shift(s, kind, b, t.gp1) \o Copy(s, t.gp1, out)
           ELSE Copy(s, a, out) \o Shift(s, kind, b, out)
      [] Shape(out, a, b) = <<"r", "r", "i">> -> Copy(s, a, out) \o Shift(s, kind, b, out)
      [] OTHER -> Die

(* The code around idiv and div: high sets the upper half of the dividend. *)
Division(s, high, op, out, a, divisor) ==
    Copy(s, a, Reg("rax")) \o high \o <<Ins(op, s, 0, divisor, Imm(0))>> \o Copy(s, Reg("rax"), out)

DivInt(s, out, a, b, t) ==
    LET cdq == <<Ins("cdq", s, 0, Imm(0), Imm(0))>>
    IN  CASE s = 1 -> Die
          [] s # 1 /\ Shape(out, a, b) = <<"r", "r", "r">> -> Division(s, cdq, "idiv", out, a, b)
          [] s # 1 /\ Shape(out, a, b) = <<"r", "r", "i">> -> Division(s, Copy(s, b, t.gp1) \o cdq, "idiv", out, a, t.gp1)
          [] OTHER -> Die

DivUInt(s, out, a, b, t) ==
    LET zero == Op2("xor", s, Reg("rdx"), Reg("rdx"))
    IN  CASE Shape(out, a, b) = <<"r", "r", "r">> -> Division(s, zero, "div", out, a, b)
          [] Shape(out, a, b) = <<"r", "r", "i">> -> Division(s, Copy(s, b, t.gp1) \o zero, "div", out, a, t.gp1)
          [] OTHER -> Die

(* cmov has no form of one byte: four bytes are moved then.                *)
CMovGP(size, cc, out, a, b, t) ==
    LET s == IF size = 1 THEN 4 ELSE size
    IN  CASE Shape(out, a, b) = <<"r", "r", "r">> ->
               IF a = b THEN Copy(s, a, out)
               ELSE IF a = out THEN Cmov(s, Invert(cc), b, out)
               ELSE Copy(s, b, out) \o Cmov(s, cc, a, out)
          [] Shape(out, a, b) = <<"r", "i", "r">> ->
               IF b = out THEN Copy(s, a, t.gp1) \o Cmov(s, cc, t.gp1, out)
               ELSE Copy(s, a, out) \o Cmov(s, Invert(cc), b, out)
          [] Shape(out, a, b) = <<"r", "i", "i">> ->
               IF a = b THEN Copy(s, a, out)
               ELSE Mov(s, b, out) \o Mov(s, a, t.gp1) \o Cmov(s, cc, t.gp1, out)
          [] OTHER -> Die

(* Compares a with b.                                                      *)
CmpGP(s, a, b, t) ==
    CASE <<a.is, b.is>> \in {<<"r", "r">>, <<"m", "r">>} -> Op2("cmp", s, b, a)
      [] <<a.is, b.is>> = <<"m", "m">> -> Mov(s, b, t.gp1) \o Op2("cmp", s, t.gp1, a)
      [] <<a.is, b.is>> \in {<<"r", "i">>, <<"m", "i">>} /\ Imm32(b) -> Op2("cmp", s, b, a)
      [] OTHER -> Die

SetCC(cc, out) == IF out.is = "r" THEN <<Ins("setcc", 1, cc, Imm(0), out)>> ELSE <<>>

(***************************************************************************)
(* Moves of integers.                                                      *)
(***************************************************************************)
CopyGP(s, out, a, t) ==
    CASE <<out.is, a.is>> \in {<<"r", "r">>, <<"r", "m">>, <<"m", "r">>, <<"r", "i">>} -> Copy(s, a, out)
      [] <<out.is, a.is>> = <<"m", "m">> /\ out = a -> <<>>
      [] <<out.is, a.is>> = <<"m", "i">> /\ Imm32(a) -> Mov(s, a, out)
      [] OTHER -> Die

TruncInt(to, from, out, a, t) ==
    IF <<out.is, a.is>> = <<"r", "r">> THEN Copy(to, a, out) ELSE Die

MovzxInt(to, from, out, a, t) ==
    IF <<out.is, a.is>> \in {<<"r", "r">>, <<"r", "m">>} THEN MovZx(from, to, a, out) ELSE Die

(* Variant: extends to the whole register.                                 *)
MovsxIntWide(to, from, out, a, t) ==
    IF <<out.is, a.is>> \in {<<"r", "r">>, <<"r", "m">>} THEN MovSx(from, 8, a, out) ELSE Die

MovsxInt(to, from, out, a, t) ==
    IF <<out.is, a.is>> \in {<<"r", "r">>, <<"r", "m">>} THEN MovSx(from, to, a, out) ELSE Die

MovGP(s, out, a, t) ==
    CASE <<out.is, a.is>> = <<"m", "r">> -> Mov(s, a, out)
      [] <<out.is, a.is>> = <<"m", "m">> -> IF out = a THEN <<>> ELSE Mov(s, a, t.gp1) \o Mov(s, t.gp1, out)
      [] <<out.is, a.is>> = <<"m", "i">> /\ Imm32(a) -> Mov(s, a, out)
      [] OTHER -> Die

LoadGP(s, out, pointer, t) ==
    IF <<out.is, pointer.is>> = <<"r", "r">> THEN Mov(s, At(pointer.r, None, 0, 0), out) ELSE Die

(* Variant: takes the second temporary and never the first.                *)
StoreGPSecond(s, pointer, a, t) ==
    IF a.is = "m" THEN Mov(s, a, t.gp2) \o Mov(s, t.gp2, At(pointer.r, None, 0, 0))
    ELSE Mov(s, a, At(pointer.r, None, 0, 0))

StoreGP(s, pointer, a, t) ==
    CASE <<pointer.is, a.is>> = <<"r", "r">> -> Mov(s, a, At(pointer.r, None, 0, 0))
      [] <<pointer.is, a.is>> = <<"r", "m">> -> Mov(s, a, t.gp1) \o Mov(s, t.gp1, At(pointer.r, None, 0, 0))
      [] OTHER -> Die

(* The element at an index, of an array a register points to.              *)
Element(pointer, index, s) ==
    IF index.is = "i" THEN At(pointer.r, None, 0, s * index.v) ELSE At(pointer.r, index.r, s, 0)

LoadByIdxInt(s, out, pointer, index, t) ==
    CASE Shape(out, pointer, index) \in {<<"r", "r", "r">>, <<"r", "r", "i">>} -> Mov(s, Element(pointer, index, s), out)
      [] Shape(out, pointer, index) = <<"r", "m", "r">> ->
           Mov(8, pointer, t.gp1) \o Mov(s, Element(t.gp1, index, s), out)
      [] Shape(out, pointer, index) = <<"r", "m", "m">> ->
           Mov(8, index, t.gp1) \o Mov(8, pointer, t.gp2) \o Mov(s, Element(t.gp2, t.gp1, s), out)
      [] OTHER -> Die

MovByIdxInt(s, pointer, index, a, t) ==
    CASE Shape(pointer, index, a) \in {<<"r", "r", "r">>, <<"r", "i", "r">>} -> Mov(s, a, Element(pointer, index, s))
      [] Shape(pointer, index, a) = <<"r", "i", "i">> ->
           IF Imm32(a) THEN Mov(s, a, Element(pointer, index, s))
           ELSE Copy(s, a, t.gp1) \o Mov(s, t.gp1, Element(pointer, index, s))
      [] Shape(pointer, index, a) = <<"m", "r", "r">> ->
           Mov(8, pointer, t.gp1) \o Mov(s, a, Element(t.gp1, index, s))
      [] Shape(pointer, index, a) = <<"m", "r", "m">> ->
           Mov(8, pointer, t.gp1) \o Mov(s, a, t.gp2) \o Mov(s, t.gp2, Element(t.gp1, index, s))
      [] Shape(pointer, index, a) = <<"m", "m", "r">> ->
           Mov(8, pointer, t.gp1) \o Mov(8, index, t.gp2) \o Mov(s, a, Element(t.gp1, t.gp2, s))
      [] OTHER -> Die

(* The element at an index, of an array on the stack.                      *)
OnStack(slot, index, s) == [slot EXCEPT !.disp = @ + s * index.v]

StoreOnStackGP(s, slot, index, a, t) ==
    CASE Shape(slot, index, a) = <<"m", "i", "r">> -> Mov(s, a, OnStack(slot, index, s))
      [] Shape(slot, index, a) = <<"m", "i", "i">> ->
           IF Imm32(a) THEN Mov(s, a, OnStack(slot, index, s))
           ELSE Copy(s, a, t.gp1) \o Mov(s, t.gp1, OnStack(slot, index, s))
      [] OTHER -> Die

LoadFromStackGP(s, out, slot, index, t) ==
    IF Shape(out, slot, index) = <<"r", "m", "i">> THEN Mov(s, OnStack(slot, index, s), out) ELSE Die

LeaAddrGP(s, out, slot, index, t) ==
    IF Shape(out, slot, index) = <<"r", "m", "i">> THEN <<Ins("lea", 8, 0, OnStack(slot, index, s), out)>> ELSE Die

(***************************************************************************)
(* Floating point.  The only immediate is zero.                            *)
(***************************************************************************)
AddFloat(s, out, a, b, t) ==
    CASE Shape(out, a, b) = <<"x", "x", "x">> ->
           IF b = out THEN Op2("addfp", s, a, out) ELSE CopyFp(s, a, out) \o Op2("addfp", s, b, out)
      [] Shape(out, a, b) = <<"x", "m", "x">> ->
           IF b = out THEN Op2("addfp", s, a, out) ELSE MovFp(s, a, out) \o Op2("addfp", s, b, out)
      [] OTHER -> Die

DivFloat(s, out, a, b, t) ==
    LET aside(first) == first \o Op2("divfp", s, b, t.xmm1) \o CopyFp(s, t.xmm1, out)
    IN  CASE Shape(out, a, b) = <<"x", "x", "x">> ->
               IF b = out /\ a # out THEN aside(CopyFp(s, a, t.xmm1)) ELSE CopyFp(s, a, out) \o Op2("divfp", s, b, out)
          [] Shape(out, a, b) = <<"x", "x", "m">> -> CopyFp(s, a, out) \o Op2("divfp", s, b, out)
          [] Shape(out, a, b) = <<"x", "m", "x">> ->
               IF b = out THEN aside(MovFp(s, a, t.xmm1)) ELSE MovFp(s, a, out) \o Op2("divfp", s, b, out)
          [] Shape(out, a, b) = <<"x", "x", "i">> /\ b = Imm(0) ->
               ClearFp(s, t.xmm1) \o CopyFp(s, a, out) \o Op2("divfp", s, t.xmm1, out)
          [] Shape(out, a, b) = <<"x", "i", "x">> ->
               IF b = out THEN aside(ClearFp(s, t.xmm1)) ELSE ClearFp(s, out) \o Op2("divfp", s, b, out)
          [] OTHER -> Die

CmpFloat(s, a, b, t) ==
    CASE <<a.is, b.is>> \in {<<"x", "x">>, <<"x", "m">>} -> Op2("cmpfp", s, b, a)
      [] <<a.is, b.is>> = <<"m", "m">> -> MovFp(s, a, t.xmm1) \o Op2("cmpfp", s, b, t.xmm1)
      [] <<a.is, b.is>> = <<"x", "i">> /\ b = Imm(0) -> ClearFp(s, t.xmm1) \o Op2("cmpfp", s, t.xmm1, a)
      [] OTHER -> Die

CopyFloat(s, out, a, t) ==
    CASE <<out.is, a.is>> \in {<<"x", "x">>, <<"x", "m">>} -> CopyFp(s, a, out)
      [] <<out.is, a.is>> = <<"x", "i">> /\ a = Imm(0) -> ClearFp(s, out)
      [] OTHER -> Die

MovFloat(s, out, a, t) ==
    CASE <<out.is, a.is>> = <<"m", "x">> -> MovFp(s, a, out)
      [] <<out.is, a.is>> = <<"m", "m">> -> IF out = a THEN <<>> ELSE Mov(s, a, t.gp1) \o Mov(s, t.gp1, out)
      [] <<out.is, a.is>> = <<"m", "i">> /\ a = Imm(0) -> ClearFp(s, t.xmm1) \o MovFp(s, t.xmm1, out)
      [] OTHER -> Die

LoadFloat(s, out, pointer, t) ==
    IF <<out.is, pointer.is>> = <<"x", "r">> THEN MovFp(s, At(pointer.r, None, 0, 0), out) ELSE Die

StoreXmm(s, pointer, a, t) ==
    IF <<pointer.is, a.is>> = <<"r", "x">> THEN MovFp(s, a, At(pointer.r, None, 0, 0)) ELSE Die

LoadByIdxFloat(s, out, pointer, index, t) ==
    IF Shape(out, pointer, index) = <<"x", "m", "r">>
    THEN Mov(8, pointer, t.gp1) \o MovFp(s, Element(t.gp1, index, s), out)
    ELSE Die

MovByIdxFloat(s, pointer, index, a, t) ==
    CASE Shape(pointer, index, a) = <<"m", "r", "x">> ->
           Mov(8, pointer, t.gp1) \o MovFp(s, a, Element(t.gp1, index, s))
      [] Shape(pointer, index, a) = <<"m", "r", "m">> ->
           Mov(8, pointer, t.gp1) \o Mov(s, a, t.gp2) \o Mov(s, t.gp2, Element(t.gp1, index, s))
      [] OTHER -> Die

StoreOnStackXmm(s, slot, index, a, t) ==
    CASE Shape(slot, index, a) = <<"m", "i", "i">> /\ a = Imm(0) ->
           ClearFp(s, t.xmm1) \o MovFp(s, t.xmm1, OnStack(slot, index, s))
      [] Shape(slot, index, a) = <<"m", "i", "m">> ->
           Mov(s, a, t.gp1) \o Mov(s, t.gp1, OnStack(slot, index, s))
      [] OTHER -> Die

LoadFromStackFloat(s, out, slot, index, t) ==
    IF Shape(out, slot, index) = <<"x", "m", "i">> THEN MovFp(s, OnStack(slot, index, s), out) ELSE Die

(***************************************************************************)
(* Conversions.                                                            *)
(***************************************************************************)
CvtFp2Int(from, to, out, a, t) ==
    IF <<out.is, a.is>> = <<"r", "x">>
    THEN <<Ins("cvtfp2si", IF to >= 4 THEN to ELSE 4, from, a, out)>>
    ELSE Die

(* Variant: extends a small number where it is.                            *)
CvtInt2FpInPlace(from, to, out, a, t) ==
    IF <<out.is, a.is>> # <<"x", "r">> THEN Die
    ELSE IF from >= 4 THEN CvtSi2Fp(from, to, a, out)
    ELSE MovSx(from, 4, a, a) \o CvtSi2Fp(4, to, a, out)

CvtInt2Fp(from, to, out, a, t) ==
    CASE <<out.is, a.is>> = <<"x", "r">> /\ from >= 4 -> CvtSi2Fp(from, to, a, out)
      [] <<out.is, a.is>> = <<"x", "r">> /\ from < 4 -> MovSx(from, 4, a, t.gp1) \o CvtSi2Fp(4, to, t.gp1, out)
      [] OTHER -> Die

(* A number with the highest bit set is halved, its lowest bit kept, and   *)
(* the result doubled.                                                     *)
CvtU64ToFp(to, out, a, t) ==
    Op2("test", 8, a, a) \o <<Ins("jcc", 8, 8, Imm(0), Imm(5))>>
    \o CvtSi2Fp(8, to, a, out) \o <<Ins("jmp", 8, 0, Imm(0), Imm(13))>>
    \o Copy(8, a, t.gp1) \o Copy(8, a, t.gp2) \o Shift(8, "shr", Imm(1), t.gp1) \o Op2("and", 8, Imm(1), t.gp2)
    \o Op2("or", 8, t.gp1, t.gp2) \o ClearFp(to, out) \o CvtSi2Fp(8, to, t.gp2, out) \o Op2("addfp", to, out, out)

CvtUInt2Fp(from, to, out, a, t) ==
    CASE <<out.is, a.is>> = <<"x", "r">> /\ from < 4 -> MovZx(from, 4, a, t.gp1) \o CvtSi2Fp(4, to, t.gp1, out)
      [] <<out.is, a.is>> = <<"x", "r">> /\ from = 4 -> CvtSi2Fp(8, to, a, out)
      [] <<out.is, a.is>> = <<"x", "r">> /\ from = 8 -> CvtU64ToFp(to, out, a, t)
      [] OTHER -> Die
=============================================================================
