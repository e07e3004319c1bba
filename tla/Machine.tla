------------------------------ MODULE Machine ------------------------------
(***************************************************************************)
(* The part of an x86-64 processor that the emitters use.  It is no part   *)
(* of the program: it is modelled from the manual, as far as the emitters  *)
(* depend on it.  Integers are scaled down: a size of 1, 2, 4 or 8 bytes   *)
(* keeps Bits[1], Bits[2], Bits[4] or Bits[8] bits.  What depends on the   *)
(* sizes is kept: writing 1 or 2 bytes of a register keeps the rest,       *)
(* writing 4 clears it, and ax holds two values of one byte.               *)
(*                                                                         *)
(* Memory is a function from the addresses in use to the values stored     *)
(* there; accesses do not overlap.  A floating-point number n is the       *)
(* integer FpBase + n, beyond every register, wherever it is stored.       *)
(***************************************************************************)
EXTENDS Integers, Sequences, Bitwise

CONSTANTS
    Bits,       \* size in bytes -> width in bits
    Precision   \* size in bytes -> significant bits of a floating-point value

ASSUME BitsAssumption ==
    /\ Bits \in [{1, 2, 4, 8} -> 1 .. 12] /\ Precision \in [{4, 8} -> Nat \ {0}]
    /\ Bits[2] = 2 * Bits[1] /\ Bits[2] < Bits[4] /\ Bits[4] < Bits[8]

Size == DOMAIN Bits

Wrap(s) == 2 ^ Bits[s]

Low(s, v) == v % Wrap(s)

Signed(s, v) == IF 2 * Low(s, v) >= Wrap(s) THEN Low(s, v) - Wrap(s) ELSE Low(s, v)

FpBase == 100000
Fp(n) == FpBase + n
Number(v) == v - FpBase
IsFp(v) == v > FpBase \div 2

(* What is read of v when s bytes are: floating-point bits are not cut.    *)
Bytes(s, v) == IF IsFp(v) THEN v ELSE Low(s, v)

(***************************************************************************)
(* Floating-point arithmetic: integers are rounded to the precision, half  *)
(* to even; a quotient is represented by its operands.                     *)
(***************************************************************************)
Round(s, n) ==
    LET abs == IF n < 0 THEN -n ELSE n
        unit == CHOOSE u \in {2 ^ e : e \in 0 .. 2 * Bits[8]} :
                    abs \div u < 2 ^ Precision[s] /\ (u = 1 \/ abs \div (u \div 2) >= 2 ^ Precision[s])
        down == abs \div unit
        rest == 2 * (abs % unit)
        up == rest > unit \/ (rest = unit /\ down % 2 = 1)
        rounded == unit * (IF up THEN down + 1 ELSE down)
    IN  IF n < 0 THEN -rounded ELSE rounded

FpSum(s, a, b) == Fp(Round(s, Number(a) + Number(b)))

FpQuotient(a, b) == Fp(10000 + 100 * (Number(a) % 100) + (Number(b) % 100))

(***************************************************************************)
(* Operands: a general register, an xmm register, an integer, a memory     *)
(* address base + index * scale + disp.                                    *)
(***************************************************************************)
Reg(r) == [is |-> "r", r |-> r]
Xmm(x) == [is |-> "x", x |-> x]
Imm(v) == [is |-> "i", v |-> v]
None == "none"
At(base, index, scale, disp) ==
    [is |-> "m", base |-> base, index |-> index, scale |-> scale, disp |-> disp]

FpZero == Fp(0)

AddressOf(m, o) ==
    LET of(r) == IF r = None THEN 0 ELSE m.gp[r]
    IN  Low(8, of(o.base) + of(o.index) * o.scale + o.disp)

Mapped(m, o) == AddressOf(m, o) \in DOMAIN m.mem

Read(m, s, o) ==
    CASE o.is = "r" -> Bytes(s, m.gp[o.r])
      [] o.is = "x" -> m.xmm[o.x]
      [] o.is = "i" -> Low(s, o.v)
      [] o.is = "m" -> Bytes(s, m.mem[AddressOf(m, o)])

Write(m, s, o, v) ==
    CASE o.is = "r" -> [m EXCEPT !.gp[o.r] = IF s \in {1, 2} THEN @ - Low(s, @) + Low(s, v) ELSE Bytes(s, v)]
      [] o.is = "x" -> [m EXCEPT !.xmm[o.x] = v]
      [] o.is = "m" -> [m EXCEPT !.mem[AddressOf(m, o)] = Bytes(s, v)]

(***************************************************************************)
(* Flags, as far as they are read: what a comparison leaves.  After other  *)
(* arithmetic they say nothing of the last comparison.                     *)
(***************************************************************************)
Lost == [known |-> FALSE, equal |-> FALSE, below |-> FALSE, less |-> FALSE, sign |-> FALSE]

Compared(s, l, r) ==
    [known |-> TRUE, equal |-> Low(s, l) = Low(s, r), below |-> Low(s, l) < Low(s, r),
     less |-> Signed(s, l) < Signed(s, r), sign |-> Signed(s, l - r) < 0]

FpCompared(l, r) ==
    [known |-> TRUE, equal |-> l = r, below |-> l < r, less |-> FALSE, sign |-> FALSE]

(* The condition codes come in pairs: an odd one is the negation of the    *)
(* even one before it.                                                     *)
Holds(cc, f) ==
    LET even == CASE cc \div 2 = 1 -> f.below
                  [] cc \div 2 = 2 -> f.equal
                  [] cc \div 2 = 3 -> f.below \/ f.equal
                  [] cc \div 2 = 4 -> f.sign
                  [] cc \div 2 = 6 -> f.less
                  [] cc \div 2 = 7 -> f.less \/ f.equal
    IN  even = (cc % 2 = 0)

Quotient(a, b) ==
    LET abs(n) == IF n < 0 THEN -n ELSE n
    IN  IF (a < 0) = (b < 0) THEN abs(a) \div abs(b) ELSE -(abs(a) \div abs(b))

Remainder(a, b) == a - b * Quotient(a, b)

(* A shift takes one byte of its count.                                    *)
Arithmetic(op, s, l, r) ==
    CASE op = "add" -> l + r
      [] op = "sub" -> l - r
      [] op = "neg" -> -l
      [] op = "xor" -> l ^^ r
      [] op = "and" -> l & r
      [] op = "or" -> l | r
      [] op = "sal" -> l * 2 ^ Low(1, r)
      [] op = "shr" -> l \div 2 ^ Low(1, r)
      [] op = "sar" -> Signed(s, l) \div 2 ^ Low(1, r)

(* idiv and div take the dividend from rdx and rax, of one byte from ax,   *)
(* and trap on a quotient that does not fit.                               *)
Divide(m, signed, s, o) ==
    LET view(size, v) == IF signed THEN Signed(size, v) ELSE Low(size, v)
        dividend == IF s = 1 THEN view(2, m.gp["rax"])
                    ELSE view(s, m.gp["rdx"]) * Wrap(s) + Low(s, m.gp["rax"])
        divisor == view(s, Read(m, s, o))
        q == Quotient(dividend, divisor)
        r == Remainder(dividend, divisor)
    IN  IF divisor = 0 \/ view(s, q) # q
        THEN [m EXCEPT !.status = "trap"]
        ELSE [(IF s = 1 THEN Write(m, 2, Reg("rax"), Low(1, r) * Wrap(1) + Low(1, q))
               ELSE Write(Write(m, s, Reg("rax"), q), s, Reg("rdx"), r)) EXCEPT !.flags = Lost]

(* A number that does not fit becomes the least integer.                   *)
ToInteger(s, n) == IF Signed(s, n) = n THEN n ELSE -(Wrap(s) \div 2)

(***************************************************************************)
(* An instruction: operation, size, a second size or a condition, source   *)
(* and destination.  A jump has the position it goes to as its destination. *)
(***************************************************************************)
Ins(op, s, arg, src, dst) == [op |-> op, s |-> s, arg |-> arg, src |-> src, dst |-> dst]

Perform(m, i) ==
    LET l == Read(m, i.s, i.dst)
        r == Read(m, i.s, i.src)
    IN  CASE i.op \in {"add", "sub", "neg", "xor", "and", "or", "sal", "shr", "sar"} ->
               [Write(m, i.s, i.dst, Arithmetic(i.op, i.s, l, r)) EXCEPT !.flags = Lost]
          [] i.op = "mov" -> Write(m, i.s, i.dst, r)
          [] i.op = "cmp" -> [m EXCEPT !.flags = Compared(i.s, l, r)]
          [] i.op = "test" -> [m EXCEPT !.flags = Compared(i.s, l & r, 0)]
          [] i.op = "cmov" -> Write(m, i.s, i.dst, IF Holds(i.arg, m.flags) THEN r ELSE l)
          [] i.op = "setcc" -> Write(m, 1, i.dst, IF Holds(i.arg, m.flags) THEN 1 ELSE 0)
          [] i.op = "lea" -> Write(m, 8, i.dst, AddressOf(m, i.src))
          [] i.op = "movzx" -> Write(m, i.s, i.dst, Read(m, i.arg, i.src))
          [] i.op = "movsx" -> Write(m, i.s, i.dst, Signed(i.arg, Read(m, i.arg, i.src)))
          [] i.op = "idiv" -> Divide(m, TRUE, i.s, i.src)
          [] i.op = "div" -> Divide(m, FALSE, i.s, i.src)
          [] i.op = "cdq" ->
               LET of == IF i.s = 8 THEN 8 ELSE 4
               IN  Write(m, of, Reg("rdx"), IF Signed(of, m.gp["rax"]) < 0 THEN -1 ELSE 0)
          [] i.op = "movfp" -> Write(m, i.s, i.dst, r)
          [] i.op = "addfp" -> Write(m, i.s, i.dst, FpSum(i.s, l, r))
          [] i.op = "divfp" -> Write(m, i.s, i.dst, FpQuotient(l, r))
          [] i.op = "xorfp" -> Write(m, i.s, i.dst, IF i.src = i.dst THEN FpZero ELSE r)
          [] i.op = "cmpfp" -> [m EXCEPT !.flags = FpCompared(l, r)]
          [] i.op = "cvtsi2fp" -> Write(m, i.s, i.dst, Fp(Round(i.s, Signed(i.arg, Read(m, i.arg, i.src)))))
          [] i.op = "cvtfp2si" -> Write(m, i.s, i.dst, ToInteger(i.s, Number(r)))
          [] i.op \in {"jmp", "jcc"} -> m

(* It can be performed when the memory it names is there and the flags it  *)
(* reads are those of a comparison.                                        *)
Execute(m, i) ==
    IF \E o \in {i.src, i.dst} : o.is = "m" /\ i.op # "lea" /\ ~Mapped(m, o)
    THEN [m EXCEPT !.status = "fault"]
    ELSE IF i.op \in {"cmov", "setcc", "jcc"} /\ ~m.flags.known
    THEN [m EXCEPT !.status = "flags"]
    ELSE Perform(m, i)

(* The position of the instruction after the one at pc.                    *)
Following(m, code, pc) ==
    LET i == code[pc]
    IN  IF i.op = "jmp" \/ (i.op = "jcc" /\ Holds(i.arg, m.flags)) THEN i.dst.v ELSE pc + 1
=============================================================================
