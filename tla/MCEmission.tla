----------------------------- MODULE MCEmission -----------------------------
(***************************************************************************)
(* Every shape of operands that an emitter has code for, at every size,    *)
(* with every way the output and the inputs can share a register, as far   *)
(* as the allocator gives them out: the divided number is in rax and the   *)
(* divisor in neither rax nor rdx, a count in a register is in rcx and the *)
(* shifted value elsewhere, temporaries are apart from operands.           *)
(***************************************************************************)
EXTENDS Emission, TLC

MCBits == (1 :> 2) @@ (2 :> 4) @@ (4 :> 6) @@ (8 :> 9)
MCPrecision == (4 :> 2) @@ (8 :> 3)

Ints == {1, 2, 4, 8}
Floats == {4, 8}

rax == Reg("rax")
rbx == Reg("rbx")
rcx == Reg("rcx")
rsi == Reg("rsi")
x0 == Xmm("xmm0")
x1 == Xmm("xmm1")
x2 == Xmm("xmm2")
Unused == Imm(0)
Frame == 64
Heap == 16
Slot == At("rbp", None, 0, -24)
Slot2 == At("rbp", None, 0, -8)

Imms(s) == {Imm(v) : v \in {0, 1, -1} \cup (IF s = 8 THEN {100} ELSE {})}
Places == {Imm(0), Imm(1)}

NoPred == [kind |-> "none", is |-> "none"]
New(op, s, f, out, a, b) == [op |-> op, s |-> s, f |-> f, out |-> out, a |-> a, b |-> b, pred |-> NoPred]
If(j, pred) == [j EXCEPT !.pred = pred]

Predicates(kinds) == [kind : kinds, is : {"Eq", "Ne", "Lt", "Le", "Gt", "Ge"}]

(***************************************************************************)
(* The operations with their operands.                                     *)
(***************************************************************************)
BinaryJobs ==
    UNION {{New(op, s, s, rbx, a, b) : op \in {"add_i", "sub_i", "xor_i"}, a \in {rbx, rsi, Slot},
                                       b \in {rbx, rsi, rcx, Slot2} \cup Imms(s)} : s \in Ints}

ShiftJobs ==
    {New(op, s, s, out, a, b) : op \in {"sal_i", "sar_i", "shr_i"}, s \in Ints, out \in {rbx, rcx},
                                a \in {rbx, rsi}, b \in {rcx, Imm(0), Imm(1)}}

DivisionJobs ==
    {New("div_i", s, s, rax, rax, b) : s \in {4, 8}, b \in {rbx, Imm(3), Imm(-2)}}
    \cup {New("div_u", s, s, rax, rax, b) : s \in {2, 4, 8}, b \in {rbx, Imm(3)}}

ExtensionJobs ==
    {New(op, sizes[2], sizes[1], rbx, a, Unused) :
        op \in {"movzx_i", "movsx_i"}, a \in {rbx, rsi, Slot},
        sizes \in {z \in Ints \X Ints : z[1] < z[2]}}
    \cup {New("trunc_i", sizes[2], sizes[1], rbx, a, Unused) :
            a \in {rbx, rsi}, sizes \in {z \in Ints \X Ints : z[1] > z[2]}}

MoveJobs ==
    UNION {{New("copy_i", s, s, out, a, Unused) : out \in {rbx, Slot}, a \in {rbx, rsi, Slot, Slot2} \cup Imms(s)}
           \cup {New("mov_i", s, s, Slot, a, Unused) : a \in {rbx, Slot, Slot2} \cup Imms(s)}
           \cup {New("load_i", s, s, rbx, a, Unused) : a \in {rbx, rsi}}
           \cup {New("store_i", s, s, rsi, a, Unused) : a \in {rbx, Slot}} : s \in Ints}

ElementJobs ==
    UNION {{New("load_by_idx_i", s, s, rbx, a, b) : a \in {rsi, Slot}, b \in {rbx, rcx, Slot2} \cup Places}
           \cup {New("load_by_idx_i", s, s, rbx, rbx, b) : b \in {rcx, Slot2} \cup Places}
           \cup {New("mov_by_idx_i", s, s, out, a, b) :
                    out \in {rsi, Slot}, a \in {rcx} \cup Places, b \in {rbx, Slot2} \cup Imms(s)}
           \cup {New("mov_by_idx_i", s, s, out, Slot2, rbx) : out \in {rsi, Slot}}
           \cup {New("store_by_offset_i", s, s, Slot, a, b) : a \in Places, b \in {rbx} \cup Imms(s)}
           \cup {New("read_by_offset_i", s, s, rbx, Slot, b) : b \in Places}
           \cup {New("lea_i", s, s, rbx, Slot, b) : b \in Places} : s \in Ints}

FloatJobs ==
    {New(op, s, s, x0, a, b) : op \in {"add_f", "div_f"}, s \in Floats,
                               a \in {x0, x1, Slot, Imm(0)}, b \in {x0, x1, x2, Slot2, Imm(0)}}
    \cup {New("copy_f", s, s, x0, a, Unused) : s \in Floats, a \in {x0, x1, Slot, Imm(0)}}
    \cup {New("mov_f", s, s, Slot, a, Unused) : s \in Floats, a \in {x0, Slot, Slot2, Imm(0)}}
    \cup {New("load_f", s, s, x0, rbx, Unused) : s \in Floats}
    \cup {New("store_f", s, s, rsi, x0, Unused) : s \in Floats}
    \cup {New("load_by_idx_f", s, s, x0, Slot, rcx) : s \in Floats}
    \cup {New("mov_by_idx_f", s, s, Slot, rcx, b) : s \in Floats, b \in {x0, Slot2}}
    \cup {New("store_by_offset_f", s, s, Slot, a, b) : s \in Floats, a \in Places, b \in {Slot2, Imm(0)}}
    \cup {New("read_by_offset_f", s, s, x0, Slot, b) : s \in Floats, b \in Places}

ConversionJobs ==
    {New("cvtfp2int", s, f, rbx, x0, Unused) : s \in Ints, f \in Floats}
    \cup {New(op, s, f, x0, rbx, Unused) : op \in {"cvtint2fp", "cvtuint2fp"}, s \in Floats, f \in Ints}

(* What a conditional move and a setcc follow.                             *)
SelectionPrograms ==
    {<<New("cmp_i", s, s, rbx, rbx, rsi), If(New("cmov_i", s, s, rbx, a, b), pred)>> :
        s \in {1, 4, 8}, a \in {rbx, rsi}, b \in {rbx, rsi, rcx}, pred \in Predicates({"signed", "unsigned"})}
    \cup {<<New("cmp_i", s, s, rbx, rbx, rsi), If(New("cmov_i", s, s, rbx, a, b), pred)>> :
        s \in {1, 4, 8}, a \in {Imm(0), Imm(1)}, b \in {rbx, rsi, Imm(1)}, pred \in Predicates({"signed", "unsigned"})}
    \cup {<<New("cmp_i", s, s, rbx, a, b), If(New("setcc_i", 1, 1, rbx, a, b), pred)>> :
        s \in Ints, a \in {rbx, Slot}, b \in {rsi, Slot2, Imm(0), Imm(-1)}, pred \in Predicates({"signed", "unsigned"})}
    \cup {<<New("cmp_f", s, s, rbx, a, b), If(New("setcc_i", 1, 1, rbx, a, b), pred)>> :
        s \in Floats, a \in {x0, Slot}, b \in {x1, Slot2, Imm(0)}, pred \in Predicates({"float"})}

Works(program) == \A i \in 1 .. Len(program) : CodeFor(program[i], AllTemps) # Die

MCPrograms ==
    {p \in {<<j>> : j \in BinaryJobs \cup ShiftJobs \cup DivisionJobs \cup ExtensionJobs \cup MoveJobs
                         \cup ElementJobs \cup FloatJobs \cup ConversionJobs} \cup SelectionPrograms : Works(p)}

(***************************************************************************)
(* What the operands hold.  Beyond the size of a value of 1 or 2 bytes the *)
(* register holds anything, here ones; beyond 4 bytes nothing.             *)
(***************************************************************************)
AllOf(s) == {IF s < 4 THEN v + Wrap(8) - Wrap(s) ELSE v : v \in 0 .. Wrap(s) - 1}
Some(s) == {v \in AllOf(s) : Low(s, v) \in {0, 1, Wrap(s) \div 2 - 1, Wrap(s) \div 2, Wrap(s) - 1}}
Numbers == {Fp(-2), Fp(0), Fp(3)}
Counts(s) == {c \in 0 .. 3 : c < Bits[s]}

Role(op, which) ==
    CASE op \in {"sal_i", "sar_i", "shr_i"} /\ which = "b" -> "count"
      [] op \in {"load_i", "load_by_idx_i", "load_f", "load_by_idx_f"} /\ which = "a" -> "pointer"
      [] op \in {"store_i", "mov_by_idx_i", "store_f", "mov_by_idx_f"} /\ which = "out" -> "pointer"
      [] op \in {"load_by_idx_i", "load_by_idx_f"} /\ which = "b" -> "index"
      [] op \in {"mov_by_idx_i", "mov_by_idx_f"} /\ which = "a" -> "index"
      [] op \in {"movzx_i", "movsx_i", "cvtint2fp", "cvtuint2fp"} /\ which = "a" -> "all"
      [] op \in {"add_f", "div_f", "copy_f", "mov_f", "store_f", "cmp_f"} /\ which # "out" -> "number"
      [] op \in {"mov_by_idx_f", "store_by_offset_f"} /\ which = "b" -> "number"
      [] op = "cvtfp2int" /\ which = "a" -> "whole"
      [] op = "setcc_i" \/ which = "out" \/ op \in {"lea_i", "read_by_offset_i", "read_by_offset_f"} -> "none"
      [] OTHER -> "some"

Values(role, j) ==
    CASE role = "count" -> Counts(j.s)
      [] role = "pointer" -> {Heap}
      [] role = "index" -> {0, 1}
      [] role = "all" -> AllOf(j.f)
      [] role = "some" -> Some(j.f)
      [] role = "number" -> Numbers
      [] role = "whole" -> {Fp(n) : n \in {k \in -(Wrap(j.s) \div 2) .. Wrap(j.s) \div 2 - 1 : Round(j.f, k) = k}}

Filled(machines, j, which) ==
    LET o == j[which]
        role == Role(j.op, which)
    IN  IF role = "none" THEN machines
        ELSE IF o.is = "i" THEN machines
        ELSE {CASE o.is = "r" -> [mm EXCEPT !.gp[o.r] = v]
                [] o.is = "x" -> [mm EXCEPT !.xmm[o.x] = v]
                [] o.is = "m" -> [mm EXCEPT !.mem[AddressOf(mm, o)] = v] : mm \in machines, v \in Values(role, j)}

Blank(j) ==
    LET cells == {Heap, Heap + j.s, Frame - 24, Frame - 24 + j.s, Frame - 8}
        float == j.op \notin IntegerOps \cup MoveOps
    IN  [gp |-> [r \in {"rax", "rbx", "rcx", "rdx", "rsi", "rdi", "rbp", "r10", "r11"} |->
                    IF r = "rbp" THEN Frame ELSE IF r = "rdx" THEN Wrap(8) - 2 ELSE 7],
         xmm |-> [x \in {"xmm0", "xmm1", "xmm2", "xmm15"} |-> Fp(5)],
         mem |-> [c \in cells |-> IF float THEN Fp(c) ELSE Wrap(8) - c],
         flags |-> Lost, status |-> "running"]

(* Divisions by zero and quotients that do not fit are no states of a      *)
(* program that the language of the input gives a meaning.                 *)
Defined(j, mm) ==
    LET a == Holding(mm, j, j.a)
        b == Holding(mm, j, j.b)
    IN  j.op \in {"div_i", "div_u"} =>
            Low(j.s, b) # 0 /\ ~(j.op = "div_i" /\ Low(j.s, b) = Wrap(j.s) - 1 /\ 2 * Low(j.s, a) = Wrap(j.s))

StartsOfJob(machines, j) == Filled(Filled(Filled(machines, j, "out"), j, "a"), j, "b")

MCStarts(p) ==
    {mm \in StartsOfJob(StartsOfJob({Blank(p[1])}, p[Len(p)]), p[1]) : Defined(p[1], mm)}
=============================================================================
