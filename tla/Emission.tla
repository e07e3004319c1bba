------------------------------ MODULE Emission ------------------------------
(***************************************************************************)
(* LIRInstructionMapping gives every operation of the lowered code to its  *)
(* emitter, with the size the emitter works at; the allocator has given    *)
(* operands registers and slots before, and temporaries as many as a dry   *)
(* run of the emitter asked for.  Here a short program of such operations  *)
(* is emitted, one operation after the other, and the processor performs   *)
(* what was emitted: afterwards the result must be where the operation     *)
(* puts it, and nothing else may have changed.                             *)
(*                                                                         *)
(* A job is an operation with its assigned operands: s is the size of what *)
(* it defines or stores, f that of its first input, and pred the predicate *)
(* of the comparison that a selection takes its condition from.            *)
(***************************************************************************)
EXTENDS Emitters, FiniteSets

CONSTANTS
    Programs,   \* sequences of jobs
    Starts(_)   \* program -> the machines it may find

VARIABLES
    prog,       \* the program
    at,         \* the job
    code,       \* what was emitted for it, no code yet if Unemitted
    pc,         \* the next instruction of it
    m,          \* the machine
    before,     \* the machine before the job
    compared    \* what the last comparison compared

vars == <<prog, at, code, pc, m, before, compared>>

Unemitted == <<Ins("none", 1, 0, Imm(0), Imm(0))>>

(***************************************************************************)
(* FunctionLower: the condition code for a predicate.                      *)
(***************************************************************************)
SignedCond == [Eq |-> 4, Ne |-> 5, Gt |-> 15, Ge |-> 13, Lt |-> 12, Le |-> 14]
UnsignedCond == [Eq |-> 4, Ne |-> 5, Gt |-> 7, Ge |-> 3, Lt |-> 2, Le |-> 6]
FcmpCond == UnsignedCond

CondOf(pred) ==
    CASE pred.kind = "signed" -> SignedCond[pred.is]
      [] pred.kind = "unsigned" -> UnsignedCond[pred.is]
      [] pred.kind = "float" -> FcmpCond[pred.is]

(***************************************************************************)
(* LIRInstructionMapping, in the order of its methods.                     *)
(***************************************************************************)
MappedInteger(j, t) ==
    CASE j.op = "add_i" -> AddInt(j.s, j.out, j.a, j.b, t)
      [] j.op = "sub_i" -> SubInt(j.s, j.out, j.a, j.b, t)
      [] j.op = "div_i" -> DivInt(j.s, j.out, j.a, j.b, t)
      [] j.op = "div_u" -> DivUInt(j.s, j.out, j.a, j.b, t)
      [] j.op = "xor_i" -> XorInt(j.s, j.out, j.a, j.b, t)
      [] j.op = "sal_i" -> ShiftInt(j.s, "sal", j.out, j.a, j.b, t)
      [] j.op = "sar_i" -> ShiftInt(j.s, "sar", j.out, j.a, j.b, t)
      [] j.op = "shr_i" -> ShiftInt(j.s, "shr", j.out, j.a, j.b, t)
      [] j.op = "cmov_i" -> CMovGP(j.s, CondOf(j.pred), j.out, j.a, j.b, t)
      [] j.op = "setcc_i" -> SetCC(CondOf(j.pred), j.out)
      [] j.op = "movzx_i" -> MovzxInt(j.s, j.f, j.out, j.a, t)
      [] j.op = "movsx_i" -> MovsxInt(j.s, j.f, j.out, j.a, t)
      [] j.op = "trunc_i" -> TruncInt(j.s, j.f, j.out, j.a, t)
      [] j.op = "cmp_i" -> CmpGP(j.f, j.a, j.b, t)

MappedMove(j, t) ==
    CASE j.op = "mov_i" -> MovGP(j.s, j.out, j.a, t)
      [] j.op = "mov_by_idx_i" -> MovByIdxInt(j.s, j.out, j.a, j.b, t)
      [] j.op = "store_by_offset_i" -> StoreOnStackGP(j.s, j.out, j.a, j.b, t)
      [] j.op = "store_i" -> StoreGP(j.f, j.out, j.a, t)
      [] j.op = "copy_i" -> CopyGP(j.f, j.out, j.a, t)
      [] j.op = "load_i" -> LoadGP(j.s, j.out, j.a, t)
      [] j.op = "load_by_idx_i" -> LoadByIdxInt(j.s, j.out, j.a, j.b, t)
      [] j.op = "read_by_offset_i" -> LoadFromStackGP(j.s, j.out, j.a, j.b, t)
      [] j.op = "lea_i" -> LeaAddrGP(j.s, j.out, j.a, j.b, t)

MappedFloat(j, t) ==
    CASE j.op = "copy_f" -> CopyFloat(j.s, j.out, j.a, t)
      [] j.op = "cmp_f" -> CmpFloat(j.f, j.a, j.b, t)
      [] j.op = "add_f" -> AddFloat(j.s, j.out, j.a, j.b, t)
      [] j.op = "div_f" -> DivFloat(j.s, j.out, j.a, j.b, t)
      [] j.op = "mov_f" -> MovFloat(j.s, j.out, j.a, t)
      [] j.op = "mov_by_idx_f" -> MovByIdxFloat(j.s, j.out, j.a, j.b, t)
      [] j.op = "load_by_idx_f" -> LoadByIdxFloat(j.s, j.out, j.a, j.b, t)
      [] j.op = "store_by_offset_f" -> StoreOnStackXmm(j.s, j.out, j.a, j.b, t)
      [] j.op = "read_by_offset_f" -> LoadFromStackFloat(j.s, j.out, j.a, j.b, t)
      [] j.op = "cvtfp2int" -> CvtFp2Int(j.f, j.s, j.out, j.a, t)
      [] j.op = "cvtint2fp" -> CvtInt2Fp(j.f, j.s, j.out, j.a, t)
      [] j.op = "cvtuint2fp" -> CvtUInt2Fp(j.f, j.s, j.out, j.a, t)
      [] j.op = "store_f" -> StoreXmm(j.s, j.out, j.a, t)
      [] j.op = "load_f" -> LoadFloat(j.s, j.out, j.a, t)

IntegerOps == {"add_i", "sub_i", "div_i", "div_u", "xor_i", "sal_i", "sar_i", "shr_i", "cmov_i", "setcc_i",
               "movzx_i", "movsx_i", "trunc_i", "cmp_i"}
MoveOps == {"mov_i", "mov_by_idx_i", "store_by_offset_i", "store_i", "copy_i", "load_i", "load_by_idx_i",
            "read_by_offset_i", "lea_i"}

CodeFor(j, t) ==
    CASE j.op \in IntegerOps -> MappedInteger(j, t)
      [] j.op \in MoveOps -> MappedMove(j, t)
      [] j.op \notin IntegerOps \cup MoveOps -> MappedFloat(j, t)

(***************************************************************************)
(* Temporaries.  The dry run counts which of the accessors were called and *)
(* the allocator hands out that many registers, the first ones first.      *)
(***************************************************************************)
AllTemps == [gp1 |-> Reg("r10"), gp2 |-> Reg("r11"), xmm1 |-> Xmm("xmm15")]

Names(o) ==
    CASE o.is = "r" -> {o.r}
      [] o.is = "x" -> {o.x}
      [] o.is = "m" -> {o.base, o.index} \ {None}
      [] o.is = "i" -> {}

NamedIn(instructions) ==
    UNION {Names(instructions[i].src) \cup Names(instructions[i].dst) : i \in 1 .. Len(instructions)}

UsedGpTemps(j) == Cardinality(NamedIn(CodeFor(j, AllTemps)) \cap {"r10", "r11"})
UsedXmmTemps(j) == Cardinality(NamedIn(CodeFor(j, AllTemps)) \cap {"xmm15"})

(* What the accessors of TemporalRegs return, or their failed assertion.   *)
TempsOf(gp, xmm) ==
    [gp1 |-> IF gp >= 1 THEN Reg("r10") ELSE Reg("missing"),
     gp2 |-> IF gp >= 2 THEN Reg("r11") ELSE Reg("missing"),
     xmm1 |-> IF xmm >= 1 THEN Xmm("xmm15") ELSE Xmm("missing")]

(***************************************************************************)
(* The state machine.                                                      *)
(***************************************************************************)
NoComparison == [kind |-> "none", s |-> 1, l |-> 0, r |-> 0]

Init ==
    /\ prog \in Programs
    /\ at = 1 /\ code = Unemitted /\ pc = 1
    /\ m \in Starts(prog)
    /\ before = m
    /\ compared = NoComparison

(* What an operand of j holds in machine mm; a floating-point 0 is written *)
(* as the integer.                                                         *)
Holding(mm, j, o) ==
    IF o = Imm(0) /\ j.op \notin IntegerOps \cup MoveOps THEN FpZero ELSE Read(mm, j.f, o)

Comparison(j) ==
    [kind |-> j.op, s |-> j.f, l |-> Holding(m, j, j.a), r |-> Holding(m, j, j.b)]

Emit ==
    /\ at <= Len(prog) /\ code = Unemitted
    /\ LET j == prog[at]
       IN  /\ code' = CodeFor(j, TempsOf(UsedGpTemps(j), UsedXmmTemps(j)))
           /\ compared' = IF j.op \in {"cmp_i", "cmp_f"} THEN Comparison(j) ELSE compared
    /\ before' = m /\ pc' = 1
    /\ UNCHANGED <<prog, at, m>>

Step ==
    /\ at <= Len(prog) /\ code # Unemitted /\ pc <= Len(code)
    /\ m.status = "running"
    /\ m' = Execute(m, code[pc])
    /\ pc' = Following(m, code, pc)
    /\ UNCHANGED <<prog, at, code, before, compared>>

Performed == at <= Len(prog) /\ code # Unemitted /\ pc > Len(code)

NextJob ==
    /\ Performed
    /\ at' = at + 1 /\ code' = Unemitted
    /\ UNCHANGED <<prog, pc, m, before, compared>>

Stop == at > Len(prog) /\ UNCHANGED vars

Next == Emit \/ Step \/ NextJob \/ Stop

Spec == Init /\ [][Next]_vars

(***************************************************************************)
(* What the operations mean, whatever their emitters do: where the result  *)
(* goes and what it is, in terms of the machine before the job.            *)
(***************************************************************************)
ArithmeticOf == [add_i |-> "add", sub_i |-> "sub", xor_i |-> "xor", sal_i |-> "sal", sar_i |-> "sar", shr_i |-> "shr"]

Stores == {"mov_i", "mov_by_idx_i", "store_by_offset_i", "store_i",
           "mov_f", "mov_by_idx_f", "store_by_offset_f", "store_f"}

Cell(address) == At(None, None, 0, address)

ElementOf(pointer, index, size) ==
    Cell(Low(8, Read(before, 8, pointer) + size * Read(before, 8, index)))

ElementIn(slot, index, size) ==
    Cell(Low(8, AddressOf(before, slot) + size * index.v))

Destination(j) ==
    CASE j.op \in {"store_i", "store_f"} -> ElementOf(j.out, Imm(0), j.s)
      [] j.op \in {"mov_by_idx_i", "mov_by_idx_f"} -> ElementOf(j.out, j.a, j.s)
      [] j.op \in {"store_by_offset_i", "store_by_offset_f"} -> ElementIn(j.out, j.a, j.s)
      [] OTHER -> j.out

ResultSize(j) == IF j.op = "lea_i" THEN 8 ELSE j.s

Divided(j, of(_, _)) ==
    LET view(v) == IF j.op = "div_i" THEN Signed(j.s, v) ELSE v
    IN  Low(j.s, of(view(Holding(before, j, j.a)), view(Holding(before, j, j.b))))

Meaning(j) ==
    LET a == Holding(before, j, j.a)
        b == Holding(before, j, j.b)
    IN  CASE j.op \in DOMAIN ArithmeticOf -> Low(j.s, Arithmetic(ArithmeticOf[j.op], j.s, a, b))
          [] j.op \in {"div_i", "div_u"} -> Divided(j, Quotient)
          [] j.op \in {"movzx_i", "copy_i", "mov_i", "store_i", "copy_f", "mov_f", "store_f"} -> a
          [] j.op \in {"mov_by_idx_i", "store_by_offset_i", "mov_by_idx_f", "store_by_offset_f"} -> b
          [] j.op = "movsx_i" -> Low(j.s, Signed(j.f, a))
          [] j.op = "trunc_i" -> Low(j.s, a)
          [] j.op \in {"load_i", "load_f"} -> Read(before, j.s, ElementOf(j.a, Imm(0), j.s))
          [] j.op \in {"load_by_idx_i", "load_by_idx_f"} -> Read(before, j.s, ElementOf(j.a, j.b, j.s))
          [] j.op \in {"read_by_offset_i", "read_by_offset_f"} -> Read(before, j.s, ElementIn(j.a, j.b, j.s))
          [] j.op = "lea_i" -> AddressOf(before, ElementIn(j.a, j.b, j.s))
          [] j.op = "add_f" -> FpSum(j.s, a, b)
          [] j.op = "div_f" -> FpQuotient(a, b)
          [] j.op = "cvtfp2int" -> Low(j.s, Number(a))
          [] j.op = "cvtint2fp" -> Fp(Round(j.s, Signed(j.f, a)))
          [] j.op = "cvtuint2fp" -> Fp(Round(j.s, a))

PredicateHolds(pred, c) ==
    LET view(v) == IF pred.kind = "signed" THEN Signed(c.s, v) ELSE v
        l == view(c.l)
        r == view(c.r)
    IN  CASE pred.is = "Eq" -> l = r
          [] pred.is = "Ne" -> l # r
          [] pred.is = "Lt" -> l < r
          [] pred.is = "Le" -> l <= r
          [] pred.is = "Gt" -> l > r
          [] pred.is = "Ge" -> l >= r

Selections == {"cmov_i", "setcc_i"}
Comparisons == {"cmp_i", "cmp_f"}

Selected(j) ==
    IF j.op = "setcc_i" THEN IF PredicateHolds(j.pred, compared) THEN 1 ELSE 0
    ELSE Read(before, j.s, IF PredicateHolds(j.pred, compared) THEN j.a ELSE j.b)

Job == prog[at]

(***************************************************************************)
(* The code emitted for an operation computes it, whichever of its         *)
(* operands share a register, and neither faults nor traps.                *)
(***************************************************************************)
ComputesOperation ==
    /\ m.status \notin {"fault", "trap"}
    /\ Performed /\ Job.op \notin Selections \cup Comparisons =>
          /\ Read(m, ResultSize(Job), Destination(Job)) = Meaning(Job)
          /\ Job.op \in {"div_i", "div_u"} => Read(m, Job.s, Reg("rdx")) = Divided(Job, Remainder)

(***************************************************************************)
(* A cmov or setcc decides by the comparison of the program, not by flags  *)
(* that an instruction of its own emitter has overwritten, and with the    *)
(* condition code that belongs to the predicate.                           *)
(***************************************************************************)
SelectionFollowsComparison ==
    /\ m.status # "flags"
    /\ Performed /\ Job.op \in Selections =>
          Read(m, IF Job.op = "setcc_i" THEN 1 ELSE Job.s, Job.out) = Selected(Job)

(***************************************************************************)
(* Beside the result only temporaries change, and rdx in a division: no    *)
(* input that is not also the output, and no other cell of memory.         *)
(***************************************************************************)
NothingElseChanges ==
    Performed =>
        LET d == Destination(Job)
            free == (NamedIn(code) \cap {"r10", "r11", "xmm15"})
                    \cup (IF d.is \in {"r", "x"} /\ Job.op \notin Comparisons THEN Names(d) ELSE {})
                    \cup (IF Job.op \in {"div_i", "div_u"} THEN {"rdx"} ELSE {})
        IN  /\ \A r \in DOMAIN m.gp \ free : m.gp[r] = before.gp[r]
            /\ \A x \in DOMAIN m.xmm \ free : m.xmm[x] = before.xmm[x]
            /\ \A c \in DOMAIN m.mem : (d.is = "m" /\ c = AddressOf(before, d)) \/ m.mem[c] = before.mem[c]

(***************************************************************************)
(* The emitter uses no temporary that the allocator, by the count of the   *)
(* dry run, did not provide: the assertions of TemporalRegs hold.          *)
(***************************************************************************)
TempsSuffice == "missing" \notin NamedIn(code)

(***************************************************************************)
(* A result of four bytes leaves the upper half of its register clear,     *)
(* which is what a zero extension in place and the conversion of an        *)
(* unsigned integer rely on.  A truncation in place is excepted.           *)
(***************************************************************************)
UpperHalfClear ==
    /\ Performed /\ Job.s = 4 /\ Job.out.is = "r"
    /\ Job.op \notin Stores \cup Comparisons \cup {"lea_i", "setcc_i"}
    /\ ~(Job.op = "trunc_i" /\ Job.out = Job.a)
    => m.gp[Job.out.r] = Low(4, m.gp[Job.out.r])
=============================================================================
