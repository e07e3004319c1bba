----------------------------- MODULE LinearScan -----------------------------
(***************************************************************************)
(* LinearScan and VRegSelection: the values get registers in the order in  *)
(* which their intervals start.  One loop iteration of                     *)
(* do_register_allocation() is one action.  There is no spilling: when the *)
(* pool runs dry an assertion or die() ends the process.                   *)
(***************************************************************************)
EXTENDS Joins

CONSTANTS
    GpPool,     \* ALL_GP_REGISTERS and ALL_XMM_REGISTERS, in index order
    XmmPool,
    CallerSaved, CalleeSaved

(* What lowering leaves.  A stack slot holds at least a byte, in whole     *)
(* multiples of its alignment (PrimitiveType.h:8, ArrayType.h:24,          *)
(* StructType.h:84), and is no value with a register or a copy; every      *)
(* argument has a register; the registers given in advance are those of    *)
(* the calling convention for arguments and results, with rax, rdx and     *)
(* rcx, none of them callee-saved.                                         *)
LoweredAssumption ==
    \A f \in Functions :
        /\ f.args \subseteq DOMAIN f.fixed
        /\ DOMAIN f.fixed \subseteq Vals(f) \ DOMAIN f.gens
        /\ Range(f.fixed) \cap (CalleeSaved \cup {NoRegister}) = {}
        /\ DOMAIN f.gens \subseteq Vals(f)
        /\ f.copies \cap DOMAIN f.gens = {}
        /\ \A v \in DOMAIN f.gens :
              /\ f.gens[v].size \in Nat \ {0} /\ f.gens[v].align \in Nat \ {0}
              /\ f.gens[v].size % f.gens[v].align = 0
        /\ \A at \in Instructions(f) : Inst(f, at).kind = "pcopy" =>
              Inst(f, at).outs # {} /\ Inst(f, at).outs \cap DOMAIN f.gens = {}
ASSUME LoweredAssumption

VARIABLES
    reg,        \* assigned_reg(): value -> register
    slots,      \* the stack slots: gen -> offset below rbp
    local_area, \* m_local_area_size
    pool,       \* m_free_gp_regs and m_free_xmm_regs
    ordering,   \* m_instruction_ordering: the instructions by number
    unhandled, active, inactive,
    temps,      \* temporal_regs(): instruction number -> class -> registers
    range_begin,
    used_callee_saved

avars == <<reg, slots, local_area, pool, ordering, unhandled, active, inactive, temps,
           range_begin, used_callee_saved>>

Classes == {"GP", "FP"}

ClassOf(r) == IF r \in Range(XmmPool) THEN "FP" ELSE "GP"

ValueClass(v) == IF v \in func.floats THEN "FP" ELSE "GP"

(* get_real_interval() is Joins!RealInterval.                              *)

(* remove_if_fast(): the elements that stay, in the order the swaps leave  *)
(* them in, and those of "out", which go, in the order they are visited.   *)
RemoveIfFast(v, out) ==
    LET visit[kept \in Seq(Vals(func)), n \in Nat, gone \in Seq(Vals(func))] ==
          IF n > Len(kept) THEN [kept |-> kept, gone |-> gone]
          ELSE IF kept[n] \in out THEN visit[RemoveFast(kept, n), n, Append(gone, kept[n])]
          ELSE visit[kept, n + 1, gone]
    IN  visit[v, 1, <<>>]

(* Variant: nothing is given back.                                         *)
PushNone(free, vals) == free

(* push(): the registers of the values, each once, behind the free ones.   *)
PushAll(free, vals) ==
    LET Push(seq, r) == IF r \in Range(seq) THEN seq ELSE Append(seq, r)
        regs(c) == SelectSeq([n \in DOMAIN vals |-> reg[vals[n]]], LAMBDA r : ClassOf(r) = c)
    IN  [c \in Classes |-> FoldLeft(Push, free[c], regs(c))]

TakeAll(free, regs) == [c \in Classes |-> SelectSeq(free[c], LAMBDA r : r \notin regs)]

(* top_gp() and top_xmm(): a value with no hint prefers a caller-saved     *)
(* register, the last one freed.                                           *)
TopOf(free, hint) ==
    LET preferred == SelectSeq(free, LAMBDA r : r \in CallerSaved)
    IN  IF hint = "NOTHING" /\ preferred # <<>> THEN Last(preferred) ELSE Last(free)

(* collect_operand_registers().                                            *)
OperandRegisters(inst, regs) == {regs[v] : v \in Reads(inst) \cap DOMAIN regs}

(* Variant: the registers of the operands are not excluded.                *)
TempAnyFree(inst, free, regs, c) ==
    Reverse(SelectSeq(free[c], LAMBDA r : r \in CallerSaved))

(* alloc_gp_temp() and alloc_xmm_temp(): what may serve, last freed first. *)
TempChoice(inst, free, regs, c) ==
    Reverse(SelectSeq(free[c], LAMBDA r : /\ r \in CallerSaved
                                          /\ r \notin OperandRegisters(inst, regs)))

(* allocate_temporal_register() for the instructions ns that have none yet.*)
NeedTemps(ns) == {n \in ns \ DOMAIN temps : \E c \in Classes : ordering[n].temps[c] > 0}

TempsExist(ns, free, regs) ==
    \A n \in NeedTemps(ns) : \A c \in Classes :
        ordering[n].temps[c] <= Len(TempChoice(ordering[n], free, regs, c))

WithTemps(ns, free, regs) ==
    Extended(temps, [n \in NeedTemps(ns) |->
                       [c \in Classes |-> SubSeq(TempChoice(ordering[n], free, regs, c),
                                                 1, ordering[n].temps[c])]])

(* erase_active(): what does not meet u leaves, and its register is free.  *)
Released(u) ==
    RemoveIfFast(active, {v \in Range(active) :
                            \/ Start(RealInterval(v)) > Finish(intervals[u])
                            \/ ~Intersects(RealInterval(v), intervals[u])})

Dormant(u, v) == Start(RealInterval(v)) <= Finish(intervals[u])

(* erase_unactive(): what meets u comes back, and its register is taken.   *)
Revived(u, waiting) ==
    RemoveIfFast(waiting, {v \in Range(waiting) :
                             \/ ~Dormant(u, v)
                             \/ Intersects(RealInterval(v), intervals[u])})

GroupOf(v) == groups[mapping[v]]

Earliest(vals) ==
    {v \in vals : \A w \in vals : Start(intervals[v]) <= Start(intervals[w])}

(* activate_unhandled_fixed_regs(): the values still to come whose group   *)
(* has a general register that u would run into.                           *)
Reserved(u, rest) ==
    LET Blocks(v) == /\ GroupOf(v).fixed # NoRegister
                     /\ ClassOf(GroupOf(v).fixed) = "GP"
                     /\ Intersects(GroupOf(v).interval, intervals[u])
        walk[left \in SUBSET Vals(func)] ==
          IF left = {} THEN <<>>
          ELSE LET v == CHOOSE w \in Earliest(left) : TRUE IN
               IF v \notin DOMAIN mapping THEN walk[left \ {v}]
               ELSE IF Start(GroupOf(v).interval) > Finish(intervals[u]) THEN <<>>
               ELSE IF Blocks(v) THEN <<v>> \o walk[left \ {v}]
               ELSE walk[left \ {v}]
    IN  walk[rest]

(* The pool and the two lists once u's neighbours have been sorted out:    *)
(* erase_active(), erase_unactive(), activate_unhandled_fixed_regs().  A    *)
(* set of one record: each list is bound before the next is made of it.    *)
Neighbours(u, rest) ==
    UNION {UNION {
      {[active   |-> released.kept \o back \o reserved,
        inactive |-> revived.kept,
        pool     |-> TakeAll(PushAll(pool, released.gone),
                             {reg[v] : v \in Range(back)} \cup
                             {GroupOf(v).fixed : v \in Range(reserved)})] :
         back \in {SelectSeq(revived.gone, LAMBDA v : Dormant(u, v))},
         reserved \in {Reserved(u, rest)}} :
      revived \in {Revived(u, inactive \o SelectSeq(released.gone, LAMBDA v : Dormant(u, v)))}} :
      released \in {Released(u)}}

(* The values that get u's register with it.                               *)
Sharers(u) == IF u \in DOMAIN mapping THEN Range(GroupOf(u).members) ELSE {u}

HintOf(u) == IF u \in DOMAIN mapping THEN GroupOf(u).interval.hint ELSE intervals[u].hint

(* allocate_register(): what a register adds to m_used_callee_saved_regs.  *)
Saved(r) == {r} \cap CalleeSaved

(* setup_unhandled_intervals(): what the scan places; arguments are active *)
(* from the start.                                                         *)
ToBePlaced == Vals(func) \ func.args

Assign(vals, r) == Extended(reg, [v \in vals |-> r])

----------------------------------------------------------------------------
AllocInit ==
    /\ JoinsInit
    /\ reg = <<>> /\ slots = <<>> /\ local_area = 0 /\ pool = <<>> /\ ordering = <<>>
    /\ unhandled = {} /\ active = <<>> /\ inactive = <<>> /\ temps = <<>>
    /\ range_begin = 0 /\ used_callee_saved = {}

(* The groups with a register that v is a member of.                       *)
Holders(v) == {k \in DOMAIN groups :
                 groups[k].fixed # NoRegister /\ v \in Range(groups[k].members)}

(* create(), allocate_fixed_registers(), instruction_ordering() and        *)
(* setup_unhandled_intervals().                                            *)
(* The arguments are met in the order of a hash map.                       *)
SetupScan ==
    /\ Joined
    /\ LET fixed == [v \in {w \in DOMAIN mapping : Holders(w) # {}} |->
                       LET k == CHOOSE j \in Holders(v) : \A i \in Holders(v) : j <= i
                       IN  groups[k].fixed]
           out(seq) == SelectSeq(seq, LAMBDA r : r \notin {func.fixed[v] : v \in func.args})
       IN  /\ reg' = Extended(func.fixed, fixed)
           /\ used_callee_saved' = UNION {Saved(fixed[v]) :
                                            v \in DOMAIN fixed \ DOMAIN func.fixed}
           /\ pool' = [c \in Classes |-> out(IF c = "GP" THEN GpPool ELSE XmmPool)]
    /\ \E seq \in [1 .. Cardinality(func.args) -> func.args] :
         /\ Range(seq) = func.args
         /\ active' = seq
    /\ ordering' = FoldLeft(LAMBDA seq, b : seq \o func.code[b], <<>>, func.order)
    /\ unhandled' = ToBePlaced
    /\ phase' = "scan"
    /\ UNCHANGED <<func, pos, inst_number, spans, call_live_out, intervals, jvars,
                   slots, local_area, inactive, temps, range_begin>>

(* Variant: the slot is rounded down to its alignment.                     *)
SlotRoundedDown(area, gen) == (area \div gen.align) * gen.align + gen.size

(* VRegSelection::stack_alloc().                                           *)
SlotBelow(area, gen) ==
    ((area + gen.align - 1) \div gen.align) * gen.align + gen.size

StackAlloc(v) ==
    /\ local_area' = SlotBelow(local_area, func.gens[v])
    /\ slots' = Extended(slots, [w \in {v} |-> local_area'])
    /\ UNCHANGED <<reg, pool, active, inactive, temps, range_begin, used_callee_saved>>

(* The instructions before u's that have no temporal registers yet.        *)
Before(u) == (range_begin + 1) .. (Start(intervals[u]) - 1)

(* Variant: a value that has a register is given another.                  *)
SelectionsAgain(u, near) ==
    IF near.pool[ValueClass(u)] = <<>> THEN {}
    ELSE {Extended([v \in Sharers(u) |-> TopOf(near.pool[ValueClass(u)], HintOf(u))], reg)}

(* select_virtual_reg(): the registers with u placed; none if the pool is  *)
(* empty.                                                                  *)
Selections(u, near) ==
    IF u \in DOMAIN reg THEN {reg}
    ELSE IF near.pool[ValueClass(u)] = <<>> THEN {}
    ELSE {Assign(Sharers(u), TopOf(near.pool[ValueClass(u)], HintOf(u)))}

(* Variant: the register stays in the pool.                                *)
PoolKept(u, near, regs) == near.pool

PoolAfter(u, near, regs) ==
    IF u \in DOMAIN reg THEN near.pool ELSE TakeAll(near.pool, {regs[u]})

TempsServed(u, near, regs) ==
    /\ TempsExist(Before(u), pool, reg)
    /\ TempsExist({Start(intervals[u])}, PoolAfter(u, near, regs), regs)

(* The rest of the iteration: the temporal registers of the instructions   *)
(* before u's, then u's register, then those of its own instruction.       *)
SelectRegister(u, near, regs) ==
    /\ TempsServed(u, near, regs)
    /\ reg' = regs
    /\ pool' = PoolAfter(u, near, regs)
    /\ active' = Append(near.active, u)
    /\ inactive' = near.inactive
    /\ temps' = Extended(WithTemps(Before(u), pool, reg),
                         WithTemps({Start(intervals[u])}, PoolAfter(u, near, regs), regs))
    /\ range_begin' = Start(intervals[u]) - 1
    /\ used_callee_saved' = IF u \in DOMAIN reg THEN used_callee_saved
                            ELSE used_callee_saved \cup Saved(regs[u])
    /\ UNCHANGED <<slots, local_area>>

Allocate ==
    /\ phase = "scan"
    /\ \E u \in Earliest(unhandled) :
         /\ \/ u \in DOMAIN func.gens /\ StackAlloc(u)
            \/ /\ u \notin DOMAIN func.gens
               /\ \E near \in Neighbours(u, unhandled \ {u}) :
                    \E regs \in Selections(u, near) : SelectRegister(u, near, regs)
         /\ unhandled' = unhandled \ {u}
    /\ UNCHANGED <<func, phase, pos, inst_number, spans, call_live_out, intervals, jvars, ordering>>

Remaining == (range_begin + 1) .. Len(ordering)

(* No register for a value or a temporary: assertion or die().             *)
OutOfRegisters ==
    /\ phase = "scan"
    /\ \/ unhandled = {} /\ ~TempsExist(Remaining, pool, reg)
       \/ \E u \in Earliest(unhandled) \ DOMAIN func.gens :
            \E near \in Neighbours(u, unhandled \ {u}) :
                \A regs \in Selections(u, near) : ~TempsServed(u, near, regs)
    /\ phase' = "died"
    /\ UNCHANGED <<func, pos, inst_number, spans, call_live_out, intervals, jvars, avars>>

(* The temporal registers of the instructions left, and                    *)
(* finalize_prologue_epilogue().                                           *)
CompleteScan ==
    /\ phase = "scan" /\ unhandled = {}
    /\ TempsExist(Remaining, pool, reg)
    /\ temps' = WithTemps(Remaining, pool, reg)
    /\ phase' = "done"
    /\ UNCHANGED <<func, pos, inst_number, spans, call_live_out, intervals, jvars, reg, slots,
                   local_area, pool, ordering, unhandled, active, inactive, range_begin, used_callee_saved>>

Done == phase = "done"

AllocNext ==
    \/ (JoinsNext /\ UNCHANGED avars)
    \/ SetupScan \/ Allocate \/ OutOfRegisters \/ CompleteScan

avarsAll == <<ivars, jvars, avars>>

AllocSpec == AllocInit /\ [][AllocNext]_avarsAll

----------------------------------------------------------------------------
(* The pairs of values that must not share a place: one is written while   *)
(* the other is still needed.  Two stack slots never do.                   *)
Clashes ==
    Interferences(func)
    \cup {p \in (DOMAIN func.gens) \X (DOMAIN func.gens) : p[1] # p[2]}

(* A register is a place with offset 0, the stack one place per offset.    *)
Places ==
    Extended([v \in DOMAIN slots |-> <<"stack", slots[v]>>], [v \in DOMAIN reg |-> <<reg[v], 0>>])

Status == IF phase = "died" THEN "failed" ELSE IF phase = "done" THEN "done" ELSE "working"

Abstract == INSTANCE Allocation WITH
    Preserved <- CalleeSaved \X {0},
    values <- Vals(func),
    clashes <- Clashes,
    place <- Places,
    saved <- used_callee_saved \X {0},
    status <- Status

(* The allocator does what an allocation promises: every value ends up with*)
(* a register or a slot that no later step takes away, values that         *)
(* interfere are never in one register, the prologue saves the callee-saved*)
(* registers in use and no others, and nothing happens after it gave up.   *)
ImplementsAllocation == Abstract!Spec

(* A temporal register of an instruction that defines a value is neither a *)
(* register it reads or writes nor one whose value is needed later.        *)
TempsDoNoHarm ==
    Done => \A b \in Block(func) : \A n \in DOMAIN func.code[b] :
                LET inst == func.code[b][n]
                    number == NumberAt(func, <<b, n>>)
                IN  number \in DOMAIN temps =>
                      \A c \in Classes : \A r \in Range(temps[number][c]) :
                          \A v \in HeldAfter(func, b, n) \cup Reads(inst) \cup inst.outs :
                              v \in DOMAIN reg => reg[v] # r

(* While intervals are scanned, the register of every active value that    *)
(* meets the newest one is out of the pool.                                *)
FreeMeansFree ==
    phase = "scan" /\ active # <<>> =>
        \A v \in Range(active) :
            Intersects(RealInterval(v), intervals[Last(active)]) =>
                reg[v] \notin Range(pool[ClassOf(reg[v])])

(* The slots of the stack frame do not overlap, and each is aligned.       *)
SlotsApart ==
    \A v \in DOMAIN slots :
        /\ slots[v] % func.gens[v].align = 0
        /\ slots[v] <= local_area
        /\ \A w \in DOMAIN slots \ {v} :
             \/ slots[v] <= slots[w] - func.gens[w].size
             \/ slots[w] <= slots[v] - func.gens[v].size

(* The values instruction n of b must find registers for.                  *)
Pressure(b, n) ==
    Cardinality((HeldAfter(func, b, n) \cup Writes(func, b, n)
                 \cup Reads(func.code[b][n])) \ DOMAIN func.gens)

MostTemps == Max({ordering[n].temps["GP"] : n \in DOMAIN ordering})

(* Without values tied to registers, allocation gives up only if somewhere *)
(* the values exceed the caller-saved registers that are left when the     *)
(* temporaries have theirs: temporaries are taken from the pool as of the  *)
(* last definition, when the values of another branch may hold registers.  *)
DiesOnlyUnderPressure ==
    phase = "died" =>
        \E b \in Block(func) : \E n \in DOMAIN func.code[b] :
            Pressure(b, n) + MostTemps > Cardinality(Range(GpPool) \cap CallerSaved)
=============================================================================
