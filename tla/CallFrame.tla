----------------------------- MODULE CallFrame -----------------------------
(***************************************************************************)
(* The frame of a function and its calls: CallInfoInitialize decides what  *)
(* each stack adjustment saves and how far it moves rsp, then the code     *)
(* LIRFunctionCodegen emits for prologue, adjustments, calls and epilogue  *)
(* runs on a stack, with an external callee that keeps the convention.     *)
(*                                                                         *)
(* A function is a record                                                  *)
(*   order   its blocks, numbered as they were created, in the order they  *)
(*           run: each ends in a call of which the next is the             *)
(*           continuation; the last returns                                *)
(*   lives   block -> the registers of the values live out of it           *)
(*   calls   block -> [args, returns]: the arguments, each [class, size],  *)
(*           where class "MEM" is one passed by value, and the number of   *)
(*           values the callee returns                                     *)
(*   saved   the callee-saved registers the allocator used                 *)
(*   local   the size of its stack slots                                   *)
(***************************************************************************)
EXTENDS Integers, Sequences, FiniteSets, SequencesExt

CONSTANTS
    Functions,
    GpOrder,                    \* the general registers in index order
    GpArguments, XmmArguments,  \* the registers of arguments, in order
    CallerSaved, CalleeSaved    \* of both kinds; of general registers

VARIABLES
    func,
    phase,
    pos,        \* <<block, instruction>> the pass or the machine is at
    step,       \* how much of what is emitted for an adjustment has run
    max_area,   \* m_max_caller_overflow_area_size
    adjust,     \* <<block, instruction>> -> [regs, overflow] of LIRAdjustStack
    reg, mem    \* the machine: registers, and what was stored on the stack

vars == <<func, phase, pos, step, max_area, adjust, reg, mem>>

Gp == Range(GpOrder)

IsXmm(r) == r \notin Gp

Registers == CallerSaved \cup Gp

Blocks(f) == DOMAIN f.lives

First(f) == f.order[1]

Final(f) == f.order[Len(f.order)]

Calling(f) == Blocks(f) \ {Final(f)}

Place(f, b) == CHOOSE i \in DOMAIN f.order : f.order[i] = b

Following(f, b) == f.order[Place(f, b) + 1]

Preceding(f, b) == f.order[Place(f, b) - 1]

AlignUp(n, to) == ((n + to - 1) \div to) * to

Results(n) == {<<"rax", "rdx">>[i] : i \in 1 .. n}

----------------------------------------------------------------------------
(* What is assumed of the calling convention and of a function.  A value   *)
(* that lives over a call has a register that is not rsp or rbp, and one   *)
(* that the callee saves only if the allocator put it on record.           *)
(* Primitive arguments are at most a word.                                 *)
Distinct(s) == \A i, j \in DOMAIN s : s[i] = s[j] => i = j

ConventionAssumption ==
    /\ GpOrder \in Seq(Gp) /\ Distinct(GpOrder) /\ {"rax", "rdx", "rsp", "rbp"} \subseteq Gp
    /\ GpArguments \in Seq(Gp \cap CallerSaved) /\ Distinct(GpArguments)
    /\ XmmArguments \in Seq(CallerSaved \ Gp) /\ Distinct(XmmArguments)
    /\ IsFiniteSet(CallerSaved) /\ {"rax", "rdx"} \subseteq CallerSaved
    /\ CalleeSaved \subseteq Gp \ (CallerSaved \cup {"rsp"})
    /\ "rbp" \in CalleeSaved /\ "rsp" \notin CallerSaved
    /\ "xmm0" \notin Gp /\ "xmm1" \notin Gp

Arguments ==
    {a \in [class : {"GP", "FP", "MEM"}, size : Nat \ {0}] : a.class = "MEM" \/ a.size <= 8}

FunctionAssumption ==
    \A f \in Functions :
        /\ f.order \in Seq(Blocks(f)) /\ Distinct(f.order) /\ f.order # <<>>
        /\ Blocks(f) = 1 .. Len(f.order)
        /\ \A b \in Blocks(f) : \E i \in DOMAIN f.order : f.order[i] = b
        /\ \A b \in Blocks(f) : f.lives[b] \subseteq CallerSaved \cup f.saved
        /\ f.saved \subseteq CalleeSaved \ {"rbp"}
        /\ f.local \in Nat
        /\ DOMAIN f.calls = Calling(f)
        /\ \A b \in Calling(f) : /\ f.calls[b].args \in Seq(Arguments)
                                 /\ f.calls[b].returns \in 0 .. 2

ASSUME FrameAssumption == ConventionAssumption /\ FunctionAssumption

----------------------------------------------------------------------------
(***************************************************************************)
(* Where arguments are, to the caller and to the callee.                   *)
(***************************************************************************)
Sums(d) ==
    LET sum[n \in 0 .. Len(d)] == IF n = 0 THEN 0 ELSE sum[n - 1] + d[n] IN sum

ArgumentRegisters(class) ==
    CASE class = "GP" -> GpArguments [] class = "FP" -> XmmArguments [] class = "MEM" -> <<>>

(* How many registers the first arguments of some classes take.            *)
Taken(args, classes) ==
    LET taken[n \in 0 .. Len(args)] ==
          IF n = 0 THEN 0
          ELSE IF args[n].class \in classes /\ taken[n - 1] < Len(ArgumentRegisters(args[n].class))
               THEN taken[n - 1] + 1 ELSE taken[n - 1]
    IN  taken

InRegister(args, classes, n) ==
    Taken(args, classes)[n - 1] < Len(ArgumentRegisters(args[n].class))

NextRegister(args, classes, n) ==
    [base |-> ArgumentRegisters(args[n].class)[Taken(args, classes)[n - 1] + 1], offset |-> 0]

(* allocate_arguments_for_call(): the two kinds of registers are counted   *)
(* apart, what is left goes to the top of the stack.                       *)
CallerArea(args) ==
    Sums([n \in 1 .. Len(args) |->
            IF InRegister(args, {args[n].class}, n) THEN 0 ELSE AlignUp(args[n].size, 8)])

CallerPlace(args, n) ==
    IF InRegister(args, {args[n].class}, n) THEN NextRegister(args, {args[n].class}, n)
    ELSE [base |-> "rsp", offset |-> CallerArea(args)[n - 1]]

StackArea(args) == CallerArea(args)[Len(args)]

(* Variant: the return address is forgotten.                               *)
StackArgumentAtFrame(area) == [base |-> "rbp", offset |-> area]

(* arg_stack_alloc(), the area counted with the argument.                  *)
StackArgument(area) == [base |-> "rbp", offset |-> 8 + area]

Primitive == {"GP", "FP"}

CalleeArea(args) ==
    Sums([n \in 1 .. Len(args) |->
            IF args[n].class = "MEM" \/ InRegister(args, Primitive, n) THEN 0 ELSE 8])

ByValueArea(args) ==
    LET area[n \in 0 .. Len(args)] ==
          IF n = 0 THEN 0
          ELSE IF args[n].class = "MEM" THEN AlignUp(area[n - 1], 8) + args[n].size
               ELSE area[n - 1]
    IN  area

(* ArgumentRegistersAllocator: one count for both kinds of registers.      *)
CalleePlace(args, n) ==
    IF args[n].class = "MEM" THEN [base |-> "rsp", offset |-> 8 + ByValueArea(args)[n - 1]]
    ELSE IF InRegister(args, Primitive, n) THEN NextRegister(args, Primitive, n)
    ELSE StackArgument(CalleeArea(args)[n])

(* evaluate_overflow_area_size(): what a call passes on the stack.         *)
OverflowArea(args) ==
    Sums([n \in 1 .. Len(args) |-> IF args[n].class = "MEM" THEN args[n].size
                                   ELSE IF n > Len(GpArguments) THEN 8 ELSE 0])[Len(args)]

AreaOf(f, b) == OverflowArea(f.calls[b].args)

(***************************************************************************)
(* The instructions of the blocks that concern the frame.  A value is      *)
(* defined ("def") at the end of the block before the first call it lives  *)
(* over and read ("use") where it no longer is live; the values a call     *)
(* returns are read after it.                                              *)
(***************************************************************************)
Op(name) == [op |-> name]
OnReg(name, r) == [op |-> name, reg |-> r]
OnRegs(name, regs) == [op |-> name, regs |-> regs]

LiveOver(f, b) == f.lives[b] \ Results(f.calls[b].returns)

Entering(f, b) == IF b = First(f) THEN {} ELSE LiveOver(f, Preceding(f, b))

Returned(f, b) == IF b = First(f) THEN {} ELSE Results(f.calls[Preceding(f, b)].returns)

Leaving(f, b) == IF b = Final(f) THEN {} ELSE LiveOver(f, b)

Pass(args) == [n \in 1 .. Len(args) |-> [op |-> "pass", arg |-> n]]

Code(f, b) ==
    <<IF b = First(f) THEN Op("prologue") ELSE Op("up"),
      OnRegs("use", Returned(f, b) \cup (Entering(f, b) \ Leaving(f, b))),
      OnRegs("def", Leaving(f, b) \ Entering(f, b))>>
    \o IF b = Final(f) THEN <<Op("epilogue"), Op("ret")>>
       ELSE <<Op("down")>> \o Pass(f.calls[b].args) \o <<Op("call")>>

Here == Code(func, pos[1])[pos[2]]

(***************************************************************************)
(* CallInfoInitialize, which visits the blocks as they were created.       *)
(***************************************************************************)
AdjustKinds == {"prologue", "up", "down", "epilogue"}

Adjustments(f) ==
    {at \in UNION {{b} \X DOMAIN Code(f, b) : b \in Blocks(f)} :
        Code(f, at[1])[at[2]].op \in AdjustKinds}

PrologueOf(f) == <<First(f), 1>>

EpilogueOf(f) == <<Final(f), Len(Code(f, Final(f))) - 1>>

(* What LinearScan leaves in the two: the saved registers.                 *)
Init ==
    /\ func \in Functions
    /\ phase = "callinfo" /\ pos = <<1, 1>> /\ step = 0 /\ max_area = 0
    /\ adjust = [at \in Adjustments(func) |->
                   [regs |-> IF at \in {PrologueOf(func), EpilogueOf(func)}
                             THEN func.saved ELSE {},
                    overflow |-> 0]]
    /\ reg = <<>> /\ mem = <<>>

NextInstruction ==
    IF pos[2] < Len(Code(func, pos[1])) THEN <<pos[1], pos[2] + 1>> ELSE <<pos[1] + 1, 1>>

(* What the call of block b adds to an adjustment with these live values:  *)
(* nothing as soon as one of them needs no saving.                         *)
Kept(live, returns) ==
    {r \in live : returns = 0 \/ r \notin {"rax", "rdx", "xmm0", "xmm1"}}

KeptOver(f, b) == Kept(f.lives[b], f.calls[b].returns)

InitializeData(at, b) ==
    LET area == IF AreaOf(func, b) > max_area THEN AreaOf(func, b) ELSE max_area IN
    IF KeptOver(func, b) \subseteq CallerSaved
    THEN /\ max_area' = area
         /\ adjust' = [adjust EXCEPT ![at] = [regs |-> KeptOver(func, b),
                                              overflow |-> @.overflow + area]]
    ELSE UNCHANGED <<max_area, adjust>>

InitializeFrame ==
    /\ adjust' = [adjust EXCEPT ![pos].overflow = @ + max_area,
                                ![PrologueOf(func)].overflow = @ + max_area]
    /\ UNCHANGED max_area

(* initialize_adjust_stack(): the calls around an adjustment are its own   *)
(* block's, or that of the block's first predecessor.                      *)
InitializeAdjust ==
    /\ phase = "callinfo" /\ pos[1] \in Blocks(func)
    /\ CASE Here.op = "up" -> InitializeData(pos, Preceding(func, pos[1]))
         [] Here.op = "down" -> InitializeData(pos, pos[1])
         [] Here.op = "epilogue" -> InitializeFrame
         [] OTHER -> UNCHANGED <<max_area, adjust>>
    /\ pos' = NextInstruction
    /\ UNCHANGED <<func, phase, step, reg, mem>>

(***************************************************************************)
(* What is emitted for each adjustment.  A move by 0, which is left out    *)
(* but in the prologue, changes nothing.                                   *)
(***************************************************************************)
Move(name, n) == [op |-> name, by |-> n]

(* gp_regs(): in index order.                                              *)
GpRegs(regs) ==
    LET gp[n \in 0 .. Len(GpOrder)] ==
          IF n = 0 THEN <<>>
          ELSE IF GpOrder[n] \in regs THEN Append(gp[n - 1], GpOrder[n]) ELSE gp[n - 1]
    IN  gp[Len(GpOrder)]

Each(name, regs) == [n \in 1 .. Len(regs) |-> OnReg(name, regs[n])]

(* Variant: the remainder is not added.                                    *)
AdjustSizeUnaligned(a) == a.overflow

AdjustSize(a) == a.overflow + ((a.overflow + 8 * Cardinality(a.regs)) % 16)

FrameSize(f) == f.local + (f.local % 16)

NeedsFrame(a) == a.regs # {} \/ a.overflow # 0 \/ func.local # 0

(* Variant: the registers are popped in the order they were pushed in.     *)
DownStackUnreversed(a) == <<Move("sub", AdjustSize(a))>> \o Each("push", GpRegs(a.regs))

DownStack(a) == <<Move("sub", AdjustSize(a))>> \o Each("push", Reverse(GpRegs(a.regs)))

UpStack(a) == Each("pop", GpRegs(a.regs)) \o <<Move("add", AdjustSize(a))>>

Prologue(a) ==
    IF ~NeedsFrame(a) THEN <<>>
    ELSE <<OnReg("push", "rbp"), Op("frame"), Move("sub", FrameSize(func))>>
         \o Each("push", GpRegs(a.regs))

(* Variant: the saved registers stay on the stack.                         *)
EpilogueLeaving(a) == IF ~NeedsFrame(a) THEN <<>> ELSE <<Op("leave")>>

Epilogue(a) ==
    IF ~NeedsFrame(a) THEN <<>>
    ELSE Each("pop", Reverse(GpRegs(a.regs))) \o <<Op("leave")>>

Emitted ==
    LET a == adjust[pos] IN
    CASE Here.op = "up" -> UpStack(a)
      [] Here.op = "down" -> DownStack(a)
      [] Here.op = "prologue" -> Prologue(a)
      [] Here.op = "epilogue" -> Epilogue(a)

(***************************************************************************)
(* The machine.  What a register or a place of the stack holds is a pair,  *)
(* of which <<"address", a>> is the only number.                           *)
(***************************************************************************)
Address(a) == <<"address", a>>

Junk == <<"junk", 0>>

Outer(r) == <<"outer", r>>

Value(r) == <<"value", r>>

Entry == 1000   \* rsp at entry: the return address is there, 8 below a multiple of 16

Rsp == reg["rsp"][2]

(* Words of x from a on; what they overlap is lost.                        *)
Written(cells, a, size, x) ==
    LET words == {a + 8 * n : n \in 0 .. (size \div 8) - 1} IN
    [b \in words \cup (DOMAIN cells \ (a - 7) .. (a + size - 1)) |->
        IF b \in words THEN x ELSE cells[b]]

ReadAt(cells, a) == IF a \in DOMAIN cells THEN cells[a] ELSE Junk

MoveRsp(by) ==
    /\ reg' = [reg EXCEPT !["rsp"] = Address(Rsp + by)]
    /\ UNCHANGED mem

Push(r) ==
    /\ reg' = [reg EXCEPT !["rsp"] = Address(Rsp - 8)]
    /\ mem' = Written(mem, Rsp - 8, 8, reg[r])

Pop(r) ==
    /\ reg' = [reg EXCEPT !["rsp"] = Address(Rsp + 8), ![r] = ReadAt(mem, Rsp)]
    /\ UNCHANGED mem

SetFrame ==
    /\ reg' = [reg EXCEPT !["rbp"] = reg["rsp"]]
    /\ UNCHANGED mem

Leave ==
    LET rbp == reg["rbp"][2] IN
    /\ reg' = [reg EXCEPT !["rsp"] = Address(rbp + 8), !["rbp"] = ReadAt(mem, rbp)]
    /\ UNCHANGED mem

Execute(i) ==
    \/ i.op = "push" /\ Push(i.reg)
    \/ i.op = "pop" /\ Pop(i.reg)
    \/ i.op = "sub" /\ MoveRsp(-i.by)
    \/ i.op = "add" /\ MoveRsp(i.by)
    \/ i.op = "frame" /\ SetFrame
    \/ i.op = "leave" /\ Leave

(* After the pass, control enters the function from outside.               *)
Enter ==
    /\ phase = "callinfo" /\ pos[1] \notin Blocks(func)
    /\ phase' = "run" /\ pos' = <<First(func), 1>>
    /\ reg' = [r \in Registers |-> IF r = "rsp" THEN Address(Entry) ELSE Outer(r)]
    /\ mem' = [a \in {Entry} |-> <<"return", 0>>]
    /\ UNCHANGED <<func, step, max_area, adjust>>

Advance ==
    /\ pos' = IF pos[2] < Len(Code(func, pos[1])) THEN <<pos[1], pos[2] + 1>>
              ELSE <<Following(func, pos[1]), 1>>
    /\ step' = 0
    /\ UNCHANGED <<func, phase, max_area, adjust>>

RunAdjust ==
    /\ phase = "run" /\ Here.op \in AdjustKinds /\ step < Len(Emitted)
    /\ Execute(Emitted[step + 1])
    /\ step' = step + 1
    /\ UNCHANGED <<func, phase, pos, max_area, adjust>>

FinishAdjust ==
    /\ phase = "run" /\ Here.op \in AdjustKinds /\ step = Len(Emitted)
    /\ Advance
    /\ UNCHANGED <<reg, mem>>

RunDefinition ==
    /\ phase = "run" /\ Here.op = "def"
    /\ reg' = [r \in DOMAIN reg |-> IF r \in Here.regs THEN Value(r) ELSE reg[r]]
    /\ Advance
    /\ UNCHANGED mem

RunUse ==
    /\ phase = "run" /\ Here.op = "use"
    /\ Advance
    /\ UNCHANGED <<reg, mem>>

(* The copy of an argument to its place, word by word if it is a struct.   *)
RunPass ==
    /\ phase = "run" /\ Here.op = "pass"
    /\ LET args == func.calls[pos[1]].args
           to == CallerPlace(args, Here.arg)
           x == <<"argument", Here.arg>>
       IN  IF to.base = "rsp"
           THEN /\ mem' = Written(mem, Rsp + to.offset, AlignUp(args[Here.arg].size, 8), x)
                /\ UNCHANGED reg
           ELSE /\ reg' = [reg EXCEPT ![to.base] = x]
                /\ UNCHANGED mem
    /\ Advance

(* The callee returns its values; the registers that are its to use and    *)
(* what lies below rsp are lost.                                           *)
RunCall ==
    /\ phase = "run" /\ Here.op = "call"
    /\ reg' = [r \in DOMAIN reg |->
                 IF r \in Results(func.calls[pos[1]].returns) THEN Value(r)
                 ELSE IF r \in CallerSaved THEN Junk ELSE reg[r]]
    /\ mem' = [a \in {b \in DOMAIN mem : b >= Rsp} |-> mem[a]]
    /\ Advance

RunReturn ==
    /\ phase = "run" /\ Here.op = "ret"
    /\ phase' = "returned"
    /\ UNCHANGED <<func, pos, step, max_area, adjust, reg, mem>>

Next == InitializeAdjust \/ Enter \/ RunAdjust \/ FinishAdjust \/ RunDefinition \/ RunUse
        \/ RunPass \/ RunCall \/ RunReturn

Spec == Init /\ [][Next]_vars

----------------------------------------------------------------------------
(* When the pass sees the two adjustments of a call.                       *)
Down(b) == <<b, 4>>

Up(f, b) == <<Following(f, b), 1>>

Before(p, q) == p[1] < q[1] \/ (p[1] = q[1] /\ p[2] < q[2])

SeenFirst(f, b) == IF Before(Down(b), Up(f, b)) THEN Down(b) ELSE Up(f, b)

SeenLast(f, b) == IF Before(Down(b), Up(f, b)) THEN Up(f, b) ELSE Down(b)

(* Another call with a larger area is first seen between the two           *)
(* adjustments of the call of b.                                           *)
Outgrown(f, b) ==
    \E c \in Calling(f) :
        /\ AreaOf(f, c) > AreaOf(f, b)
        /\ Before(SeenFirst(f, b), SeenFirst(f, c)) /\ Before(SeenFirst(f, c), SeenLast(f, b))

(* No area is recorded for a call over which a value of a callee-saved     *)
(* register lives: its arguments go where the frame's own words are.       *)
Unreserved(f, b) == AreaOf(f, b) > 0 /\ LiveOver(f, b) \cap CalleeSaved # {}

(* By-value arguments whose sizes are no whole words need more than their  *)
(* sizes, which is what is recorded.                                       *)
Overfull(f, b) == StackArea(f.calls[b].args) > AreaOf(f, b)

(* A function returns to its caller with rsp, rbp and the callee-saved     *)
(* registers as it found them, if no call has been outgrown (the two       *)
(* adjustments of a call record the largest area seen when each is visited)*)
(* or has more on the stack than is left for it.                           *)
ReturnsToCaller ==
    (phase = "returned" /\ \A b \in Calling(func) :
        ~Outgrown(func, b) /\ ~Unreserved(func, b) /\ ~Overfull(func, b)) =>
        /\ reg["rsp"] = Address(Entry)
        /\ ReadAt(mem, Entry) = <<"return", 0>>
        /\ \A r \in CalleeSaved : reg[r] = Outer(r)

(* A value whose register is read after a call is still in it.             *)
LiveValuesSurvive ==
    phase = "run" /\ Here.op = "use" => \A r \in Here.regs : reg[r] = Value(r)

(* The same for what is saved around the call: a value survives unless it  *)
(* is in an xmm register, or in rdx when the call returns a value, or some *)
(* other value of a callee-saved register lives over the call, or it was   *)
(* pushed where the arguments on the stack go.                             *)
LostOver(f, b, r) ==
    /\ r \in LiveOver(f, b) \cap CallerSaved
    /\ \/ IsXmm(r)
       \/ r = "rdx" /\ f.calls[b].returns > 0
       \/ LiveOver(f, b) \cap CalleeSaved # {}
       \/ StackArea(f.calls[b].args) > 0

SavedValuesSurvive ==
    phase = "run" /\ Here.op = "use" =>
        \A r \in Here.regs :
            reg[r] = Value(r) \/ \E b \in Calling(func) : LostOver(func, b, r)

(* What the callee finds where it looks for an argument, in a frame of its *)
(* own or without one, when its rbp still is the caller's.                 *)
Found(place, framed) ==
    LET rsp == Rsp - 8 IN
    CASE place.base = "rbp" -> IF framed THEN ReadAt(mem, rsp - 8 + place.offset) ELSE Junk
      [] place.base = "rsp" -> IF framed THEN Junk ELSE ReadAt(mem, rsp + place.offset)
      [] OTHER -> reg[place.base]

OfOneClass(args) == \A i, j \in DOMAIN args : args[i].class = args[j].class

(* Every argument is where the callee looks for it, the sixth and the      *)
(* seventh alike, as long as the arguments are of one kind: the caller     *)
(* counts the kinds apart and the callee does not.  On the stack a callee  *)
(* finds them only in a frame, and by-value arguments only without one,    *)
(* after others whose sizes are multiples of 8.                            *)
ArgumentsArrive ==
    phase = "run" /\ Here.op = "call" =>
        LET args == func.calls[pos[1]].args IN
        OfOneClass(args) =>
            \A n \in DOMAIN args, framed \in BOOLEAN :
                LET place == CalleePlace(args, n) IN
                \/ Found(place, framed) = <<"argument", n>>
                \/ place.base = "rbp" /\ ~framed
                \/ place.base = "rsp" /\ (framed \/ \E i \in 1 .. n - 1 : args[i].size % 8 # 0)

(* rsp is a multiple of 16 at every call of a function that has a frame,   *)
(* saves an even number of registers and has stack slots and by-value      *)
(* arguments of whole words, if an even number of xmm registers is to be   *)
(* kept over the call.                                                     *)
WholeWords(f) ==
    /\ f.local % 8 = 0
    /\ \A b \in Calling(f) : \A n \in DOMAIN f.calls[b].args :
         f.calls[b].args[n].class = "MEM" => f.calls[b].args[n].size % 8 = 0

CallsAligned ==
    phase = "run" /\ Here.op = "call" =>
        \/ Rsp % 16 = 0
        \/ ~NeedsFrame(adjust[PrologueOf(func)])
        \/ Cardinality(func.saved) % 2 = 1
        \/ ~WholeWords(func)
        \/ Cardinality({r \in KeptOver(func, pos[1]) : IsXmm(r)}) % 2 = 1
=============================================================================
