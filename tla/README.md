# A TLA+ model of polymorphine

polymorphine is an ahead-of-time and JIT compiler library: a client builds MIR
(an SSA intermediate representation), the library lowers it to LIR (an
x64-shaped representation with virtual registers), allocates registers, emits
machine code and links it into executable memory or an ELF object.  The whole
program is sequential.  What is hard in it is not concurrency but long chains of
passes, each of which trusts an order, a numbering or a set another pass left
behind, and data structures that iterate in an order nobody chose.

## Inventory

| part | code (under `src/lib`) | state | operations | hard behaviour | what makes it correct |
|---|---|---|---|---|---|
| block orders | `base/analysis/traverse` | explicit stack, visited bits, order | preorder, "postorder" (reversed preorder), "bfs" (a stack of successor spans) | the passes rely on properties the names do not have: the postorder is no postorder, the bfs no breadth-first search | every reachable block once; dominators first; a predecessor first |
| dominators | `base/analysis/dom` | number -> parent map | iterative intersection | published for reverse postorder, run over a reversed preorder | immediate dominators as defined on paths |
| analysis cache | `base/analysis/AnalysisPassManagerBase.h` | one result per analysis | `analyze<A>` runs A once | results are never invalidated, and no pass between two analyses writes what the first one read | a result handed out is the result on the function as it is |
| liveness | `lir/x64/analysis/liveness` | gen, kill, live_in, live_out, changed | instruction walk, reverse sweeps | the loop's flag watches half of the state | least solution of the dataflow equations |
| live intervals | `lir/x64/analysis/intervals` | sorted ranges per value | build from liveness, intersect, merge, canonicalize | half-open and closed comparisons, removal in place from a sorted vector | values that must not share a register have intervals that meet |
| interval joining | `lir/x64/analysis/join_intervals` | groups of intervals, worklist | fixed registers, parallel copies, work list of copies | two values share a register, in hash-map order | members never needed at the same time; one group per value |
| register allocation | `lir/x64/transform/regalloc` | free register pools, active, inactive, unhandled lists, frame size | linear scan | a register in the pool and in use; an entry in a list twice; a pool older than the instruction it serves | no two interfering values in one register; temporaries overwrite nothing |
| call information | `lir/x64/transform/callinfo` | saved registers and stack adjustment of each call | one sweep | the two halves of a call must agree | caller-saved values survive calls |
| code generation | `lir/x64/codegen` | labels, next block | prologue, epilogue, adjustments, jumps | stack balance and alignment, fallthrough | rsp at calls and returns; every edge of the graph is a path of the code |
| emitters | `lir/x64/asm` | machine code buffer | one sequence per operation and kind of operands | operands that are the same register, temporaries | the sequence computes the operation and changes nothing else |
| lowering | `lir/x64/lower` | MIR to LIR value map, instructions set aside | one visitor per MIR instruction | late scheduling, phi copies, flags | a value is defined before it is read, on every path |
| containers | `utility` | slots, free list, linked list | push, insert, remove | an insertion records another iterator than the new element's; a slot is reused | the last slot names the last element; what is appended is found by its index |
| assembler | `asm` (without the vendored `asm/elf`) | instructions, labels, symbols | encode, patch | displacement widths, registers an address treats apart, the reach of a short jump | the bytes read back as the instructions; jumps land on their labels; both passes emit the same bytes |
| JIT linking | `lir/x64/asm/jit` | linkage table, offsets, relocations | layout, patch | offsets of two origins | a patched field leads to its symbol |
| MIR | `mir` | modules, functions, values, uses | builder, verifier | def-use chains, what the verifier does not look at | a verified function meets the lowering's assumptions |

How they interact: there are no threads and no callbacks that outlive a call.
`Lowering` runs over MIR in the "bfs" order and leaves a LIR function;
`Codegen` then asks the analysis cache for preorder, liveness, intervals and
groups, which call each other through the same cache; `LinearScan` reads all of
them and writes the register of every value and the temporaries of every
instruction into the LIR; `CallInfoInitialize` reads liveness again, now with
registers; `LIRFunctionCodegen` visits the instructions in preorder and appends
machine instructions, which `Assembler` encodes and `RelocResolver` links.

The hazards of the code, each with its line and the properties that would catch
it, are in `PROJECT.json`.

## Modules and the code they model

Each step of a module is one iteration of a loop of the code, so that an
invariant is about every intermediate state of a pass and not about its result
alone.  Definitions keep the source's names.

| module | models | state and actions |
|---|---|---|
| `FlowGraph` | what a traversal sees of a function: blocks, successors, entry, exit | no state; reachability and dominance defined on paths, as references |
| `Traverse` | `PreorderTraverseBase`, `BFSOrderTraverseBase` | the explicit stack, the span being read, the visited bits, `m_order`; one popped block, or one block of a popped span, per step |
| `DominatorTree` | `PostOrderTraverseBase` (a reversal) and `DominatorTreeEvalBase`, after `Traverse` | the map of parents by number, the flag; one block per step |
| `Liveness` | `LivenessAnalysis` | gen, kill, live_in, live_out, changed; one instruction of the walk, then one block of a sweep per step |
| `LiveInterval` | `LiveRange`, `LiveInterval`, `IntervalHint` | no state; construction, `canonicalize()` with the removal by `remove_fast`, `intersects`, `follows`, `merge_with` |
| `LIRFunction` | a lowered function as the passes read it, and the numbering of its instructions | no state; the reference notion of interference, in terms of program points |
| `LIRShapes` | functions in the forms `FunctionLower` gives them | no state; the inputs of the runs |
| `Intervals` | `LiveIntervalsEval` | a range per value and block; one block per step of `setup_locals()` and `eval_usages()`, then `result()` |
| `Joins` | `LiveIntervalsJoinEval`, composed with `Intervals` | groups, the map from value to group, the worklist; one block of parallel copies or one value of the worklist per step |
| `Allocation` | what an allocator promises (abstract) | places given so far, registers on record; place some values, finish, fail |
| `LinearScan` | `LinearScan` and `VRegSelection`, composed with `Joins`; implements `Allocation` | registers, pools, the three lists, temporaries, stack slots; one interval per step |
| `CallFrame` | `CallInfoInitialize`, then prologue, epilogue, adjustments and calls of `LIRFunctionCodegen` on a machine with a stack | what each adjustment records; registers and stack; one instruction per step |
| `Machine` | the processor, which is no part of the repository (external) | no state of its own; registers, memory and flags as a record, one operator per kind of instruction, at scaled-down widths |
| `Emitters` | `lir/x64/asm/emitters` | no state; one operator per emitter, from operands and temporaries to the instructions it appends |
| `Emission` | `LIRInstructionMapping`, `TemporalRegs`, and the order of `LIRFunctionCodegen` | the program of operations, the code of the current one, the machine; emit one operation, or perform one machine instruction per step |
| `MIRFunction` | MIR instructions, types, uses, and what a run of them does | no state; a function as the builder leaves it, and its meaning in terms |
| `Lowering` | `FunctionLower` | the value map, instructions set aside, the lowered code, fixed registers; one lookup, insertion or memorised value per step |
| `LoweredCode` | the meaning of LIR operations (from the mapping to emitters), composed with `Lowering` | the lowered code and the function run side by side, one block per step, either way at a branch |
| `Encoding` | `asm/x64/encoding`, `address`, `reg` | no state; from operands to bytes, with relocations |
| `Instructions` | `asm/x64/instruction`, `AsmEmitter` | no state; one overload of the assembler each |
| `Decoder` | how the processor reads the bytes (external) | no state; written from the instruction set, not from the encoder |
| `Assembler` | `Assembler`, `AssembleSlot`, `SizeEvaluator`, `JitModule`, `RelocResolver` | buffer, offsets, gaps of forward jumps, relocations, chunks; one instruction, leaf of a slot, or relocation per step |
| `OrderedSet` | `OrderedSet`, and its use by `LIRBlock`, `FunctionData` and `ModuleBuilder` | the list, the slots, the free slots; one call per step |
| `FlowGraph_proofs` | | lemmas about reachability and loops |
| `DominatorTree_proofs`, `Liveness_proofs`, `Intervals_proofs`, `LinearScan_proofs`, `CallFrame_proofs`, `Assembler_proofs`, `OrderedSet_proofs` | | the theorems; those about the traversals are in `DominatorTree_proofs`, those about groups are in `LinearScan_proofs`, lemmas about sequences and canonical intervals in `Intervals_proofs` |
| `MC...` | the instances that TLC checks | |

How they compose.  `DominatorTree` extends `Traverse`: the iteration runs on the
order the traversal left.  `LinearScan` extends `Joins`, which extends
`Intervals`: one behaviour runs through the three passes in the order of the
code, and the later pass works on the intervals and groups the earlier one
really leaves, the lossy ones included.  `LoweredCode` extends `Lowering`: the
code that is run is what the visitors inserted, in the blocks they inserted it
in.  `LIRFunction` takes the result of liveness from its definition on paths
(`LiveIns`); `Liveness!ResultIsLiveness` is what justifies that, and
`Liveness!ProgramsAssumption` rests in turn on `Traverse!PredecessorBefore` and
`Traverse!CompleteOrder`.  All three are proved, for every program and graph.

Between the groups the contact is by assumption.  `LIRShapes` gives the
allocator the copies and fixed registers `Lowering` makes.  `Emission` starts
where the allocator ends: the dividend and the quotient are in `rax`, the
divisor in neither `rax` nor `rdx`, a count in `rcx`, and temporaries are apart
from every operand, which is what `LinearScan!TempsDoNoHarm` is for.
`CallFrame` starts from registers assigned to the values that live over calls,
and `Assembler` from the instructions the emitters ask it for.

What is abstracted: a virtual value is a name; an instruction of the allocator's
functions is the values it reads and defines, its kind, and the number of
temporaries its emitter asks for (`AllocTemporalRegs`); a register is a name with
a place in the pool's order; in `Lowering` what a value holds is a term.
Where the code iterates over a hash map the model chooses any order, unless
the order cannot be seen (a sort follows whose keys are distinct, or the result
is a set).  `Variant:` marks an operator that states a plausible mistake in the
definition below it; the runs must refute each of them.

## What the runs show

| run | instance | states | shows |
|---|---|---|---|
| `orders_and_dominators` | every graph of 4 blocks with jumps and two-way branches, unreachable blocks and exits included; every graph of 5 reachable blocks whose entry branches to 2 and 3 | 94 374 | both orders are complete (`CompleteOrder`) and give each block an earlier predecessor (`PredecessorBefore`); the first successor, to which no jump is emitted, comes next (`FirstSuccessorNext`); the tree is the dominator tree (`TreeIsDominatorTree`), the fingers always climb to a defined block (`FingersClimb`), the loop ends |
| `liveness` | one value over 4-block graphs, every place of its definition and of its reads, one phi: 11 834 programs | 219 845 | nothing is recorded live that is not (`WithinEverySolution`); at the end the sets solve the equations (`FixpointReached`) and are liveness by paths (`ResultIsLiveness`); sets only grow; the loop ends |
| `linear_scan` | 6 331 functions of two values over five graphs, a call, a phi or neither, and two whose copies for phis begin a block; 2 402 of them, over a diamond and over a loop a call splits, beside phis, and of three values with two stack slots, go on from the groups to the scan (`ScannedOnly`); 5 registers | 215 813 | interference is visible in the intervals (`InterferenceSeen`), which start at the definition and hold nothing too long; members of a group are compatible, and the groups' intervals still show interference, in every order of the hash map; the scan implements `Allocation` (`ImplementsAllocation`): clashing values are never in one place, a place once given is kept, callee-saved registers are on record; temporaries overwrite nothing, a register in use is not in the pool, slots are aligned and disjoint, the process gives up only under pressure |
| `lowering` | 1 621 functions of one to five blocks, 1 324 of them outside every limit below | 53 955 | over every path of up to five blocks the lowered code stores, passes, returns (`SameEffects`) and decides (`SameDecisions`) what the function does, reads nothing that was not written (`DefinedBeforeRead`), and lowering dies only where it has no code (`DiesOnlyOnUnlowered`) |
| `emission` | 1 517 programs: each of 37 operations, with every kind and sharing of operands its emitter has code for, at every size, and `cmov` and `setcc` behind a comparison with every predicate; 27 694 starting machines | 188 556 | the sequence computes the operation (`ComputesOperation`), selections decide by the comparison and not by flags an emitter spoiled (`SelectionFollowsComparison`), nothing but the result and temporaries changes (`NothingElseChanges`), the dry run's count of temporaries is enough (`TempsSuffice`), a result of four bytes leaves the upper half clear (`UpperHalfClear`) |
| `call_frame` | 1 611 functions of three or four blocks and two or three calls, created in the order they run or not | 80 340 | the caller gets rsp, rbp and callee-saved registers back (`ReturnsToCaller`), what lives over a call or is returned by it is there when it is read (`SavedValuesSurvive`), arguments are where the callee looks (`ArgumentsArrive`), rsp is aligned at calls (`CallsAligned`), each but for the cases it names |
| `assembly` | 23 485 modules: one instruction of every overload, size and kind of operand; jumps around the reach of the short form; functions and slots that refer to each other | 377 675 | the bytes read back as the instructions (`DecodesBack`), jumps and references lead where they should after layout and relocation (`JumpsLand`, `ReferencesLead`), the dry run measures what is emitted (`FitsMeasured`) |
| `ordered_set` | up to seven elements of a block or of a function | 2 048 | `last()` is the last element although insertions record another iterator (`BackIsLast`); everything stays in order and ids lead to what was appended (`InPlace`) |

The bounds are the smallest in which the interesting cases occur.  Four blocks
hold a diamond, both forms of loop, and a loop entered in two places; five are
needed for a join that the preorder reaches before its second predecessor, the
case in which the first pass of the dominator computation is wrong.  Liveness
treats values independently of each other except for the flag: a second value
can only raise it, which repeats a sweep that changes nothing.  Two values
suffice for any statement about a pair; three and a pool of three caller-saved
registers are what it takes to run out.  In `linear_scan` the registers play
their parts: `rax` is returned in, `rdi` is an argument, `rcx` neither, `rbx`
and `r12` are callee-saved.  In `lowering` five blocks (`MaxBlocks`) are two
turns of a loop, after which a phi has been overwritten by what it was copied
from.  In `call_frame` two calls are what it takes for one to outgrow the other,
three are visited in every order, and two registers for arguments leave some for
the stack; what is proved of frames holds for any number of all of them.  In `assembly` registers
and displacements are those an encoding treats apart, and one that needs no
care; the lengths jumped over are those around the reach of a byte.

In `emission` sizes of 1, 2, 4 and 8 bytes keep 2, 4, 6 and 9 bits: each
size has values the next smaller one cannot hold, a size of 8 has numbers that
do not fit the immediate of an instruction (`Imms(8)` contains one), and a
floating-point number of 4 or 8 bytes has a precision of 2 or 3 bits, less than
an integer of its size, so that conversions round.  Operands of arithmetic hold
zero, one, the two sides of the sign change and all ones; what is extended or
converted takes every value.  Above 1 or 2 bytes a register holds ones, since
nothing clears it there.  Floating-point numbers are whole and none is NaN.

Fairness.  The program is one thread that does nothing but take its next step:
weak fairness of the whole next-state relation says that it is not suspended
for ever, and is all that the termination of the two fixpoint loops
(`orders_and_dominators`, `liveness`) assumes.  The other passes take every
element of a list once.  The only choices left are the orders of hash maps, the
way taken at a branch, and the calls a client makes, and no property assumes
them fair.

`CHECK_DEADLOCK FALSE` in every run but `emission` and `lowering`: each pass
ends, and the single functions stop there.  The two end in a step of its
own, so that a stop before the end of a program would be reported as a deadlock.

## Where the code does not do what it says

Four runs end in a violation.  Each is one instance on which a statement of the
code's own comments fails; `PROJECT.json` quotes them under "findings".

- `stolen_register`: `erase_active()` puts back the register of an interval
  that leaves the list while another value of the same register stays in it.
- `lost_range`: `canonicalize()` puts the last range in the place of one it has
  merged; a range that starts before the one it is then merged into loses its
  beginning.  A value that is passed to a call in each of two branches is in a
  group that no longer holds its register at one of the calls.
- `unsaved_register`: a live value in a callee-saved register ends the walk over
  the live values, and nothing is saved around the call.
- `base_r13`: an array whose base is `r13`, without displacement, is encoded as
  another operand.

They and the following mark the edge of the passing runs.  What is excepted is a
condition written out beside the property, or a form the instance leaves out;
within the edge the properties hold for everything the instances contain.

**Allocation.** The functions of the runs have at most one call, beside it two
values, no divisions or shifts, no floating-point values, and no instruction
that reads a value twice (`x + x` is a use of the same instruction twice, and
may be joined with two groups). Beyond that: a returned floating-point value and
a call's argument may hold `xmm0` at the same time; a temporary of one branch,
taken from the pool as of the last definition, may overwrite a value that is
live in that branch only; a third argument used as a divisor is overwritten in
`rdx` by the sign extension of the dividend. Only general registers of fixed
groups are reserved before they are reached. With more values than that, a value
reserved ahead of its turn is dropped again at the next value that ends before
it starts, and its register given back although a value it never meets holds it:
in `v = ..; u = ..; x = v << u; y = ..; ..; f(u)` the argument's `rdi` is
returned while `v` is in it, and `y` is placed there. `ReturnedEarly` in
`MCWitnesses` is this function; in the place of `StolenRegister` in
`MCStolenRegister.cfg` it violates `FreeMeansFree` as well.

Some intervals say less than the code needs, and the properties of intervals and
groups leave these out:

- A phi that is not used, and a value that is not used and is defined first in
  its block or beside another result, has a range without length, which meets
  nothing (`ShownAssumption`).
- A copy for a phi is not held for the edge it is copied on (`FeedsPhi`): only
  the group of the phi knows.  A copy that begins its block has a range without
  length.  In `c21 = copy i; c22 = copy j` at the beginning of a block `j` may
  therefore join the phi of `c21`, and is overwritten before it is read.  `Shown`
  leaves such pairs out, and `MCLinearScan` contains the function.
- In a loop the interval of a copy on the back edge starts where the parallel
  copy of the phi ends the phi's own, and the register of their group goes back to
  the pool with the first of them; the functions with phis ask for no temporaries.

**Lowering.** `LoweredCode` names thirteen conditions under which the lowered
code is wrong, and `Misread` is any of them:

| condition | what goes wrong |
|---|---|
| `SharedComparison` | a comparison of two users is emitted once; the second reads whatever flags there are |
| `UnorderedMisread` | six floating-point predicates share conditions that answer otherwise for a NaN |
| `WideFlag` | a flag made a number is one byte, whatever the type of the value |
| `LoneFieldAccess` | the address of an element, as a value, is scaled by a pointer's size and computed in the block of its first reader |
| `AddressAsOperand` | an object on the stack, or a global, as an operand is what it holds and not where it is |
| `UnevenOffset` | a folded byte offset is divided by the size of the last element, dropping the remainder |
| `LoadOutlived` | a load from an object is no instruction: its readers read the object after a later store |
| `PhiApart` | copies for phis are not inserted where something comes before the parallel copies of the block |
| `PhiOverwritten` | copies for phis overwrite what another phi or the other successor still reads |
| `TupleMixed` | both values of a two-value call have the size of the second and the kind of the first |
| `ContinuationShared` | what follows a call is made in the block it returns to, whoever else branches there |
| `ArgumentOverwritten` | an argument left in its register is read while those of a call are put in theirs |
| `FloatReturned` | a returned floating-point value is in `xmm0` from its definition on, across calls |

Two more say when lowering ends the process: `InputTooLate`, a phi that is
reached before what comes in over a back edge, or that takes a constant or a
global; `NoCode`, addresses of fields as values, and loads and stores through
what is neither an argument, an access, nor an object.

**Frames.** `ReturnsToCaller` excepts calls whose recorded area is outgrown by
another call's between the visits of their two adjustments (`Outgrown`), calls
with arguments on the stack over which a callee-saved register lives
(`Unreserved`: no area is recorded), and calls that put more on the stack than is
recorded (`Overfull`: the size of a by-value argument is added up as it is, but
on the stack it takes whole words).  `SavedValuesSurvive` excepts xmm
registers, which no adjustment pushes, `rdx` over a call that returns a value,
whatever lives together with a callee-saved register (`unsaved_register`), and
registers pushed where the arguments on the stack go.  `ArgumentsArrive`
holds for arguments of one kind only, since the callee counts both kinds
together; arguments on the stack are found in a frame only, and by-value ones
only without, after others of whole words.  `CallsAligned` excepts functions
without a frame, with an odd number of saved registers or with areas that are
not whole words, and calls that are to keep an odd number of xmm registers:
these calls are misaligned.

**Encoding.** Left out since they do not read back, and no emitter asks for them:
`and` (the two opcodes are swapped), `test` with anything but two registers,
`subss` and `subsd`, `cdq` of 2 bytes, `movsxd` to less than 8; and since the
address is wrong, though an emitter may ask for it: a displaced base of `r12`,
and of `r13` without displacement.  Byte operations on registers 4 and 5 (`spl`,
`bpl`) lack the prefix; an immediate of one byte after a literal at another size
is counted wrongly in the relocation (`NoShiftOfLiteral`); a jump back over 127 or 128 bytes takes the
short form, whose distance wraps (`NoneWraps`).  The padding of a string is
computed for one byte more than is written, and from the position in the whole
buffer: a string ends one byte before a whole word, and a string after it is one
byte longer in the emission than in the dry run, which measures each unit from
position 0.  The runs place strings after data of whole words (`StringsAligned`).
A function with more labels than instructions is read past the end of the lists
of gaps (Assembler.h:31 and 75): blocks that only fall through to the next get
a label and no instruction.  `ModulesAssumption` leaves such functions out.

**Emitters.** Left out: division of 1 byte, for which `cdq` has no code, and
signed division of 2 bytes, for which `cdq` sign-extends `eax`;
comparisons with NaN: the conditions ignore the parity flag; truncation from 8
to 4 bytes in place, for which nothing is emitted: the upper half of the
register stays, and `MovzxInt`, which emits nothing from 4 to 8 bytes in place,
is then no zero extension (`UpperHalfClear` names the exception); operations
whose visitor is empty (`mul`, `and`, `or`, `neg`, `not`, an indirect call) and
operand kinds an emitter ends the process at (`Works` in `MCEmission`).

**Containers.** After `ModuleBuilder::build()` has moved a block to the end, the
block is in its old slot, and `FunctionData::last()`, which reads the last slot,
names the block that was created last: its assertion (FunctionData.h:42) fails.
Only analyses of MIR ask; lowering goes by the order of the list.

**Types.** `StructType` advances the offset of a field by its size without the
padding before it: `{i8, i32, i8}` has offsets 0, 4 and 5.
`LIRProducerInstruction::gen()` takes the size of an object on the stack as a
`std::uint8_t` (LIRProducerInstruction.h:100): of an object of 256 bytes nothing
is left, and the slot has no bytes.  `SlotsApart` speaks of the size the slot is
given; `LoweredAssumption` leaves out that it is 0.

## What is proved

`DominatorTree_proofs` proves of the traversals, for every function graph (`GraphsAssumption`: finitely
many blocks, edges that stay inside, no edge to the entry, and only the exit
without successors):

| theorem | establishes |
|---|---|
| `OrdersAreComplete` | `EachBlockOnce`: a finished order has each reachable block once, the preorder the exit block besides |
| `PredecessorsComeFirst` | `PredecessorBefore`: at every step, every placed block but the entry comes after one of its predecessors |
| `FirstSuccessorsComeNext` | `FirstSuccessorNext`: in the finished preorder the first successor is next, is the exit, or was placed before |
| `OrdersAgree` | `CompleteOrder`: moreover the preorder ends with the exit block, and both orders are the functions `Preorder` and `BreadthFirst` from which the later modules start |

The argument.  Either traversal is seen as three sets of blocks: those placed,
those that wait (on the stack, or in the spans), and the exit block, which the
preorder sets apart.  `Progress` says that every waiting block is a successor of
a placed one, and that every successor of a placed block is in one of the three
sets.  Skipping a block and visiting one keep it (`KeptBySkip`, `KeptByVisit`),
whatever the stack looks like; the proofs of the actions only say what happens
to the waiting set.  When nothing waits, the placed blocks with the exit are
closed under successors, so they are all that is reachable
(`FlowGraph_proofs!ReachableWithin`), and the exit, if it is reached at all, is
reached from a placed block (`NothingMissed`): that is why it may be appended
last without losing `PredecessorBefore`.  `FirstNext` adds, for the preorder,
that the first successor of the last placed block is on top of the stack.
`FlowGraph_proofs` shows that the reachable blocks are closed under successors:
the definition counts only as many steps as there are blocks, and each step but
a last one finds a new block.  `OrdersAgree` compares two forms of the same loop:
`OrderInv` says that what the function makes of the stack and the order as they
are is what it makes of those at the beginning.  That there is such a function is
`LoopExists`: of any step and any condition to stop, there is a function that is
constant along the steps and is the result where the loop stops.

It goes on from there, to the tree:

| theorem | establishes |
|---|---|
| `DomInvariant` | `Climbing`, `Inherits` and `Settled` (below), for every function graph and every pass |
| `FingersAlwaysClimb` | `FingersClimb`: the fingers of `intersect()` climb to defined blocks only |
| `TreeIsCorrect` | `TreeIsDominatorTree`: the result is the dominator tree as paths define it, for every function graph without unreachable blocks, reducible or not |

The algorithm is published for a reverse postorder, and the code runs it over a
reversed preorder, in which an edge of a graph without loops may lead upwards.
All that the proof uses of the numbering is that every block but the entry has a
predecessor with a higher number, which is `PredecessorBefore` read backwards.
`Climbing` says that parents have higher numbers and parents of their own;
`Inherits`, that what dominates a block dominates its parent too, so that the
climb passes no dominator; both hold in every pass.  `Settled` says that while
the flag is down, the parent of each block evaluated in this pass is on the way
up from all of its predecessors.  When the loop ends every block is settled, and
going back along edges from a block one never leaves what is below its parent
(`AncestorsDominate`): the parent is a dominator, and by `Inherits` the nearest.
The proof assumes of the constants that no block has the number `Undefined`
(`UndefinedAssumption`).

`Liveness_proofs` proves for every set of programs and values, under
`ProgramsAssumption` (each block once in the order; each block that is branched
to has a predecessor earlier in it):

| theorem | statement |
|---|---|
| `TypeCorrect` | `TypeOK`, strengthened by where the indices are in each phase |
| `NeverTooMuch` | `WithinEverySolution`: at every step the sets are within every solution of the dataflow equations |
| `EndsAtFixpoint` | `FixpointReached`: when the loop ends the sets are a solution; with `NeverTooMuch`, the least one |
| `NothingForgotten` | `SetsOnlyGrow`: no step removes a value from a live set |
| `ResultIsExact` | `ResultIsLiveness`: the result is liveness by paths: a value is live into the blocks from which some path reads it before it defines it |

The argument.  `LocalInv` says that gen and kill of the blocks walked so far
are exactly the upward exposed and the defined values.  `NeverTooMuch` needs
only that.  `EndsAtFixpoint` is the delicate one, because the flag watches
live_out alone: a block swept before one of its predecessors may gain a live_in
in the very sweep that ends with the flag down.  `SweepInv` therefore tells the
first sweep from the later ones.  In every later sweep each block satisfies
`live_in = (live_out \ kill) ∪ gen` already, so a live_in can grow only if its
live_out does, and the flag sees that.  In the first sweep that is not so: a
block that only reads a value gains a live_in without any live_out.  There the
order helps: while the flag is down no live_out has a member; a block whose
live_in became nonempty has a predecessor earlier in the order, to which the
sweep, going backwards, comes later, and which then raises the flag.  This is
where the assumption on the order is used, and without it the loop may stop too
soon (an order in which all predecessors of a block come after it).  It also
excludes a branch back to the entry, which FunctionDataBase.h:27-31 rules out
("It doesn't have predecessors") and the verifier does not check.
`ResultIsExact` adds the paths.  The sets of what is read within `n` blocks grow
with `n` and stop growing before `n` is the number of blocks, so that they solve
the equations; each of them is within every solution; and `NeverTooMuch` and
`EndsAtFixpoint` say that the result is the least one.

`Intervals_proofs` proves of the live intervals, for every function:

| theorem | establishes |
|---|---|
| `RangesAsEvaluated` | `SpansInvariant`: at every step a value has, per block, the range the passes so far have given it |
| `NeverHeldTooLong` | `NotHeldTooLong`: an interval holds nothing where the value is not needed |
| `AlwaysStartsAtDefinition` | `StartsAtDefinition`: an interval starts at the definition |
| `AlwaysSeesInterference` | `InterferenceSeen`: intervals of values that must not share a register intersect |

The argument.  `SpansInvariant` tells for each phase and position which blocks
have been visited and what their ranges are by now: one number from
`setup_locals()`, then from the first number of the block, or the definition, to
the last reader, or, if the value is live out, to the last number of the block,
and in the block of the definition to the first of the next.  `IntervalsCover` says of the result of `canonicalize()` that its ranges
cover what the ranges of the blocks cover.  That
is where the removal in place of a sorted vector must be reasoned about.  The
ranges of one value form a chain in which, since every block's ends one number
short of the next block, only the range of the block of the definition may touch
another; so at most one range is removed, and nothing is lost.  With several
values' ranges in one vector this is not so (`lost_range`).  Where two values
interfere one of them is defined, by then the other is held, and the ranges of
that block, with the covering intervals, meet.  The assumptions are
`FunctionsAssumption`, `AnalysedAssumption` (what is live is defined before, and the
blocks are in the preorder), `CopiesAssumption` (what feeds a phi is a copy that is
made for it, and is not live beyond its block) and `ShownAssumption` (above).

`LinearScan_proofs` proves of the allocator, for every set of functions and every
order of the registers:

| theorem | establishes |
|---|---|
| `AllocationInvariant` | `AllocInv`: `JoiningInv`, `SlotsInv` and `RegistersInv` (below), in every phase |
| `SlotsNeverOverlap` | `SlotsApart`: slots are aligned and do not overlap, whatever the objects and their order |
| `PlacesAreKept` | the scan implements `Allocation` where the clashes are those a stack slot is in: a place once given is kept, two objects never share bytes, what has a register is not on the stack, the callee-saved registers on record are those in use |
| `GroupsAreCompatible` | `MembersCompatible` in every behaviour in which merging loses no range (`NothingLost`), and before joining ends as well |
| `GroupsMeetInterference` | `GroupsSeeInterference` under the same condition: what must not share a register with a member of a group meets the group |

`JoiningInv` says that a value mapped to a group is a member of it, that no group
holds an object on the stack, and that the fixed register of a group is one that
lowering gave out.  `SlotsInv` says that a slot reaches no further up than the frame pointer;
`SlotArithmetic` is the rounding by which the next one is below all of them.
`RegistersInv` says that registers are given to values that are no stack slot, that
the callee-saved registers on record are those given out, and that what is still
in the list has no place yet.  What `PlacesAreKept` leaves out of
`ImplementsAllocation`, that two interfering values are never in one register, is
not proved: it fails in `stolen_register` and in the exceptions under "Allocation"
above, and that it holds within the edge those draw is checked by `linear_scan`.

The groups.  `GroupInv` says that the intervals of two values that interfere
intersect (from `AlwaysSeesInterference`, once they are evaluated), that the groups'
intervals are sorted ranges, and that no group has two members one of which
overwrites the other.  Three steps make groups.  Values that lowering put in one
register, and a phi with its copies, are apart by `TogetherAssumption`: if they
were not, the lowered code would be wrong in whatever registers (`ArgumentOverwritten`
and `PhiOverwritten` below "Lowering").  A value that joins by `JoinValue` follows the
group, so it does not intersect it; by `NothingLost` every range of a member is
within one of the group's, so it intersects no member either, and by `GroupInv`
interferes with none.  `NothingLost` is a condition on the behaviour and not an
assumption on the functions, because it is `canonicalize()` that may break it,
and `lost_range` is a behaviour in which it does; in all of the functions of
`linear_scan` it holds, which TLC confirms when it is added to
`MCLinearScan.cfg`.

The assumptions on the constants are `FunctionsAssumption` (an
order of all blocks, only values of the function are read and live),
`RegOrderAssumption` (the order of the registers is a sequence) and
`LoweredAssumption` (the size of an object is a positive multiple of its
alignment; arguments have a register, fixed registers are caller-saved, objects
on the stack have none and are neither copied nor made by a phi).

`CallFrame_proofs` proves the four properties of `call_frame` for every function
and every convention: any number of blocks, calls, arguments and live values, created in
any order, with any registers:

| theorem | establishes |
|---|---|
| `PassInvariant`, `StackInvariant` | what each adjustment records, at every moment of the pass, and where rsp and rbp are at every instruction of every run |
| `EveryFunctionReturns` | `ReturnsToCaller`: the caller gets the return address, rsp, rbp and the callee-saved registers back |
| `EverySavedValueSurvives` | `SavedValuesSurvive`: a value read after a call is the one computed before it, or returned by it |
| `EveryArgumentArrives` | `ArgumentsArrive`: arguments of one kind are where the callee looks |
| `EveryCallIsAligned` | `CallsAligned`: rsp is a multiple of 16 at every call |

The argument.  None of the four is inductive: they speak of a moment, and what
makes them true is in another component.  `PassInv` says of the pass that the two
adjustments of a call, once both are visited, keep the same registers and at least
the call's area, and that their areas differ only if another call, with a larger
one, was first seen between them: that is where `Outgrown` comes from.  Since an
adjustment records the largest area of any call so far, the invariant says that
from the first of the two visits on the maximum is what was recorded there, or a call
with a larger area was first seen since.
`RunSteps` turns every step of the machine into one of a
dozen kinds, with the instruction it executes, so that the rest never speaks of the
sequences of instructions again.  `StackInv` gives rsp at each of them as a
function of the position (`Level`) and a drift, which an outgrown call adds to and
which is a multiple of 16 where areas are whole words; alignment follows
(`DeepAligned`: the padding counts all registers, the pushes only the general ones).
The rest needs to know that two parts of the stack do not touch.  `FrameInv` says
which words of the frame hold what the caller left, and which registers still or again
do; everything the calls push, pass or lose lies below (`FrameKept`), because
`AreaReserved` bounds what is passed by what is recorded.  `ArgumentsInv` says that the
arguments passed so far are in their places, and `PlacesAgree` that the callee's
places are the caller's: two recursions over the arguments that count differently and
agree for one kind.  `SaveInv` follows a value from its definition into the
register it is pushed from, the word it waits in and the register it is popped
to; a pop must not overwrite what the call returned (`ResultsUnpopped`), and
no argument may be passed on the stack (`SafeOver`).

The assumptions on the constants are `ConventionAssumption` (no register twice in an order,
general and xmm registers apart, `rsp` and `rbp` kept by the callee) and
`FunctionAssumption` (each block once in the order; what lives over a call is in a
caller-saved register or in one the allocator put on record, which
`PlacesAreKept` shows of the allocator; a primitive argument is at most a word).

`Assembler_proofs` proves for every set of modules, with any number of functions
and slots of any length:

| theorem | establishes |
|---|---|
| `TypeCorrect` | `TypeInv`: offsets are those of the open unit and none is left when it ends, gaps are finitely many, relocations have one of the three types and a position |
| `SizesFit` | `FitsMeasured`, of modules with `StringsAligned`: the dry run measures what is emitted |
| `SpansHold` | `SpanInv`: where every instruction is, and what each jump holds, in every phase |
| `JumpsLandWhereMeant` | `JumpsLand`, of modules with `NoneWraps` and up to the 2 GB (`Far`) that a distance of four bytes reaches: read by the processor's rules, every jump leads to the instruction its label was set before |
| `EncodeLeads` | of every overload, operand and size but the shifts of `ShiftsLiteral`: whatever distance is written into the field of the relocation, the processor reads it, in the operand that was a symbol (`Refer`) |
| `LinksHold` | `LinkInv`: what of an instruction's bytes may have changed since it was emitted, in every phase |
| `ReferencesLeadWhereMeant` | `ReferencesLead`, of modules with `NoShiftOfLiteral` whose references are `WithinReach` of a distance of four bytes: every operand that names a symbol and every call leads to the slot, the function or the entry of the linkage table that was meant, wherever the units are laid out and whatever follows the distance in the instruction |

The argument.  `Encode` is taken through all overloads once (`EncodeTyped`): the
bytes are as many wherever the instruction is put, and a relocation lies inside
them.  A jump back is the one instruction whose width depends on what is before
it, but only on what is before it in the same unit; so there is a function that
gives the layout of a unit from its items (`LayoutOf`), and both passes follow
it: `SizesFit`.  A string's padding depends on its position modulo 8, which is
the same in both passes if the slot starts at a whole word; that is
`StringsAligned`, and the only condition.

`JumpsLand` is far from inductive: it speaks of the loaded code, while a jump is
written when it is reached, patched when its unit ends, moved by nothing since,
and must not be touched by the relocations of other units.  `SpanInv` says so in
six parts.  `Chunked`: a finished unit has its offsets on record.  `Spread`: every
item lies in the buffer, ending where the next one of its unit starts.  `Apart`: no two
items overlap, of one unit or of two.  `JumpsPlaced`: every jump behind or patched holds its
distance (`JumpDone`), every other has its opcode.  `GapsPlaced`: the gaps of the open
unit are the fields of its forward jumps, so no two overlap (`GapsApart`) and the order in
which they are patched, which the model leaves to a fold over a set, cannot be
seen (`PatchesEach`).  `RelocsPlaced`: a relocation lies within an instruction or
leaf that is no jump, so applying it keeps every jump (`SpanRelocate`).
`JumpReads` then has the decoder read what `JumpDone` says is there: in the short form
the byte is the distance from the end unless it wraps, which is `NoneWraps`.

`ReferencesLead` has two halves.  One is about the instruction alone.  The
relocation of an operand is made by `Emit` from two numbers the schemes of the
encoder pass on, where the field is and how many bytes follow it, while the
processor finds the field behind prefix, REX and opcode by tables of its own.  So each
opcode the assembler uses is shown to be one the decoder gives the same form
(`OneByteForms`, `TwoByteForms`); then a literal is read from the field, whatever
is in it (`MemoryRead`, `DecodeLiteral`, `EmitLeads`), for each scheme, each
instruction and at last for all (`EncodeLeads`).  It fails for a shift by a constant
of more than a byte in memory that a symbol names: `EncodeMI8` writes one byte and
lets the relocation count the size of the operand.  This is `NoShiftOfLiteral`, a
condition on the module and not on the run.

The other half is the linker.  `LinkInv` is inductive on top of `SpanInv`.
`CodePlaced`: the bytes of an instruction with a relocation are those it was emitted
with, but for the four of the field, and the relocation waits in the list or
the field holds what it resolves to.  `RelocsOwned`: whatever waits lies in one
item, and in an instruction it is the one the instruction was emitted with, so a
relocation never writes into the field of another (`LinkRelocate`), and
the patches of a unit's jumps, which `FieldsApart` keeps within jumps, touch
none (`CodeFinishUnit`).  `Started`: the chunk of a finished unit has a start, which does not
change while relocations are applied, so what is written early agrees with what is written
last.  In the end nothing waits and every unit has a chunk, and `Resolved` is the
distance from the end of the instruction to what was meant (`ReferenceLands`).

TLC checked `TypeInv`, `SpanInv` and `LinkInv` on the modules of the run `assembly` before
they were proved; all of those modules satisfy the hypotheses `NoneWraps`,
`NoShiftOfLiteral` and `WithinReach`.  The assumptions on the constants are `ModulesAssumption` (each
symbol once, every label set before an instruction and no more labels than
instructions, every item an overload of `AsmEmitter` with operands it accepts, every
symbol known) and `LoadAssumption` (a page is not empty).  The theorems are about more
than the run: the encodings that do not read back are items too, since only their
size and the place of their relocation matter here.

`OrderedSet_proofs` proves of the container, for every number of elements and
every order of insertions:

| theorem | establishes |
|---|---|
| `LastIsFound` | `BackIsLast`: until a block is moved the last slot names the last element |
| `EverythingInPlace` | `InPlace`: what is appended stays in order and is found by its id; copies come right before the instruction they were made for, in the order they were made; the block that is moved becomes the last and keeps its id |

By itself `BackIsLast` is not inductive: an insertion before the last element
takes the free slot if there is one, and records the iterator before the end.
`Inv` adds that until a block is moved no slot is free, so that indices are given in
order and a new slot is the last; `Open` adds that every slot names an element of the
list, so that the element inserted before is found, what is inserted comes before
another, and the last stays in place.  `Arranged` describes the whole list by
positions: each element once, what is appended in order and in a slot of its own,
and after a copy only later copies for the same instruction up to that
instruction (`Follow`).  The last element is never a copy, which is why the slot
that `last()` reads, although a copy's own, leads to the right one.  A function has no
copies, so its list is `1 .. n` when `build()` moves a block; the slot that is freed
is the one that is taken, and its index cannot be the number of elements that are
left, since the last block is not moved.

Only model-checked: termination, which is liveness under fairness; what the scan
does with its pools (`FreeMeansFree`, `TempsDoNoHarm`, `DiesOnlyUnderPressure`),
which is false beyond the edge described above; the lowered code; the emitters, whose machine needs bitwise
operators that are defined recursively; and that operation, size and registers of every
instruction are read back (`DecodesBack`), which does not hold of every overload: the run
names those it leaves out.

## What is not modelled

`PROJECT.json` lists every component with its status.  Not modelled: the verifier,
which has no state; the analysis cache, whose results are passed on directly; ELF
output through the vendored ELFIO; printing; and the tests.

Within the modelled parts: arguments on the stack and by value in the allocator
(they have an address before allocation and take no register) and the pool of
xmm registers; in lowering, by-value arguments of the function itself, more
arguments than registers, globals that are not 8 bytes, objects that are no
multiple of 8 bytes, floating-point constants, `Switch` and `IVCall`, whose
visitors end the process; the tables from names to symbols and slots; the
layout of structs, whose offsets the lowering takes as given; and the system
calls that map the code.

## Plan

1. Theorems: `FreeMeansFree` within the edge under "Allocation"; `DecodesBack` for
   the overloads the run has; `DefinedBeforeRead` for every function.
2. `Verifier`, and that a verified function satisfies what `Lowering` assumes;
   `StructType` with its offsets.
3. Floating-point values and arguments on the stack in `LinearScan`.
