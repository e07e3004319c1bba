------------------------------ MODULE Assembler -------------------------------
(***************************************************************************)
(* From instructions and slots to bytes that can run: Assembler.h with its *)
(* labels, AssembleSlot.h, the dry run of SizeEvaluator.h that decides how *)
(* much memory is mapped, the linkage table of JitModule.cpp and the       *)
(* relocations of RelocResolver.h.  One instruction, one leaf of a slot or *)
(* one relocation per step.                                                *)
(*                                                                         *)
(* A unit is a function or a slot: [sym, items, labels]; labels[l] is the  *)
(* index, from 0, of the instruction label l was set before.  The leaves   *)
(* of nested slots are in the order emit_internal() visits them.           *)
(***************************************************************************)
EXTENDS Instructions, FiniteSetsExt

CONSTANTS
  Modules,       \* set of [slots, functions: sequences of units, externals: sequence of symbols]
  PageSize,      \* the linkage table takes whole pages
  CodeAddress    \* where mmap puts the code

IsJump(i) == "op" \in DOMAIN i /\ i.op \in {"jmp", "jcc"}
IsLeaf(i) == "leaf" \in DOMAIN i

IsLeafOfSlot(leaf) ==
  \/ leaf.leaf = "constant" /\ leaf.v \in Int /\ leaf.size \in {1, 2, 4, 8}
  \/ leaf.leaf = "string" /\ leaf.chars \in Seq(0..255)
  \/ leaf.leaf = "zero" /\ leaf.size \in Nat
  \/ leaf.leaf = "pointer"

IsItem(i, labels) ==
  IF IsJump(i)
  THEN /\ i.dst.k = "label" /\ i.dst.label \in DOMAIN labels /\ i.src = None /\ i.size = 8
       /\ i.arg \in IF i.op = "jcc" THEN 0..15 ELSE {0}
  ELSE IsInstruction(i)

UnitsOf(m) == m.slots \o m.functions

(* What an operand refers to is defined, or else the relocation is not     *)
(* found and the process ends.                                             *)
Refers(m, o) ==
  o.k \in {"literal", "symbol"} =>
    IF o.sym.bind = "external" THEN o.sym \in Range(m.externals)
    ELSE \E n \in DOMAIN UnitsOf(m) : UnitsOf(m)[n].sym = o.sym

(* A module as AsmModule holds it: sequences of units, each symbol once,   *)
(* every label set before an instruction (set_label; Assembler.h:58 dies   *)
(* on others), every symbol known.  There are no more labels than          *)
(* instructions: the lists of gaps are as many as the instructions         *)
(* (Assembler.h:31) and are read by label, past the end if there are more. *)
ModulesAssumption ==
  \A m \in Modules :
    /\ m.externals \in Seq(Range(m.externals))
    /\ m.slots \in Seq(Range(m.slots)) /\ m.functions \in Seq(Range(m.functions))
    /\ \A j, k \in DOMAIN UnitsOf(m) : j # k => UnitsOf(m)[j].sym # UnitsOf(m)[k].sym
    /\ \A u \in Range(m.slots) :
          /\ u.items \in Seq(Range(u.items))
          /\ \A i \in Range(u.items) : ~IsJump(i) /\ IsLeaf(i) /\ IsLeafOfSlot(i)
    /\ \A u \in Range(m.functions) :
          /\ u.items \in Seq(Range(u.items))
          /\ DOMAIN u.labels \subseteq 1..Len(u.items)
          /\ \A l \in DOMAIN u.labels : u.labels[l] \in 0..(Len(u.items) - 1)
          /\ \A i \in Range(u.items) :
                ~IsLeaf(i) /\ IsItem(i, u.labels) /\ Refers(m, i.src) /\ Refers(m, i.dst)
ASSUME ModulesAssumption

LoadAssumption == PageSize \in Nat \ {0} /\ CodeAddress \in Int
ASSUME LoadAssumption

VARIABLES
  module,        \* the module that is assembled
  phase,         \* "size", "emit", "relocate", "done"
  unit,          \* units that are finished in this phase
  buffer,        \* bytes: of one unit in the dry run, of all in the emission
  offsets,       \* offsets_from_start: where each instruction of the unit starts
  gaps,          \* unresolved_labels: <<label, position after the field to patch>>
  relocs,        \* relocations still to be applied
  chunks,        \* offset_table: symbol -> [start, size], with the offsets of its instructions
  measured       \* the size the dry run found

vars == <<module, phase, unit, buffer, offsets, gaps, relocs, chunks, measured>>

\* The hash maps of a module are listed in any order: a module of Modules fixes one.
Units == IF phase = "size" THEN module.functions \o module.slots ELSE module.slots \o module.functions

Unit == Units[unit + 1]
At   == Len(offsets)                         \* items of the unit that are emitted
Item == Unit.items[At + 1]
UnitOpen == phase \in {"size", "emit"} /\ unit < Len(Units)

-------------------------------------------------------------------------------
Init ==
  /\ module \in Modules
  /\ phase = "size"
  /\ unit = 0 /\ measured = 0
  /\ buffer = <<>> /\ offsets = <<>> /\ gaps = {} /\ relocs = <<>>
  /\ chunks = <<>>

\* Positions in a relocation are positions in the buffer.
Moved(rs, by) == [k \in 1..Len(rs) |-> [rs[k] EXCEPT !.offset = @ + by, !.disp = @ + by]]

Put(e) ==
  /\ buffer' = buffer \o e.bytes
  /\ relocs' = IF phase = "size" THEN relocs ELSE relocs \o Moved(e.relocs, Len(buffer))
  /\ offsets' = Append(offsets, Len(buffer))
  /\ UNCHANGED <<module, phase, unit, chunks, measured>>

EmitInstruction ==
  /\ UnitOpen /\ At < Len(Unit.items) /\ ~IsJump(Item) /\ ~IsLeaf(Item)
  /\ Put(Encode(Item))
  /\ UNCHANGED gaps

-------------------------------------------------------------------------------
(* Jumps.  A label whose instruction has an offset already, the jump       *)
(* itself included, is behind; any other is patched at the end.            *)

LabelIndex(label) == Unit.labels[label]

Behind(label) == LabelIndex(label) <= At

\* A gap is known by the position after it.
GapAt(code) == Len(buffer) + Len(code)

JumpBytes(i, behind, distance) ==
  IF behind THEN IF i.op = "jmp" THEN Jmp(distance) ELSE Jcc(i.arg, distance)
  ELSE IF i.op = "jmp" THEN UnresolvedJmp ELSE UnresolvedJcc(i.arg)

EmitJump ==
  LET label  == Item.dst.label
      target == Append(offsets, Len(buffer))[LabelIndex(label) + 1]
      code   == JumpBytes(Item, Behind(label), target - Len(buffer))
  IN  /\ UnitOpen /\ At < Len(Unit.items) /\ IsJump(Item)
      /\ Put(Plain(code))
      /\ gaps' = IF Behind(label) THEN gaps ELSE gaps \cup {<<label, GapAt(code)>>}

-------------------------------------------------------------------------------
(* Slots.                                                                  *)

AlignUp(v, a) == ((v + a - 1) \div a) * a

Zeros(n) == [k \in 1..n |-> 0]

\* Variant: strings are padded to 16 bytes.
StringBytesWide(chars, start) ==
  LET total == start + Len(chars) + 2
  IN  chars \o <<0>> \o Zeros(AlignUp(total, 16) - total)

\* The padding is computed for one byte more than was emitted, at the position the buffer has.
StringBytes(chars, start) ==
  LET total == start + Len(chars) + 2
  IN  chars \o <<0>> \o Zeros(AlignUp(total, 8) - total)

LeafBytes(leaf, start) ==
  CASE leaf.leaf = "constant" -> Plain(LittleEndian(leaf.v, leaf.size))
    [] leaf.leaf = "string"   -> Plain(StringBytes(leaf.chars, start))
    [] leaf.leaf = "zero"     -> Plain(Zeros(leaf.size))
    [] leaf.leaf = "pointer"  ->
         [bytes  |-> [k \in 1..8 |-> \hFF],
          relocs |-> <<[type |-> "GLOB_DAT", offset |-> 0, disp |-> 8, sym |-> leaf.sym]>>]

EmitLeaf ==
  /\ UnitOpen /\ At < Len(Unit.items) /\ IsLeaf(Item)
  /\ Put(LeafBytes(Item, Len(buffer)))
  /\ UNCHANGED gaps

-------------------------------------------------------------------------------
(* The end of a unit: forward jumps are patched, the chunk is recorded; in *)
(* the dry run only its size is kept.                                      *)

Patch(bytes, at, field) ==
  [k \in 1..Len(bytes) |-> IF k - at \in 1..Len(field) THEN field[k - at] ELSE bytes[k]]

\* Variant: the distance counts from the field, not from its end.
PatchGapFromField(gap, bytes) ==
  Patch(bytes, gap[2] - 4, LittleEndian(offsets[LabelIndex(gap[1]) + 1] - gap[2] + 4, 4))

PatchGap(gap, bytes) ==
  Patch(bytes, gap[2] - 4, LittleEndian(offsets[LabelIndex(gap[1]) + 1] - gap[2], 4))

ResolveAndPatch == FoldSet(PatchGap, buffer, gaps)

StartOfUnit == IF offsets = <<>> THEN Len(buffer) ELSE offsets[1]

FinishUnit ==
  /\ UnitOpen /\ At = Len(Unit.items)
  /\ unit' = unit + 1 /\ offsets' = <<>> /\ gaps' = {}
  /\ IF phase = "size"
     THEN /\ measured' = measured + Len(buffer)
          /\ buffer' = <<>>
          /\ UNCHANGED chunks
     ELSE /\ buffer' = ResolveAndPatch
          /\ chunks' = [s \in DOMAIN chunks \cup {Unit.sym} |->
                          IF s = Unit.sym
                          THEN [start |-> StartOfUnit, size |-> Len(buffer) - StartOfUnit, offsets |-> offsets]
                          ELSE chunks[s]]
          /\ UNCHANGED measured
  /\ UNCHANGED <<module, phase, relocs>>

\* The memory of the size found is mapped, after the linkage table.
StartEmission ==
  /\ phase = "size" /\ unit = Len(Units)
  /\ phase' = "emit" /\ unit' = 0
  /\ UNCHANGED <<module, buffer, offsets, gaps, relocs, chunks, measured>>

StartRelocation ==
  /\ phase = "emit" /\ unit = Len(Units)
  /\ phase' = "relocate"
  /\ UNCHANGED <<module, unit, buffer, offsets, gaps, relocs, chunks, measured>>

-------------------------------------------------------------------------------
(* Relocations.  Positions are relative to the code: the linkage table is  *)
(* before it.                                                              *)

PltSize     == AlignUp(8 * Len(module.externals), PageSize)
PltEntry(s) == 8 * ((CHOOSE k \in 1..Len(module.externals) : module.externals[k] = s) - 1)

Patched(r) ==
  CASE r.type = "PC32"     -> Patch(buffer, r.offset, LittleEndian(chunks[r.sym].start - r.disp, 4))
    [] r.type = "PLT32"    -> Patch(buffer, r.offset, LittleEndian(PltEntry(r.sym) - PltSize - r.disp, 4))
    [] r.type = "GLOB_DAT" -> Patch(buffer, r.offset, LittleEndian(CodeAddress + r.disp, 8))

Relocate ==
  /\ phase = "relocate" /\ relocs # <<>>
  /\ buffer' = Patched(Head(relocs))
  /\ relocs' = Tail(relocs)
  /\ UNCHANGED <<module, phase, unit, offsets, gaps, chunks, measured>>

Finish ==
  /\ phase = "relocate" /\ relocs = <<>>
  /\ phase' = "done"
  /\ UNCHANGED <<module, unit, buffer, offsets, gaps, relocs, chunks, measured>>

Next ==
  EmitInstruction \/ EmitJump \/ EmitLeaf \/ FinishUnit \/ StartEmission \/ StartRelocation \/ Relocate \/ Finish

Spec == Init /\ [][Next]_vars

-------------------------------------------------------------------------------
(* What the program must satisfy: the processor reads back what was asked  *)
(* for.                                                                    *)
P == INSTANCE Decoder

Loaded == phase = "done"

Functions == {module.functions[n] : n \in 1..Len(module.functions)}

StartOf(f, k) == chunks[f.sym].offsets[k]
EndOf(f, k) ==
  IF k = Len(f.items) THEN chunks[f.sym].start + chunks[f.sym].size ELSE StartOf(f, k + 1)

ReadBack(f, k) == P!Decode(buffer, StartOf(f, k) + 1).instruction

IsReference(o) == o.k \in {"literal", "label", "symbol"}

Agrees(operand, read) == IF IsReference(operand) THEN read.k = "rip" ELSE read = operand

(* A processor that runs a function from its first byte reads exactly the  *)
(* instructions it was built from: same operation, size, condition and     *)
(* operands, each ending where the next one starts.                        *)
DecodesBack ==
  Loaded =>
    \A f \in Functions : \A k \in 1..Len(f.items) :
      LET i == f.items[k]
          d == P!Decode(buffer, StartOf(f, k) + 1)
      IN  /\ d.len = EndOf(f, k) - StartOf(f, k)
          /\ d.instruction.op = i.op /\ d.instruction.size = i.size /\ d.instruction.arg = i.arg
          /\ Agrees(i.src, d.instruction.src) /\ Agrees(i.dst, d.instruction.dst)

(* A jump, short or long, forward or backward, goes to the first byte of   *)
(* the instruction its label was set before.                               *)
JumpsLand ==
  Loaded =>
    \A f \in Functions : \A k \in 1..Len(f.items) :
      f.items[k].dst.k = "label" =>
        EndOf(f, k) + ReadBack(f, k).dst.disp = StartOf(f, f.labels[f.items[k].dst.label] + 1)

\* Relative to the code: a symbol of the module, or its entry of the linkage table.
PlaceOf(s) == IF s.bind = "external" THEN PltEntry(s) - PltSize ELSE chunks[s].start

PlaceMeant(o) == IF o.k = "symbol" THEN PlaceOf(o.sym) ELSE PlaceOf(o.sym) + o.disp

(* An operand that names a symbol, and a call, lead to the symbol's slot,  *)
(* function or linkage table entry, wherever the units were laid out and   *)
(* whatever follows the address in the instruction.                        *)
ReferencesLead ==
  Loaded =>
    \A f \in Functions : \A k \in 1..Len(f.items) :
      /\ f.items[k].dst.k \in {"literal", "symbol"} =>
           EndOf(f, k) + ReadBack(f, k).dst.disp = PlaceMeant(f.items[k].dst)
      /\ f.items[k].src.k = "literal" =>
           EndOf(f, k) + ReadBack(f, k).src.disp = PlaceMeant(f.items[k].src)

(* The dry run, one unit at a time from position 0, finds the size of what *)
(* is emitted one after another: no byte is written past the mapping.      *)
FitsMeasured ==
  /\ phase # "size" => Len(buffer) <= measured
  /\ Loaded => Len(buffer) = measured

=============================================================================
