---------------------------- MODULE MIRFunction ----------------------------
(***************************************************************************)
(* Functions of the middle representation, as FunctionBuilder makes them,  *)
(* and what they mean.  A function is a record                             *)
(*   succ, entry, exit   its graph (FlowGraph)                             *)
(*   args   the types of its arguments                                     *)
(*   inst   its instructions; a value is the index of its instruction      *)
(*   code   block -> the instructions in it, in order                      *)
(* A type is [class, size, signed]; an operand carries its type.           *)
(*                                                                         *)
(* Meanings are terms: an argument, a constant, an operation on terms, an  *)
(* address <<"addr", base, bytes, indices>>.  The effects of a run are     *)
(* what it stores, passes to calls, branches on and returns.               *)
(***************************************************************************)
EXTENDS FlowGraph, TLC

Type(class, size, signed) == [class |-> class, size |-> size, signed |-> signed]
Signed(size)   == Type("GP", size, TRUE)
Unsigned(size) == Type("GP", size, FALSE)
Float(size)    == Type("FP", size, TRUE)
Ptr  == Type("GP", 8, FALSE)
Flag == Type("flag", 1, FALSE)

Cst(n, ty) == [is |-> "cst", id |-> n, ty |-> ty]
Arg(i, ty) == [is |-> "arg", id |-> i, ty |-> ty]
Val(v, ty) == [is |-> "val", id |-> v, ty |-> ty]
Glb(n)     == [is |-> "glb", id |-> n, ty |-> Ptr]

(***************************************************************************)
(* Instructions: the class, the operation, the type of the value, the      *)
(* operands.  "with" is what only some classes have.                       *)
(***************************************************************************)
Make(op, fn, ty, on, with) == [op |-> op, fn |-> fn, ty |-> ty, on |-> on, with |-> with]

Binary(fn, a, b)   == Make("binary", fn, a.ty, <<a, b>>, <<>>)
Unary(fn, ty, a)   == Make("unary", fn, ty, <<a>>, <<>>)
Compare(fn, a, b)  == Make("cmp", fn, Flag, <<a, b>>, <<>>)
Select(c, t, f)    == Make("select", "select", t.ty, <<c, t, f>>, <<>>)
IntDiv(a, b)       == Make("div", "div", a.ty, <<a, b>>, <<>>)
Projection(v, idx, ty) == Make("proj", "proj", ty, <<Val(v, ty)>>, <<idx>>)
Phi(ty, values, targets) == Make("phi", "phi", ty, values, targets)
Alloc(ty)          == Make("alloc", "alloc", Ptr, <<>>, <<ty>>)
Load(ty, p)        == Unary("load", ty, p)
Store(p, v)        == Make("store", "store", v.ty, <<p, v>>, <<>>)
GetElementPtr(size, p, i)       == Make("gep", "gep", Ptr, <<p, i>>, <<size>>)
GetFieldPtr(offset, size, p)    == Make("gfp", "gfp", Ptr, <<p>>, <<size, offset>>)
Branch             == Make("br", "br", Flag, <<>>, <<>>)
CondBranch(c)      == Make("condbr", "condbr", Flag, <<c>>, <<>>)
Return(values)     == Make("ret", "ret", Flag, values, <<>>)
(* returns: the types of what it returns; byval: the arguments that are    *)
(* objects passed by value.                                                *)
Call(returns, args, byval) ==
    Make("call", "call", IF returns = <<>> THEN Flag ELSE returns[1], args, <<returns, byval>>)

(***************************************************************************)
(* Uses.  A value used twice by one instruction has two users.             *)
(***************************************************************************)
Insts(m) == DOMAIN m.inst

Uses(m, v) == {u \in UNION {{i} \X DOMAIN m.inst[i].on : i \in Insts(m)} :
                 LET o == m.inst[u[1]].on[u[2]] IN o.is = "val" /\ o.id = v}

Users(m, v) == {u[1] : u \in Uses(m, v)}

ArgUsers(m, i) == {u \in Insts(m) : \E k \in DOMAIN m.inst[u].on :
                     m.inst[u].on[k].is = "arg" /\ m.inst[u].on[k].id = i}

Owner(m, v) == CHOOSE b \in Blocks(m) : v \in Range(m.code[b])

IsCall(i)       == i.op = "call"
IsTerminator(i) == i.op \in {"br", "condbr", "ret", "call"}
IsLoad(i)       == i.op = "unary" /\ i.fn = "load"
IsFieldAccess(i) == i.op \in {"gep", "gfp"}
(* ValueInstruction: a call that returns nothing is none.                  *)
IsValue(i) == /\ i.op \notin {"store", "br", "condbr", "ret"}
              /\ ~(IsCall(i) /\ i.with[1] = <<>>)

OperandInst(m, o) == m.inst[o.id]
IsOf(m, o, op) == o.is = "val" /\ OperandInst(m, o).op = op
IsField(m, o)  == o.is = "val" /\ IsFieldAccess(OperandInst(m, o))
(* value_semantic(): the object itself, no pointer to it.                  *)
ValueSemantic(m, o) == o.is = "glb" \/ IsOf(m, o, "alloc")

ProjectionOf(m, v, idx) ==
    CHOOSE p \in Users(m, v) : m.inst[p].op = "proj" /\ m.inst[p].with = <<idx>>

(***************************************************************************)
(* Meaning.                                                                *)
(***************************************************************************)
Address(base, bytes, indices) == <<"addr", base, bytes, indices>>

AsAddress(t) == IF t[1] = "addr" THEN t ELSE Address(<<"at", t>>, 0, <<>>)

Bytes(t, n) == LET a == AsAddress(t) IN Address(a[2], a[3] + n, a[4])

(* The element t of an array of elements of the size.                      *)
Element(p, t, size) ==
    IF t[1] = "cst" THEN Bytes(p, t[2] * size)
    ELSE LET a == AsAddress(p) IN Address(a[2], a[3], Append(a[4], <<t, size>>))

(* A state: env, the values; mem, what was stored; calls, how many; done,  *)
(* the effects.                                                            *)
Meaning(s, o) ==
    CASE o.is = "cst" -> <<"cst", o.id>>
      [] o.is = "arg" -> <<"arg", o.id>>
      [] o.is = "glb" -> Address(<<"glb", o.id>>, 0, <<>>)
      [] OTHER -> s.env[o.id]

Meanings(s, on) == [k \in DOMAIN on |-> Meaning(s, on[k])]

MemoryAt(s, p) ==
    LET cell == AsAddress(p) IN IF cell \in DOMAIN s.mem THEN s.mem[cell] ELSE <<"initially", cell>>

Define(s, v, t) == [s EXCEPT !.env = (v :> t) @@ @]

Effect(s, e) == [s EXCEPT !.done = Append(@, e)]

(* What a callee does to the objects whose addresses it was passed.        *)
Touched(s, terms) ==
    LET bases == {terms[k][2] : k \in {j \in DOMAIN terms : terms[j][1] = "addr"}}
    IN  [cell \in DOMAIN s.mem |->
           IF cell[2] \in bases THEN <<"left", s.calls, cell>> ELSE s.mem[cell]]

(* What is passed for an object by value: its contents.                    *)
Contents(s, p, size) ==
    <<"object", [n \in 0 .. (size - 1) \div 8 |-> MemoryAt(s, Bytes(p, 8 * n))]>>

Passed(m, s, i) ==
    [k \in DOMAIN i.on |->
       IF k \in i.with[2] THEN Contents(s, Meaning(s, i.on[k]),
                                        OperandInst(m, i.on[k]).with[1].size)
       ELSE Meaning(s, i.on[k])]

(* Operations of which the sign of the operands makes another.             *)
OfSigns == {"shr", "div", "int2fp", "gt", "ge", "lt", "le"}

Operation(i) == <<i.fn, i.fn \in OfSigns => i.on[1].ty.signed>>

Negation == [eq |-> "ne", ne |-> "eq", gt |-> "le", le |-> "gt", lt |-> "ge", ge |-> "lt",
             ueq |-> "one", one |-> "ueq", oeq |-> "une", une |-> "oeq", ogt |-> "ule",
             ule |-> "ogt", oge |-> "ult", ult |-> "oge", ugt |-> "ole", ole |-> "ugt",
             uge |-> "olt", olt |-> "uge"]

(* A choice between 1 and 0 is the flag as a number, 0 and 1 its negation. *)
Choice(c, t, f) ==
    IF t = <<"cst", 0>> /\ f = <<"cst", 1>> /\ c[1] \in DOMAIN Negation
    THEN <<"choice", [c EXCEPT ![1] = Negation[@]], <<"cst", 1>>, <<"cst", 0>>>>
    ELSE <<"choice", c, t, f>>

(* The value of an instruction that has one and no effect.                 *)
ValueOf(s, i, t) ==
    CASE i.op \in {"binary", "div", "cmp"} -> Operation(i) \o <<i.on[1].ty.size>> \o t
      [] i.op = "select" -> Choice(t[1], t[2], t[3])
      [] IsLoad(i) -> MemoryAt(s, t[1])
      [] i.fn = "flag2int" -> Choice(t[1], <<"cst", 1>>, <<"cst", 0>>)
      [] i.fn \in {"bitcast", "ptr2int", "int2ptr"} -> t[1]
      [] i.op = "unary" -> Operation(i) \o <<i.ty.size, i.on[1].ty.size>> \o t
      [] i.op = "proj" -> <<"part", i.with[1], t[1]>>
      [] i.op = "gep" -> Element(t[1], t[2], i.with[1])
      [] i.op = "gfp" -> Bytes(t[1], i.with[2])

(* One instruction of a block, that is no phi.                             *)
Execute(m, s, v) ==
    LET i == m.inst[v]
        t == Meanings(s, i.on)
    IN  CASE i.op = "alloc" -> Define(s, v, Address(<<"slot", v>>, 0, <<>>))
          [] i.op = "store" ->
               Effect([s EXCEPT !.mem = (AsAddress(t[1]) :> t[2]) @@ @],
                      <<"store", AsAddress(t[1]), t[2]>>)
          [] i.op = "call" ->
               LET passed == Passed(m, s, i) IN
               [Effect(Define(s, v, <<"result", s.calls>>), <<"call", passed>>)
                  EXCEPT !.calls = @ + 1, !.mem = Touched(s, passed)]
          [] i.op = "condbr" -> Effect(s, <<"branch", t[1]>>)
          [] i.op = "ret" -> Effect(s, <<"return", t>>)
          [] i.op = "br" -> s
          [] OTHER -> Define(s, v, ValueOf(s, i, t))

(* All phis of a block read what comes in over the edge, then change.      *)
EnterBlock(m, s, b, from) ==
    LET phis == {v \in Range(m.code[b]) : m.inst[v].op = "phi"}
        incoming(v) == m.inst[v].on[CHOOSE k \in DOMAIN m.inst[v].on :
                                      m.inst[v].with[k] = from]
    IN  [s EXCEPT !.env = [v \in phis |-> Meaning(s, incoming(v))] @@ @]

ExecuteBlock(m, s, b, from) ==
    FoldLeft(LAMBDA st, v : Execute(m, st, v), EnterBlock(m, s, b, from),
             SelectSeq(m.code[b], LAMBDA v : m.inst[v].op # "phi"))

InitialMeaning == [env |-> <<>>, mem |-> <<>>, calls |-> 0, done |-> <<>>]
=============================================================================
