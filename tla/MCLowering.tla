---------------------------- MODULE MCLowering ----------------------------
(***************************************************************************)
(* Functions for the lowering: families of straight-line code, choices,    *)
(* conversions, divisions, branches and phis, memory, calls and returns,   *)
(* and a function at least for every limit the properties name.          *)
(***************************************************************************)
EXTENDS LoweredCode

MCGpArguments  == <<"rdi", "rsi", "rdx", "rcx", "r8", "r9">>
MCXmmArguments == <<"xmm0", "xmm1", "xmm2", "xmm3">>

S1 == Signed(1)  S4 == Signed(4)  S8 == Signed(8)
U4 == Unsigned(4)  U8 == Unsigned(8)
F4 == Float(4)  F8 == Float(8)

Function(args, succ, inst, blocks) ==
    [args |-> args, succ |-> succ, inst |-> inst, code |-> blocks,
     entry |-> 1, exit |-> Len(succ)]

(* One block.                                                              *)
Straight(args, inst) ==
    Function(args, <<<<>>>>, inst, <<[n \in DOMAIN inst |-> n]>>)

Ret(o) == Return(<<o>>)

(* Two operations, the second on the first: counts in rcx, operands set    *)
(* aside, arguments in and out of their registers.                         *)
Arithmetics(ty) ==
    {Straight(<<ty, ty, ty, ty>>,
        <<Binary(f1, a, b), Binary(f2, Val(1, ty), y), Ret(Val(2, ty))>>) :
       f1 \in {"add", "sub", "xor", "shl", "shr"}, f2 \in {"sub", "shr"},
       a \in {Arg(1, ty), Cst(5, ty)}, b \in {Arg(2, ty), Arg(4, ty), Cst(3, ty)},
       y \in {Val(1, ty), Arg(4, ty), Arg(1, ty)}}

(* A choice between a value set aside and an argument, or of a flag.       *)
Selections(ty, fns) ==
    {Straight(<<ty, ty, S8>>,
        <<Compare(fn, Arg(2, ty), Arg(1, ty)), Binary("add", Arg(3, S8), Cst(1, S8)), i,
          Ret(Val(3, i.ty))>>) :
       fn \in fns,
       i \in {Select(Val(1, Flag), Val(2, S8), Arg(3, S8)),
              Select(Val(1, Flag), Arg(3, S8), Val(2, S8)),
              Select(Val(1, Flag), Cst(1, S1), Cst(0, S1)),
              Select(Val(1, Flag), Cst(0, S1), Cst(1, S1)),
              Unary("flag2int", S1, Val(1, Flag))}}

IntegerPredicates == {"eq", "ne", "gt", "ge", "lt", "le"}

Divisions(ty) ==
    {Straight(<<ty, ty, ty>>,
        <<Binary("add", Arg(1, ty), Cst(1, ty)), Binary("sub", Arg(2, ty), Cst(1, ty)),
          IntDiv(x, y), Projection(3, 0, ty), Projection(3, 1, ty),
          Binary("sub", z, Val(5, ty)), Ret(Val(6, ty))>>) :
       x \in {Arg(1, ty), Val(1, ty), Cst(9, ty)}, y \in {Arg(2, ty), Arg(3, ty), Val(2, ty)},
       z \in {Val(4, ty), Val(5, ty), Arg(3, ty)}}

ConversionsOf ==
    {Straight(<<c[2]>>, <<Unary(c[1], c[3], Arg(1, c[2])), Ret(Val(1, c[3]))>>) :
       c \in {<<"sext", S4, S8>>, <<"zext", U4, U8>>, <<"trunc", S8, S4>>, <<"int2fp", S4, F8>>,
              <<"int2fp", U8, F4>>, <<"fp2int", F8, S4>>, <<"bitcast", S8, U8>>}}

(* A branch on what was loaded, and a phi: of arguments, of values of the  *)
(* two blocks, of a value set aside, of a constant.                        *)
Diamonds(ty) ==
    {Function(<<Ptr, ty>>, <<<<2, 3>>, <<4>>, <<4>>, <<>>>>,
        <<Load(ty, Arg(1, Ptr)), Compare(fn, Val(1, ty), Arg(2, ty)), CondBranch(Val(2, Flag)),
          Binary("add", Arg(2, ty), Cst(1, ty)), Store(Arg(1, Ptr), Val(4, ty)), Branch,
          Binary("sub", Arg(2, ty), Val(1, ty)), Branch,
          Phi(ty, <<x, y>>, <<2, 3>>), Binary("xor", Val(9, ty), Arg(2, ty)), Ret(Val(10, ty))>>,
        <<<<1, 2, 3>>, <<4, 5, 6>>, <<7, 8>>, <<9, 10, 11>>>>) :
       fn \in {"lt", "ge", "eq"},
       x \in {Val(4, ty), Val(1, ty), Arg(2, ty)},
       y \in {Val(1, ty), Arg(2, ty), Cst(0, ty), Val(7, ty)}}

(* Objects passed by reference and by value, global ones, numbers of both  *)
(* kinds, what is set aside and what is loaded from an object.             *)
Calls ==
    LET forms == {Arg(2, S8), Val(4, S8), Cst(7, S8), Val(1, Ptr), Val(2, Ptr), Glb(1),
                  Val(7, S8), Arg(4, F8)}
        F(x, y, byval) ==
          Function(<<S8, S8, Ptr, F8>>, <<<<2>>, <<>>>>,
            <<Alloc(Type("GP", 16, FALSE)), GetElementPtr(8, Val(1, Ptr), Cst(1, S8)),
              Store(Val(2, Ptr), Arg(2, S8)), Binary("add", Arg(2, S8), Cst(1, S8)),
              Alloc(S8), Store(Val(5, Ptr), Arg(2, S8)), Load(S8, Val(5, Ptr)),
              Call(<<S8>>, <<x, y>>, byval),
              Binary("add", Val(8, S8), Arg(1, S8)), Ret(Val(9, S8))>>,
            <<[n \in 1 .. 8 |-> n], <<9, 10>>>>)
    IN  {F(x, y, {}) : x \in forms, y \in forms}
        \cup {F(Val(1, Ptr), y, {1}) : y \in forms} \cup {F(x, Val(1, Ptr), {2}) : x \in forms}

(* Calls of no and of two results.                                         *)
OtherCalls ==
    {Function(<<S8, F8>>, <<<<2>>, <<>>>>,
        <<Call(types, <<Arg(1, S8), Arg(2, F8)>>, {}), Projection(1, 0, types[1]), Projection(1, 1, types[2]),
          Binary("add", Val(2, types[1]), Val(2, types[1])), Store(Glb(1), Val(4, types[1])),
          Store(Glb(2), Val(3, types[2])), Return(<<>>)>>, <<<<1>>, <<2, 3, 4, 5, 6, 7>>>>) :
       types \in {<<S8, S8>>, <<S8, S4>>, <<S8, F8>>}}
    \cup
    {Function(<<S8>>, <<<<2>>, <<3>>, <<>>>>,
        <<Binary("add", Arg(1, S8), Cst(1, S8)), Store(Glb(1), Val(1, S8)),
          Call(<<>>, <<Val(1, S8)>>, {}), Call(<<>>, <<Arg(1, S8), Val(1, S8)>>, {}),
          Load(S8, Glb(1)), Ret(Val(5, S8))>>, <<<<1, 2, 3>>, <<4>>, <<5, 6>>>>)}

(* Elements and fields, of an argument, of an object, of a global.         *)
Accesses ==
    {Straight(<<Ptr, S8, ty>>,
        <<Alloc(Type("GP", 32, FALSE)), GetElementPtr(ty.size, b, x), GetFieldPtr(8, ty.size, b),
          GetElementPtr(ty.size, Val(3, Ptr), Cst(1, S8)),
          Store(Val(2, Ptr), Arg(3, ty)), Load(ty, Val(4, Ptr)), Load(ty, Val(2, Ptr)),
          Store(Val(3, Ptr), Val(6, ty)), Load(ty, Val(3, Ptr)),
          Binary("add", Val(7, ty), Val(9, ty)), Ret(Val(10, ty))>>) :
       ty \in {S8, S4, F8}, b \in {Arg(1, Ptr), Val(1, Ptr), Glb(1)}, x \in {Arg(2, S8), Cst(2, S8)}}

(* Loads and stores of one object and through one pointer, in any order,   *)
(* and what was loaded used late.                                          *)
Orders ==
    {Straight(<<Ptr, S8>>,
        <<Alloc(S8), Store(Val(1, Ptr), Arg(2, S8)), first, second, Store(p, x),
          Binary("sub", a, b), Store(q, Val(6, S8)), Ret(Val(c, S8))>>) :
       first \in {Load(S8, Arg(1, Ptr)), Load(S8, Val(1, Ptr)), Binary("add", Arg(2, S8), Cst(1, S8))},
       second \in {Load(S8, Arg(1, Ptr)), Load(S8, Val(1, Ptr)), Binary("shl", Val(3, S8), Arg(2, S8))},
       p \in {Arg(1, Ptr), Val(1, Ptr)}, x \in {Val(3, S8), Val(4, S8), Arg(2, S8)},
       a \in {Val(3, S8), Val(4, S8)}, b \in {Val(3, S8), Val(4, S8)},
       q \in {Arg(1, Ptr), Val(1, Ptr)}, c \in {4, 6}}

(* What the first block sets aside is used after a branch and a call.      *)
Crossings ==
    {Function(<<S8, S8, Ptr, S8, S8>>, <<<<2, 3>>, <<4>>, <<5>>, <<5>>, <<>>>>,
        <<Load(S8, Arg(3, Ptr)), Binary("sub", x, y), Compare("gt", Arg(1, S8), Val(1, S8)),
          CondBranch(Val(3, Flag)), Call(<<S8>>, <<z, Cst(2, S8)>>, {}), Branch,
          Store(Arg(3, Ptr), Val(5, S8)), Branch,
          Binary("add", Val(2, S8), Val(1, S8)), Ret(Val(9, S8))>>,
        <<<<1, 2, 3, 4>>, <<5>>, <<6>>, <<7, 8>>, <<9, 10>>>>) :
       x \in {Arg(1, S8), Arg(4, S8), Val(1, S8), Cst(1, S8)},
       y \in {Arg(2, S8), Arg(5, S8), Val(1, S8)}, z \in {Arg(5, S8), Val(1, S8), Val(2, S8)}}

(* A count kept in an object.                                              *)
Counting ==
    Function(<<S8>>, <<<<2>>, <<3, 4>>, <<2>>, <<>>>>,
        <<Alloc(S8), Store(Val(1, Ptr), Cst(0, S8)), Branch,
          Load(S8, Val(1, Ptr)), Compare("lt", Val(4, S8), Arg(1, S8)), CondBranch(Val(5, Flag)),
          Load(S8, Val(1, Ptr)), Binary("add", Val(7, S8), Cst(1, S8)),
          Store(Val(1, Ptr), Val(8, S8)), Branch,
          Load(S8, Val(1, Ptr)), Ret(Val(11, S8))>>,
        <<<<1, 2, 3>>, <<4, 5, 6>>, <<7, 8, 9, 10>>, <<11, 12>>>>)

Returns ==
    {Straight(<<S8, F8, F8>>, <<Binary("add", Arg(1, S8), Cst(1, S8)), Alloc(S8),
                                GetElementPtr(8, Val(2, Ptr), Cst(0, S8)), Return(values)>>) :
       values \in {<<>>, <<Arg(1, S8), Val(1, S8)>>, <<Arg(2, F8)>>, <<Arg(3, F8), Val(1, S8)>>,
                   <<Glb(1)>>, <<Val(3, Ptr), Cst(1, S8)>>, <<Arg(3, F8), Arg(2, F8)>>}}

(* An address of its own.                                                  *)
Addresses ==
    {Straight(<<Ptr, S8>>,
        <<Alloc(Type("GP", 32, FALSE)), GetElementPtr(size, b, Cst(1, S8)), i, j, Ret(Val(4, S8))>>) :
       size \in {8, 4}, b \in {Val(1, Ptr), Arg(1, Ptr), Glb(1)},
       i \in {GetElementPtr(8, Val(2, Ptr), Arg(2, S8))}, j \in {Load(S8, Val(3, Ptr))}}
    \cup
    {Straight(<<Ptr, S8>>, <<Alloc(S8), a, Unary("ptr2int", S8, Val(2, Ptr)), Ret(Val(3, S8))>>) :
       a \in {GetElementPtr(8, Val(1, Ptr), Cst(1, S8)), GetFieldPtr(8, 8, Val(1, Ptr)),
              Load(Ptr, Arg(1, Ptr))}}
    \cup
    {Straight(<<Ptr>>, <<Load(Ptr, Arg(1, Ptr)), Load(S8, Val(1, Ptr)), Ret(Val(2, S8))>>),
     Straight(<<Ptr>>, <<Load(Ptr, Arg(1, Ptr)), Store(Val(1, Ptr), Cst(1, S8)), Return(<<>>)>>)}

(***************************************************************************)
(* The limits, one by one.                                                 *)
(***************************************************************************)
Limits ==
    {Straight(<<S8, S8>>,        \* SharedComparison
        <<Compare("lt", Arg(1, S8), Arg(2, S8)), Select(Val(1, Flag), Arg(1, S8), Arg(2, S8)),
          Binary("add", Val(2, S8), Cst(1, S8)), Select(Val(1, Flag), Val(3, S8), Arg(1, S8)),
          Ret(Val(4, S8))>>),
     Straight(<<S8>>,            \* WideFlag
        <<Compare("lt", Arg(1, S8), Cst(1, S8)), Unary("flag2int", S8, Val(1, Flag)),
          Ret(Val(2, S8))>>),
     Straight(<<Ptr>>,           \* AddressAsOperand
        <<Alloc(S8), Store(Arg(1, Ptr), Val(1, Ptr)), Return(<<>>)>>),
     Straight(<<Ptr>>,           \* UnevenOffset
        <<GetFieldPtr(4, 8, Arg(1, Ptr)), Load(S8, Val(1, Ptr)), Ret(Val(2, S8))>>),
     Straight(<<S8>>,            \* LoadOutlived
        <<Alloc(S8), Store(Val(1, Ptr), Arg(1, S8)), Load(S8, Val(1, Ptr)),
          Binary("add", Val(3, S8), Cst(1, S8)), Store(Val(1, Ptr), Cst(2, S8)),
          Ret(Val(4, S8))>>),
     Function(<<S8, S8, S8>>, <<<<2>>, <<2, 3>>, <<>>>>,      \* PhiOverwritten
        <<Branch, Phi(S8, <<Arg(1, S8), Arg(2, S8)>>, <<1, 2>>),
          Compare("lt", Arg(2, S8), Arg(3, S8)), CondBranch(Val(3, Flag)), Ret(Val(2, S8))>>,
        <<<<1>>, <<2, 3, 4>>, <<5>>>>),
     Function(<<S8, S8, S8>>, <<<<2>>, <<2, 3>>, <<>>>>,      \* PhiOverwritten
        <<Branch, Phi(S8, <<Arg(1, S8), Arg(2, S8)>>, <<1, 2>>),
          Phi(S8, <<Arg(3, S8), Val(2, S8)>>, <<1, 2>>),
          Compare("lt", Val(3, S8), Arg(3, S8)), CondBranch(Val(4, Flag)), Return(<<>>)>>,
        <<<<1>>, <<2, 3, 4, 5>>, <<6>>>>),
     Function(<<S8>>, <<<<2>>, <<>>>>,                        \* PhiApart
        <<Call(<<S8>>, <<Arg(1, S8)>>, {}), Phi(S8, <<Arg(1, S8)>>, <<1>>), Ret(Val(2, S8))>>,
        <<<<1>>, <<2, 3>>>>),
     Function(<<S8>>, <<<<2, 3>>, <<3>>, <<>>>>,              \* ContinuationShared
        <<Compare("lt", Arg(1, S8), Cst(1, S8)), CondBranch(Val(1, Flag)),
          Call(<<S8>>, <<Arg(1, S8)>>, {}), Return(<<>>)>>, <<<<1, 2>>, <<3>>, <<4>>>>),
     Function(<<S8>>, <<<<2>>, <<>>>>,                        \* ArgumentOverwritten
        <<Binary("add", Arg(1, S8), Cst(1, S8)), Call(<<S8>>, <<Cst(5, S8), Val(1, S8)>>, {}),
          Ret(Val(2, S8))>>, <<<<1, 2>>, <<3>>>>),
     Function(<<F8, Ptr>>, <<<<2>>, <<>>>>,                   \* FloatReturned
        <<Binary("add", Arg(1, F8), Arg(1, F8)), Store(Arg(2, Ptr), Val(1, F8)),
          Call(<<>>, <<>>, {}), Ret(Val(1, F8))>>, <<<<1, 2, 3>>, <<4>>>>),
     Function(<<S8, S8>>, <<<<2, 4>>, <<3>>, <<4>>, <<>>>>,   \* InputTooLate
        <<Compare("lt", Arg(1, S8), Arg(2, S8)), CondBranch(Val(1, Flag)), Branch,
          Binary("add", Arg(1, S8), Cst(1, S8)), Store(Glb(1), Val(4, S8)), Branch,
          Phi(S8, <<Val(4, S8), Arg(1, S8)>>, <<3, 1>>), Ret(Val(7, S8))>>,
        <<<<1, 2>>, <<3>>, <<4, 5, 6>>, <<7, 8>>>>)}

MCFunctions ==
    Arithmetics(S4) \cup Arithmetics(U8)
    \cup Selections(S4, IntegerPredicates) \cup Selections(U8, IntegerPredicates)
    \cup Selections(F8, {"ueq", "one", "ogt", "oge", "ult", "ule", "oeq"})
    \cup Divisions(S4) \cup Divisions(U8) \cup ConversionsOf
    \cup Diamonds(S4) \cup Diamonds(U8)
    \cup Calls \cup OtherCalls \cup Accesses \cup Orders \cup Crossings \cup {Counting} \cup Returns \cup Addresses
    \cup Limits

ASSUME WellFormed ==
    \A m \in MCFunctions :
       /\ IsFunctionGraph(m)
       /\ Insts(m) = UNION {Range(m.code[b]) : b \in Blocks(m)}
       /\ \A v \in Insts(m) : \A k \in DOMAIN m.inst[v].on :
             LET o == m.inst[v].on[k]
                 (* A projection has the type of its part.                 *)
                 typed == m.inst[v].op = "proj" \/ o.ty = m.inst[o.id].ty
             IN  CASE o.is = "val" -> o.id \in Insts(m) /\ IsValue(m.inst[o.id]) /\ typed
                   [] o.is = "arg" -> o.ty = m.args[o.id]
                   [] OTHER -> TRUE
       /\ \A b \in Blocks(m) : IsTerminator(m.inst[Last(m.code[b])])
=============================================================================
