---------------------------- MODULE MCCallFrame ----------------------------
(***************************************************************************)
(* Functions of three or four blocks, all but the last of which call,      *)
(* created in the order they run or not.  Two general and three xmm        *)
(* registers pass arguments, so that three or four arguments reach the     *)
(* stack.                                                                  *)
(***************************************************************************)
EXTENDS CallFrame

MCGpOrder == <<"rax", "rdx", "rbx", "rsp", "rbp", "rsi", "rdi", "r10", "r12">>
MCGpArguments == <<"rdi", "rsi">>
MCXmmArguments == <<"xmm0", "xmm1", "xmm2">>
MCCallerSaved == {"rax", "rdx", "rsi", "rdi", "r10", "xmm0", "xmm1", "xmm2", "xmm8"}
MCCalleeSaved == {"rbx", "rbp", "r12"}

Gpr == [class |-> "GP", size |-> 8]
Narrow == [class |-> "GP", size |-> 4]
Dbl == [class |-> "FP", size |-> 8]
Struct(size) == [class |-> "MEM", size |-> size]

Orders == {<<1, 2, 3>>, <<1, 3, 2>>}

(* The values that live over the calls: register -> the calls.             *)
Function(order, over, args, returns, unused, local) ==
    LET n == Len(order)
        place(b) == CHOOSE i \in 1 .. n : order[i] = b
        live(i) == {r \in DOMAIN over : i \in over[r]} \cup Results(returns[i])
    IN  [order |-> order,
         lives |-> [b \in 1 .. n |-> IF b = order[n] THEN {} ELSE live(place(b))],
         calls |-> [b \in (1 .. n) \ {order[n]} |->
                      [args |-> args[place(b)], returns |-> returns[place(b)]]],
         saved |-> unused \cup (DOMAIN over \cap MCCalleeSaved),
         local |-> local]

Times(a, n) == [i \in 1 .. n |-> a]

(* Up to two values, in registers of every kind, over either call or both. *)
Spans == {{1}, {2}, {1, 2}}
Lives == UNION {[rs -> Spans] : rs \in {s \in SUBSET {"rdx", "rbx", "r10", "xmm8"} :
                                        Cardinality(s) <= 2}}

WithValues ==
    {Function(o, over, <<Times(Gpr, n), <<>>>>, <<returns, 0>>, {}, 0) :
       o \in Orders, n \in {0, 3}, returns \in 0 .. 1,
       over \in Lives}

(* Frames of every form, calls with up to two arguments on the stack.      *)
WithFrames ==
    {Function(o, [r \in {} |-> {}], <<Times(Gpr, m), Times(Narrow, n)>>, <<0, returns>>, unused, local) :
       o \in Orders, m \in {0, 3, 4}, n \in {0, 3, 4}, returns \in {0, 2},
       unused \in SUBSET {"rbx", "r12"}, local \in {0, 4, 8, 24}}

(* Arguments of every kind.                                                *)
WithArguments ==
    {Function(<<1, 2, 3>>, [r \in {} |-> {}], <<args, <<>>>>, <<1, 0>>, {}, 16) :
       args \in UNION {[1 .. n -> {Narrow, Dbl, Struct(16), Struct(12)}] : n \in 0 .. 4}}

(* Three calls, whose adjustments are visited in every order.              *)
WithOrders ==
    {Function(<<1>> \o o, [r \in {"r10"} |-> {2}], [n \in 1 .. 3 |-> Times(Gpr, m[n])], <<0, 0, 0>>, {}, 0) :
       o \in {s \in [1 .. 3 -> 2 .. 4] : Distinct(s)}, m \in [1 .. 3 -> {0, 3, 4}]}

MCFunctions == WithValues \cup WithFrames \cup WithArguments \cup WithOrders

(* Two values live over a call, one of them in rbx.                        *)
OneInRbx ==
    {Function(<<1, 2, 3>>, "rbx" :> {1} @@ "r10" :> {1}, <<<<>>, <<>>>>, <<0, 0>>, {}, 0)}
=============================================================================
