----------------------------- MODULE LIRShapes -----------------------------
(***************************************************************************)
(* Small functions in the forms lowering produces, for the instances of    *)
(* the allocator's passes.                                                 *)
(***************************************************************************)
EXTENDS LIRFunction

G == INSTANCE FlowGraph

Instruction(out, in, kind, gp) ==
    [outs |-> out, ins |-> in, kind |-> kind, temps |-> [GP |-> gp, FP |-> 0]]

Plain(out, in) == Instruction(out, in, "plain", 0)
None == Plain({}, <<>>)
Store(in) == Instruction({}, in, "plain", 1)
Call(out, in) == Instruction(out, in, "call", 0)

(* A graph of the successors of its blocks; the last returns.              *)
Graph(branches) ==
    [succ |-> Append(branches, <<>>), entry |-> 1, exit |-> Len(branches) + 1]

(* A diamond, a skewed branch, a loop tested at its end, one entered in two *)
(* places, and one that a call splits.                                      *)
Diamond == Graph(<<<<2, 3>>, <<4>>, <<4>>>>)
Skewed == Graph(<<<<2, 3>>, <<3, 4>>, <<4>>>>)
DoLoop == Graph(<<<<2>>, <<3>>, <<2, 4>>>>)
Irreducible == Graph(<<<<2, 3>>, <<3>>, <<2, 4>>>>)
CallInLoop == Graph(<<<<2>>, <<3, 5>>, <<4>>, <<2>>>>)

(* Where a value is defined (0: an argument) and read.                     *)
ReadIn(g, d) ==
    {r \in SUBSET {b \in 1 .. g.exit : d = 0 \/ G!Dominates(g, d, b)} :
        Cardinality(r) \in 1 .. 2}

Lives(g) == UNION {{[def |-> d, reads |-> r] : r \in ReadIn(g, d)} : d \in 0 .. g.exit}

(* The blocks that may end in a call (0: none): the only way into the next.*)
CallBlocks(g) ==
    {0} \cup {b \in 1 .. (g.exit - 1) :
              /\ Len(g.succ[b]) = 1
              /\ G!Predecessors(g, g.succ[b][1]) = {b}}

If(c, inst) == IF c THEN <<inst>> ELSE <<>>

(* An argument with uses outside the first block is copied on entry.       *)
Copied(v) == v.def = 0 /\ v.reads # {1}

(* Two values v and w.  A read is a store of a global through the value,   *)
(* which needs a temporal register; but a call passes v and the last block *)
(* returns it, through copies a and t with fixed registers.  The           *)
(* continuation of a call copies its result.  Prologue, stack adjustments  *)
(* and epilogue are instructions.                                          *)
CodeOf(g, call, v, w, b) ==
    (IF b = 1 THEN <<Plain({}, <<>>)>> \o If(Copied(v), Plain({"v"}, <<"p">>)) ELSE <<>>)
    \o (IF call # 0 /\ b = g.succ[call][1]
        THEN <<Plain({}, <<>>), Plain({"c"}, <<"r">>)>> ELSE <<>>)
    \o If(v.def = b, Plain({"v"}, <<>>))
    \o If(b \in w.reads /\ w.def # b, Store(<<"w">>))
    \o If(w.def = b, Plain({"w"}, <<>>))
    \o If(b \in v.reads /\ b \notin {call, g.exit}, Store(<<"v">>))
    \o If(b \in w.reads /\ w.def = b, Store(<<"w">>))
    \o (IF b = call
        THEN IF b \in v.reads
             THEN <<Plain({}, <<>>), Plain({"a"}, <<"v">>), Call({"r"}, <<"a">>)>>
             ELSE <<Plain({}, <<>>), Call({"r"}, <<>>)>>
        ELSE IF b = g.exit
        THEN IF b \in v.reads
             THEN <<Plain({"t"}, <<"v">>), Plain({}, <<>>), Plain({}, <<"t">>)>>
             ELSE <<Plain({}, <<>>), Plain({}, <<>>)>>
        ELSE <<Plain({}, <<>>)>>)

FixedValues(g, call, v) ==
    (IF v.def # 0 THEN <<>> ELSE (IF Copied(v) THEN "p" ELSE "v") :> "rdi")
    @@ (IF call = 0 THEN <<>> ELSE "r" :> "rax")
    @@ (IF call \in v.reads THEN "a" :> "rdi" ELSE <<>>)
    @@ (IF g.exit \in v.reads THEN "t" :> "rax" ELSE <<>>)

(* The passes before the allocator leave their results with the function. *)
Analysed(f) == [live_in |-> LiveIns(f)] @@ f

TwoValues(g, call, v, w) == Analysed(
    [succ |-> g.succ, order |-> G!Preorder(g),
     code |-> [b \in 1 .. g.exit |-> CodeOf(g, call, v, w, b)],
     args |-> IF v.def # 0 THEN {} ELSE IF Copied(v) THEN {"p"} ELSE {"v"},
     gens |-> <<>>, floats |-> {}, copies |-> {"a", "c", "t"} \cup (IF Copied(v) THEN {"v"} ELSE {}),
     fixed |-> FixedValues(g, call, v)])

(* Three values, each read once by a store, below two stack slots.         *)
Names == <<"v1", "v2", "v3">>

ReadOnce(g) == {l \in Lives(g) : l.def # 0 /\ Cardinality(l.reads) = 1}

Pressed(g, lives, gens) == Analysed(
    [succ |-> g.succ, order |-> G!Preorder(g),
     code |-> [b \in 1 .. g.exit |->
         LET defs == SelectSeq(<<1, 2, 3>>, LAMBDA k : lives[k].def = b)
             uses == SelectSeq(<<1, 2, 3>>, LAMBDA k : b \in lives[k].reads)
         IN  (IF b = 1 THEN <<None, Plain({"g1"}, <<>>), Plain({"g2"}, <<>>)>> ELSE <<>>)
             \o [n \in DOMAIN defs |-> Plain({Names[defs[n]]}, <<>>)]
             \o [n \in DOMAIN uses |-> Store(<<Names[uses[n]]>>)]
             \o <<Plain({}, IF b = g.exit THEN <<"g1", "g2">> ELSE <<>>)>>],
     args |-> {}, gens |-> gens, floats |-> {}, copies |-> {}, fixed |-> <<>>])

ThreeValueFunctions(g, sizes) ==
    {Pressed(g, lives, [g1 |-> [size |-> s[1], align |-> s[1]],
                        g2 |-> [size |-> s[2], align |-> s[2]]]) :
       lives \in [1 .. 3 -> ReadOnce(g)], s \in sizes \X sizes}

(* A loop or a join whose values go through one or two phis: copies before *)
(* the terminators of the two blocks that lead to the phis' block, in      *)
(* their order, and a third value beside them.                             *)
PhiOf(out, in) == Instruction({out}, in, "pcopy", 0)

Joining(g) == CHOOSE b \in 1 .. g.exit : Cardinality(G!Predecessors(g, b)) = 2

(* copied: for every phi, the values copied in its first and second        *)
(* predecessor.                                                            *)
PhiCode(g, copied, w, b) ==
    LET at == Joining(g)
        preds == SetToSortSeq(G!Predecessors(g, at), <)
        phi == <<"x1", "x2">>
        copy == <<<<"c11", "c12">>, <<"c21", "c22">>>>
        Copies(k) == IF b = preds[k]
                     THEN [n \in DOMAIN copied |-> Plain({copy[n][k]}, <<copied[n][k]>>)]
                     ELSE <<>>
    IN  (IF b = 1 THEN <<Plain({}, <<>>), Plain({"i"}, <<>>)>> ELSE <<>>)
        \o (IF b = at THEN [n \in DOMAIN copied |-> PhiOf(phi[n], copy[n])] ELSE <<>>)
        \o If(b \in w.reads /\ w.def # b, Plain({}, <<"w">>))
        \o If(w.def = b, Plain({"w"}, <<>>))
        \o (IF b = preds[2] THEN <<Plain({"y"}, IF at < b THEN [n \in DOMAIN copied |-> phi[n]] ELSE <<"i">>)>>
            ELSE IF b = at /\ at > preds[2]
            THEN [n \in DOMAIN copied |-> Plain({}, <<phi[n]>>)]
            ELSE <<>>)
        \o If(b \in w.reads /\ w.def = b, Plain({}, <<"w">>))
        \o Copies(1) \o Copies(2)
        \o <<None>>

WithPhis(g, copied, w) == Analysed(
    [succ |-> g.succ, order |-> G!Preorder(g),
     code |-> [b \in 1 .. g.exit |-> PhiCode(g, copied, w, b)],
     args |-> {}, gens |-> <<>>, floats |-> {},
     copies |-> UNION {{<<"c11", "c12">>[k], <<"c21", "c22">>[k]} : k \in {1, 2}},
     fixed |-> <<>>])

(* In a loop a phi may be copied into the next one.                        *)
CopiedForPhis(g) ==
    {<<<<"i", "y">>>>, <<<<"i", "y">>, <<"i", "y">>>>}
    \cup (IF g = DoLoop THEN {<<<<"i", "x2">>, <<"i", "y">>>>} ELSE {})

PhiFunctions(graphs) ==
    UNION {{WithPhis(g, copied, w) : copied \in CopiedForPhis(g), w \in {x \in Lives(g) : x.def # 0}} :
           g \in graphs}

(* v is defined in a block of vs.                                          *)
TwoValueFunctions(graphs, vs) ==
    UNION {{TwoValues(g, call, v, w) :
              call \in CallBlocks(g), v \in {x \in Lives(g) : x.def \in vs},
              w \in {x \in Lives(g) : x.def # 0}} :
           g \in graphs}

(* A function without arguments, in the order of its blocks.               *)
Plainly(succ, code, fixed) == Analysed(
    [succ |-> succ, order |-> [b \in DOMAIN code |-> b], code |-> code,
     args |-> {}, gens |-> <<>>, floats |-> {}, copies |-> {}, fixed |-> fixed])

(* v = ..; if (..) f(v);                                                   *)
(* else if (..) {b = ..; x = ..; g(b); use(x);}                            *)
(* else {y = ..; z = ..; use(y); use(z); use(v);}                          *)
TwoVoidCalls == Plainly(
    <<<<2, 5>>, <<3>>, <<4>>, <<>>, <<6, 8>>, <<7>>, <<4>>, <<4>>>>,
    <<<<None, Plain({"v"}, <<>>), None>>,
      <<None, Plain({"a1"}, <<"v">>), Call({}, <<"a1">>)>>,
      <<None, None>>,
      <<None, None>>,
      <<None>>,
      <<Plain({"b"}, <<>>), Plain({"x"}, <<>>), None, Plain({"a2"}, <<"b">>), Call({}, <<"a2">>)>>,
      <<None, Plain({}, <<"x">>), None>>,
      <<Plain({"y"}, <<>>), Plain({"z"}, <<>>), Plain({}, <<"y">>), Plain({}, <<"z">>),
        Plain({}, <<"v">>), None>>>>,
    [a1 |-> "rdi", a2 |-> "rdi"])

(* v = ..; if (..) g(v); else {w = ..; use(w); h(v);}                      *)
TwoCallsOfValue == Plainly(
    <<<<2, 4>>, <<3>>, <<6>>, <<5>>, <<6>>, <<>>>>,
    <<<<None, Plain({"v"}, <<>>), None>>,
      <<None, Plain({"a1"}, <<"v">>), Call({}, <<"a1">>)>>,
      <<None, None>>,
      <<Plain({"w"}, <<>>), Plain({}, <<"w">>), None, Plain({"a2"}, <<"v">>), Call({}, <<"a2">>)>>,
      <<None, None>>,
      <<None, None>>>>,
    [a1 |-> "rdi", a2 |-> "rdi"])

(* v = ..; u = ..; x = v << u; y = ..; use(x); use(y); use(v); f(u); use(u);*)
EarlyArgument == Plainly(
    <<<<2>>, <<>>>>,
    <<<<None, Plain({"v"}, <<>>), Plain({"u"}, <<>>), Plain({"k"}, <<"u">>), Plain({"x"}, <<"v", "k">>),
        Plain({"y"}, <<>>), Plain({}, <<"x">>), Plain({}, <<"y">>), Plain({}, <<"v">>),
        None, Plain({"a"}, <<"u">>), Call({}, <<"a">>)>>,
      <<None, Plain({}, <<"u">>), None>>>>,
    [k |-> "rcx", a |-> "rdi"])

(* if (..) {y = ..; x1 = x2 = y;} else {x1 = j; x2 = i;}: the copies of    *)
(* the second branch begin it.                                             *)
CopiesBegin(v, w) ==
    [Plainly(
        Diamond.succ,
        <<<<None, Plain({"i"}, <<>>), Plain({"j"}, <<>>), None>>,
          <<Plain({"y"}, <<>>), Plain({"c11"}, <<"y">>), Plain({"c12"}, <<"y">>), None>>,
          <<Plain({"c21"}, <<v>>), Plain({"c22"}, <<w>>), None>>,
          <<PhiOf("x1", <<"c11", "c21">>), PhiOf("x2", <<"c12", "c22">>),
            Plain({}, <<"x1">>), Plain({}, <<"x2">>), None>>>>,
        <<>>) EXCEPT !.copies = {"c11", "c12", "c21", "c22"}]
=============================================================================
